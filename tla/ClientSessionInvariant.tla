----------------------- MODULE ClientSessionInvariant -----------------------
(***************************************************************************)
(* The inductive invariant of ClientSession, for any users, sessions and   *)
(* bounds, that the client's operations keep it, and the wakes of the      *)
(* client that take no key.                                                *)
(*                                                                         *)
(* The invariant Inv has two halves. ClientOK is about what the client     *)
(* shows: nothing held is forgotten, a question is about something, a      *)
(* selector that loads is served. Ordered is about where every key that    *)
(* was typed may be: those in the shell were typed before those on their   *)
(* way that the host has not taken, and both before those held; which of   *)
(* the keys on their way the host has taken is what `written` counts, as   *)
(* long as both ends are on the same link.                                 *)
(*                                                                         *)
(* Every wake of the client is a handler and a lap. The lap is treated     *)
(* once (LapOK). A wake that takes no key is quiet: it moves no key but    *)
(* off a link that is replaced, and asks for nothing but a list.           *)
(***************************************************************************)
EXTENDS ClientSession, TLAPS

-----------------------------------------------------------------------------
(* The inductive invariant *)

\* A key as it is read, and as it is sent or held.
Byte == [k : STRING]
KeyRec == [id : Nat, blind : BOOLEAN]

\* LinkState
LinkRec ==
    [phase : Phase, last_heard : Age, owed_since : MaybeAge, last_sent : Age,
     held : Seq(KeyRec)]

\* A list of some of the sessions, and a row of it.
RowSet == UNION {[S -> RowKind] : S \in SUBSET Sessions}
Row == Sessions \cup {NewSession}

\* Selector
SelRec ==
    [rows : RowSet, cursor : Row, loading : BOOLEAN,
     question : [what : {"none", "TakeOver", "Kill"}, id : Row, asked : Age],
     rename : Row, list_failed : BOOLEAN]

\* The cursor is on a row there is, and a question is about a session.
Sel == {s \in SelRec : /\ s.cursor \in DOMAIN s.rows \cup {NewSession}
                       /\ s.question = NoQuestion \/ s.question.id \in Sessions}

\* The popup: Ui
Ui ==
    [auto_open : MaybeAge, mode : Mode, at : MaybeAge, editing : Editing,
     key : {"key", "off"}, dismissed : BOOLEAN, outage_since : MaybeAge,
     asked_at : MaybeAge, config_decided : BOOLEAN, sel : Sel]

\* The requests that can be made of the door, and whether there is one.
Wishes == {"Sessions", "New", "Switch", "Kill", "Rename"}

Asks == {a \in [is : {"Ask"}, what : Wishes, id : Row] :
           a.what = "Switch" => a.id \in Sessions}

Request == {Nothing} \cup Asks

\* The client, ...
ClientRec ==
    [l : LinkRec, ui : Ui, pending : Seq(KeyRec), unacked : BOOLEAN,
     there : BOOLEAN, asking : Request, asked : Request, list_owed : BOOLEAN,
     in_lobby : BOOLEAN, here : Sessions]

\* ... what the host may have answered it, and the host.
Reply ==
    {a \in [is : {"no", "Lost", "Refused", "Sessions", "Landed", "Started",
                  "Killed", "Renamed"}, what : {"-"}, id : Row] :
       a.is \in {"Landed", "Started"} => a.id \in Sessions}

HostRec ==
    [len : Nat, written : Nat, shell : Seq(KeyRec), lobby : BOOLEAN,
     on : {"same", "ahead", "behind", "apart"},
     attempt : {"no", "here", "adopted", "left", "lobby"}, reply : Reply]

\* The selector is up, and says that it is loading.
Loads(u) == u.mode = "Sessions" /\ u.sel.loading

\* What holds of the client between any two steps of it: nothing held is
\* forgotten, a question is about something, one request is out at most, ...
Calm(d) ==
    /\ d \in ClientRec
    /\ Len(d.l.held) <= MAX_HELD
    /\ d.l.held # <<>> => d.l.phase # "Live"
    /\ d.l.phase = "Confirming" => d.l.held # <<>>
    /\ Nothing \in {d.asking, d.asked}

\* ... and a selector that loads is served.
Serves(d) ==
    Loads(d.ui) => \/ "Sessions" \in {d.asking.what, d.asked.what}
                   \/ d.list_owed /\ asking(d)

\* Both.
ClientOK(d) == Calm(d) /\ Serves(d)

\* The keys of s are some of the first n, in the order of typing.
Upto(s, n) == \A i \in DOMAIN s : s[i].id \in 1..n
Sorted(s) == \A i, j \in DOMAIN s : i < j => s[i].id < s[j].id

\* Every key of s was typed before those of t past the first n.
Before(s, t, n) ==
    \A i \in DOMAIN s, j \in DOMAIN t : n < j => s[i].id < t[j].id

\* Where every key that was typed may be: in the shell, on its way, or held.
Ordered(pending, held, g, n) ==
    /\ Upto(pending, n) /\ Upto(held, n) /\ Upto(g.shell, n)
    /\ Sorted(pending) /\ Sorted(held) /\ Sorted(g.shell)
    /\ Before(pending, held, 0) /\ Before(g.shell, held, 0)
    /\ g.len = g.written
    /\ g.on = "same" => /\ g.written <= Len(pending)
                        /\ Before(g.shell, pending, g.written)
    /\ g.on = "behind" => Before(g.shell, pending, 0)
    /\ g.on \in {"ahead", "apart"} => g.written = 0
    /\ g.attempt = "adopted" => g.on \in {"ahead", "apart"}

\* The inductive invariant.
Inv ==
    /\ user \in Users /\ typed \in 0..user.keys /\ ended \in BOOLEAN
    /\ ClientOK(c) /\ h \in HostRec
    /\ Ordered(c.pending, c.l.held, h, typed)

-----------------------------------------------------------------------------
(* Ages, minima and maxima *)

\* The bounds are numbers, and every threshold is one that is counted to.
LEMMA Thresholds ==
    /\ AgeCap \in Nat /\ MAX_HELD \in Nat
    /\ SILENT_AFTER \in Nat \ {0} /\ REBUILD_AFTER \in Nat \ {0}
    /\ ANSWER_GUARD \in Nat \ {0} /\ ANSWER_GUARD <= AgeCap
    /\ LINGER \in Nat \ {0} /\ 0 \in Age /\ None \in MaybeAge
    /\ Age \subseteq Nat /\ MaybeAge \subseteq Int
<1>1. /\ SILENT_AFTER \in 1..AgeCap /\ REBUILD_AFTER \in 1..AgeCap
      /\ MAX_HELD \in Nat /\ AgeCap \in Nat
  BY LinkTimings
<1>2. ANSWER_GUARD \in 1..AgeCap /\ LINGER \in 1..AgeCap
  BY PopupTimings
<1>3. 0 \in Age /\ None \in MaybeAge /\ Age \subseteq Nat /\ MaybeAge \subseteq Int
  BY <1>1, SMTT(30), Z3T(30) DEF Age, MaybeAge, None
<1> QED  BY <1>1, <1>2, <1>3, SMTT(30), Z3T(30)

\* The smaller of two numbers.
LEMMA MinPair ==
    ASSUME NEW a \in Int, NEW b \in Int
    PROVE  Min({a, b}) = IF a <= b THEN a ELSE b
  BY SMTT(30), Z3T(30) DEF Min

\* The larger of two numbers.
LEMMA MaxPair ==
    ASSUME NEW a \in Int, NEW b \in Int
    PROVE  Max({a, b}) = IF a >= b THEN a ELSE b
  BY SMTT(30), Z3T(30) DEF Max

\* An age stays an age as time passes.
LEMMA OlderAge ==
    ASSUME NEW a \in MaybeAge
    PROVE  Older(a) \in MaybeAge /\ (a \in Age => Older(a) \in Age)
<1>1. CASE a = None
  BY <1>1, Thresholds DEF Older, None, Age
<1>2. CASE a \in Age
  <2>1. Min({a + 1, AgeCap}) = IF a + 1 <= AgeCap THEN a + 1 ELSE AgeCap
    BY <1>2, Thresholds, MinPair, SMTT(30), Z3T(30)
  <2> QED  BY <1>2, <2>1, Thresholds, SMTT(30), Z3T(30) DEF Older, MaybeAge, Age, None
<1> QED  BY <1>1, <1>2 DEF MaybeAge

-----------------------------------------------------------------------------
(* The link state *)

\* Time passes for the link, and it is heard from or sent on.
LEMMA LinkMoves ==
    ASSUME NEW l \in LinkRec
    PROVE  /\ LinkAges(l) \in LinkRec /\ LinkAges(l).held = l.held
           /\ LinkAges(l).phase = l.phase
           /\ sent(l) \in LinkRec /\ sent(l).held = l.held
           /\ sent(l).phase = l.phase
           /\ heard(l) \in LinkRec /\ heard(l).held = l.held
           /\ heard(l).phase = IF l.held = <<>> THEN "Live" ELSE "Confirming"
<1>1. /\ l.last_heard \in Age /\ l.owed_since \in MaybeAge /\ l.last_sent \in Age
      /\ Age \subseteq MaybeAge
  BY DEF LinkRec, MaybeAge
<1>2. /\ Older(l.last_heard) \in Age /\ Older(l.owed_since) \in MaybeAge
      /\ Older(l.last_sent) \in Age
  BY <1>1, OlderAge
<1>3. LinkAges(l) \in LinkRec /\ LinkAges(l).held = l.held /\ LinkAges(l).phase = l.phase
  BY <1>2, Zenon DEF LinkRec, LinkAges
<1>4. sent(l) \in LinkRec /\ sent(l).held = l.held /\ sent(l).phase = l.phase
  BY Thresholds, ZenonT(30) DEF LinkRec, sent
<1>5. /\ heard(l) \in LinkRec /\ heard(l).held = l.held
      /\ heard(l).phase = IF l.held = <<>> THEN "Live" ELSE "Confirming"
  BY Thresholds, Zenon DEF LinkRec, heard, Phase
<1> QED  BY <1>3, <1>4, <1>5

\* A lap finds an outage, or that it lasts: it never ends one.
LEMMA LinkEvaluated ==
    ASSUME NEW l \in LinkRec, NEW owed \in BOOLEAN
    PROVE  /\ evaluate(l, owed) \in LinkRec /\ evaluate(l, owed).held = l.held
           /\ evaluate(l, owed).phase \in {l.phase, "Silent", "Recovering"}
<1>1. CASE l.phase = "Recovering"
  BY <1>1 DEF evaluate
<1>2. CASE l.phase = "Silent"
  BY <1>2 DEF evaluate, LinkRec, Phase
<1>3. CASE l.phase \notin {"Recovering", "Silent"}
  <2> DEFINE owing == Owing(l, owed)
  <2>1. owing \in MaybeAge
    <3>1. l.owed_since \in MaybeAge
      BY DEF LinkRec
    <3>2. l.owed_since \in Int /\ 0 \in Age
      BY <3>1, Thresholds, Zenon
    <3>3. Max({l.owed_since, 0}) = IF l.owed_since >= 0 THEN l.owed_since ELSE 0
      BY <3>2, MaxPair, SMTT(30), Z3T(30)
    <3> QED  BY <3>1, <3>2, <3>3 DEF Owing, MaybeAge
  <2>2. evaluate(l, owed) = [l EXCEPT !.owed_since = owing,
                      !.phase = IF owing >= SILENT_AFTER THEN "Silent" ELSE @]
    BY <1>3 DEF evaluate
  <2> HIDE DEF owing
  <2> QED  BY <2>1, <2>2, Zenon DEF LinkRec, Phase
<1> QED  BY <1>1, <1>2, <1>3

\* An answer to the question empties the hold and makes the link live.
LEMMA LinkReleased ==
    ASSUME NEW l \in LinkRec
    PROVE  /\ take_held(l) \in LinkRec /\ take_held(l).held = <<>>
           /\ take_held(l).phase = "Live"
           /\ drop_held(l) \in LinkRec /\ drop_held(l).held = <<>>
           /\ drop_held(l).phase = "Live"
<1>1. <<>> \in Seq(KeyRec) /\ "Live" \in Phase
  BY SMTT(30), Z3T(30) DEF Phase
<1>2. take_held(l) \in LinkRec
  BY <1>1, Zenon DEF take_held, LinkRec
<1>3. drop_held(l) \in LinkRec
  BY <1>1, Zenon DEF drop_held, LinkRec
<1> QED  BY <1>2, <1>3 DEF take_held, drop_held, LinkRec

-----------------------------------------------------------------------------
(* The popup *)

\* Rows: of none, and of some sessions.
LEMMA RowFacts ==
    /\ <<>> \in RowSet /\ DOMAIN <<>> = {}
    /\ \A rows \in RowSet : /\ DOMAIN rows \subseteq Sessions
                            /\ \A s \in DOMAIN rows : rows[s] \in RowKind
    /\ \A rows : /\ rows = [s \in DOMAIN rows |-> rows[s]]
                 /\ DOMAIN rows \subseteq Sessions
                 /\ \A s \in DOMAIN rows : rows[s] \in RowKind
                 => rows \in RowSet
<1>1. <<>> \in RowSet /\ DOMAIN <<>> = {}
  <2>1. <<>> \in [{} -> RowKind] /\ DOMAIN <<>> = {}
    BY SMTT(30), Z3T(30)
  <2>2. {} \in SUBSET Sessions
    OBVIOUS
  <2> QED  BY <2>1, <2>2, Zenon DEF RowSet
<1>2. ASSUME NEW rows \in RowSet
      PROVE  /\ DOMAIN rows \subseteq Sessions
             /\ \A s \in DOMAIN rows : rows[s] \in RowKind
  <2>1. PICK S \in SUBSET Sessions : rows \in [S -> RowKind]
    BY <1>2, Zenon DEF RowSet
  <2> QED  BY <2>1
<1>3. ASSUME NEW rows, rows = [s \in DOMAIN rows |-> rows[s]],
             DOMAIN rows \subseteq Sessions, \A s \in DOMAIN rows : rows[s] \in RowKind
      PROVE  rows \in RowSet
  <2>1. rows \in [DOMAIN rows -> RowKind] /\ DOMAIN rows \in SUBSET Sessions
    BY <1>3
  <2> QED  BY <2>1, Zenon DEF RowSet
<1> QED  BY <1>1, <1>2, <1>3, Zenon

\* The selector as it opens.
LEMMA OpenedSel == opened \in Sel /\ opened.loading
<1>1. opened \in SelRec
  BY RowFacts, Thresholds DEF opened, SelRec, NoQuestion, NewSession, Row
<1> QED  BY <1>1 DEF opened, Sel

\* Where the popup may be taken.
LEMMA ToUi ==
    ASSUME NEW u \in Ui, NEW mode \in Mode, NEW at \in MaybeAge
    PROVE  /\ To(u, mode, at) \in Ui /\ To(u, mode, at).mode = mode
           /\ To(u, mode, at).asked_at = u.asked_at
           /\ To(u, mode, at).outage_since = u.outage_since
           /\ To(u, mode, at).sel = opened
<1>1. "None" \in Editing /\ opened \in Sel
  BY OpenedSel DEF Editing
<1> QED  BY <1>1, Zenon DEF To, Ui

\* The popup moves but not into the selector, and asks as long as before.
Tame(u, v) ==
    /\ v \in Ui /\ v.asked_at = u.asked_at
    /\ Loads(v) => Loads(u)

\* What a key, an outage or the session makes of the popup.
LEMMA TameMoves ==
    ASSUME NEW u \in Ui
    PROVE  /\ Tame(u, u) /\ Tame(u, touch(u)) /\ Tame(u, close_popup(u))
           /\ Tame(u, leave_config(u)) /\ Tame(u, leave_sessions(u))
           /\ \A phase : Tame(u, ClosedByHand(u, phase))
           /\ \A mode \in Mode \ {"Sessions"}, at \in MaybeAge :
                 Tame(u, To(u, mode, at))
<1>1. ASSUME NEW mode \in Mode \ {"Sessions"}, NEW at \in MaybeAge
      PROVE  Tame(u, To(u, mode, at))
  BY ToUi DEF Tame, Loads
<1>2. {"Open", "Closed"} \subseteq Mode \ {"Sessions"} /\ None \in MaybeAge
  BY Thresholds DEF Mode
<1>3. Tame(u, To(u, "Open", None)) /\ Tame(u, To(u, "Closed", None))
  BY <1>1, <1>2
<1>4. Tame(u, u)
  BY DEF Tame
<1>5. ASSUME NEW phase  PROVE Tame(u, ClosedByHand(u, phase))
  <2> DEFINE v == close_popup(u)
  <2>1. v \in Ui /\ v.asked_at = u.asked_at /\ v.mode = "Closed"
    BY <1>2, ToUi DEF close_popup
  <2>2. is_outage(phase) \in BOOLEAN
    BY SMTT(30), Z3T(30) DEF is_outage
  <2>3. ClosedByHand(u, phase) = [v EXCEPT !.dismissed = @ \/ is_outage(phase)]
    BY DEF ClosedByHand
  <2> HIDE DEF v
  <2> QED  BY <2>1, <2>2, <2>3 DEF Tame, Ui, Loads
<1> QED  BY <1>1, <1>3, <1>4, <1>5, Zenon
         DEF touch, close_popup, leave_config, leave_sessions

\* A question on the screen is nobody else's, and one that has been up long
\* enough to be answered was up as long before this look at it.
LEMMA QuestionedUi ==
    ASSUME NEW u \in Ui, NEW phase
    PROVE  /\ Questioned(u, phase) \in Ui
           /\ Loads(Questioned(u, phase)) => Loads(u)
           /\ answerable(Questioned(u, phase)) =>
                phase = "Confirming" /\ u.asked_at >= ANSWER_GUARD
           /\ phase # "Confirming" => /\ Questioned(u, phase).mode = u.mode
                                      /\ Questioned(u, phase).sel = u.sel
           /\ phase = "Confirming" =>
                Questioned(u, phase).mode \notin {"Sessions", "Config"}
<1> DEFINE v == note_question(u, phase)
<1> DEFINE a == IF phase # "Confirming" THEN None ELSE Max({u.asked_at, 0})
<1>1. u.asked_at \in MaybeAge /\ u.asked_at \in Int /\ 0 \in Age
  BY Thresholds, Zenon DEF Ui
<1>2. Max({u.asked_at, 0}) = IF u.asked_at >= 0 THEN u.asked_at ELSE 0
  BY <1>1, MaxPair, SMTT(30), Z3T(30)
<1>3. /\ a \in MaybeAge
      /\ a >= ANSWER_GUARD => phase = "Confirming" /\ u.asked_at >= ANSWER_GUARD
  BY <1>1, <1>2, Thresholds, SMTT(30), Z3T(30) DEF MaybeAge, None
<1>4. v = [u EXCEPT !.asked_at = a]
  BY DEF note_question
<1> HIDE DEF a, v
<1>5. v \in Ui /\ v.mode = u.mode /\ v.sel = u.sel /\ v.asked_at = a
  BY <1>3, <1>4 DEF Ui
<1>6. CASE phase # "Confirming"
  <2>1. Questioned(u, phase) = v
    BY <1>6 DEF Questioned, v
  <2> QED  BY <1>3, <1>5, <1>6, <2>1 DEF Loads, answerable
<1>7. CASE phase = "Confirming"
  <2> DEFINE w == leave_config(v)
  <2>1. Questioned(u, phase) = leave_sessions(w)
    BY <1>7 DEF Questioned, v
  <2>2. Tame(v, w) /\ w.mode # "Config"
    <3>1. None \in MaybeAge /\ "Open" \in Mode
      BY Thresholds DEF Mode
    <3> QED  BY <1>5, <3>1, TameMoves, ToUi DEF leave_config
  <2> HIDE DEF w
  <2>3. Tame(w, leave_sessions(w)) /\ leave_sessions(w).mode \notin {"Sessions", "Config"}
    <3>1. None \in MaybeAge /\ "Open" \in Mode /\ w \in Ui
      BY <2>2, Thresholds DEF Mode, Tame
    <3> QED  BY <2>2, <3>1, TameMoves, ToUi DEF leave_sessions
  <2> QED  BY <1>3, <1>5, <1>7, <2>1, <2>2, <2>3 DEF Loads, answerable, Tame
<1> QED  BY <1>6, <1>7

\* The popup may open or close with an outage, never the selector.
LEMMA OutageTickUi ==
    ASSUME NEW u \in Ui, NEW since \in Age
    PROVE  Tame(u, OutageTick(u, since))
<1> DEFINE begun == IF u.outage_since # None THEN u
                    ELSE [u EXCEPT !.outage_since = since, !.dismissed = FALSE,
                                   !.config_decided = FALSE]
<1> DEFINE decided == [begun EXCEPT !.config_decided = TRUE]
<1>1. begun \in Ui /\ Tame(u, begun)
  BY Zenon DEF Ui, MaybeAge, Tame, Loads
<1>2. OutageTick(u, since) \in {To(begun, "Auto", None), begun, decided,
                                leave_config(decided)}
  BY Zenon DEF OutageTick
<1> HIDE DEF begun
<1>3. decided \in Ui /\ Tame(begun, decided)
  BY <1>1, Zenon DEF Ui, Tame, Loads
<1> HIDE DEF decided
<1>4. Tame(begun, To(begun, "Auto", None)) /\ Tame(decided, leave_config(decided))
  <2>1. "Auto" \in Mode \ {"Sessions"} /\ None \in MaybeAge
    BY Thresholds DEF Mode
  <2> QED  BY <1>1, <1>3, <2>1, TameMoves
<1> QED  BY <1>1, <1>2, <1>3, <1>4, Zenon DEF Tame

\* A tick of the popup brings no selector that loads.
LEMMA TickUi ==
    ASSUME NEW u \in Ui, NEW l \in LinkRec
    PROVE  tick(u, l) \in Ui /\ (Loads(tick(u, l)) => Loads(u))
<1> DEFINE v == Questioned(u, l.phase)
<1> DEFINE over == [v EXCEPT !.outage_since = None]
<1>1. v \in Ui /\ (Loads(v) => Loads(u))
  BY QuestionedUi
<1>2. \/ \E since \in Age : tick(u, l) = OutageTick(v, since)
      \/ tick(u, l) = AnsweredTick(v, l.phase)
  <2>1. l.last_heard \in Age /\ 0 \in Age
    BY Thresholds DEF LinkRec
  <2> QED  BY <2>1 DEF tick
<1> HIDE DEF v
<1>3. over \in Ui /\ Tame(v, over)
  BY <1>1, Thresholds DEF Ui, Tame, Loads
<1>4. AnsweredTick(v, l.phase) \in {To(over, "Lingering", 0), close_popup(over), over}
  BY Zenon DEF AnsweredTick
<1> HIDE DEF over
<1>5. Tame(over, To(over, "Lingering", 0)) /\ Tame(over, close_popup(over))
  <2>1. "Lingering" \in Mode \ {"Sessions"} /\ 0 \in MaybeAge
    BY Thresholds DEF Mode, MaybeAge
  <2> QED  BY <1>3, <2>1, TameMoves
<1>6. Tame(v, AnsweredTick(v, l.phase))
  BY <1>3, <1>4, <1>5, Zenon DEF Tame
<1>7. Tame(v, tick(u, l))
  BY <1>1, <1>2, <1>6, OutageTickUi
<1> QED  BY <1>1, <1>7 DEF Tame

\* Time passes for the popup.
LEMMA UiAgesUi ==
    ASSUME NEW u \in Ui
    PROVE  /\ UiAges(u) \in Ui /\ UiAges(u).mode = u.mode
           /\ UiAges(u).sel.loading = u.sel.loading
<1> DEFINE a == IF u.sel.question = NoQuestion THEN 0 ELSE Older(u.sel.question.asked)
<1> DEFINE s == [u.sel EXCEPT !.question.asked = a]
<1>1. /\ u.sel \in Sel /\ u.sel \in SelRec /\ u.sel.question.asked \in Age
      /\ Age \subseteq MaybeAge /\ 0 \in Age
  BY Thresholds DEF Ui, Sel, SelRec, MaybeAge
<1>2. /\ Older(u.at) \in MaybeAge /\ Older(u.outage_since) \in MaybeAge
      /\ Older(u.asked_at) \in MaybeAge /\ a \in Age
  BY <1>1, OlderAge DEF Ui
<1>3. UiAges(u) = [u EXCEPT !.at = Older(@), !.outage_since = Older(@),
                            !.asked_at = Older(@), !.sel = s]
  BY <1>1 DEF UiAges, Ui, SelRec
<1>4. u.sel.question = NoQuestion => a = 0
  OBVIOUS
<1> HIDE DEF a
<1>5. /\ s \in SelRec /\ s.rows = u.sel.rows /\ s.cursor = u.sel.cursor
      /\ s.question = [u.sel.question EXCEPT !.asked = a]
      /\ s.loading = u.sel.loading
  BY <1>1, <1>2 DEF SelRec
<1>6. s.question = NoQuestion \/ s.question.id \in Sessions
  BY <1>1, <1>4, <1>5, SMTT(30), Z3T(30) DEF Sel, SelRec, NoQuestion
<1>7. s \in Sel
  BY <1>1, <1>5, <1>6, Zenon DEF Sel
<1> HIDE DEF s
<1> QED  BY <1>2, <1>3, <1>5, <1>7, Zenon DEF Ui

-----------------------------------------------------------------------------
(* The selector *)

\* There is a row at every position of a list, or `+ new session`.
LEMMA RowAtRow ==
    ASSUME NEW rows, NEW i
    PROVE  RowAt(rows, i) \in DOMAIN rows \cup {NewSession}
  BY Zenon DEF RowAt

\* A cursor that moves to a row there is, and a question that goes, is asked
\* about a session, or stays.
LEMMA SelMoves ==
    ASSUME NEW s \in Sel
    PROVE  /\ \A r \in DOMAIN s.rows \cup {NewSession} :
                [s EXCEPT !.cursor = r] \in Sel
           /\ \A r \in Row : [s EXCEPT !.rename = r] \in Sel
           /\ [s EXCEPT !.question = NoQuestion] \in Sel
           /\ \A what \in {"TakeOver", "Kill"}, id \in Sessions :
                [s EXCEPT !.question = [what |-> what, id |-> id, asked |-> 0]] \in Sel
<1>1. /\ s \in SelRec /\ DOMAIN s.rows \subseteq Sessions
      /\ s.cursor \in DOMAIN s.rows \cup {NewSession}
      /\ s.question = NoQuestion \/ s.question.id \in Sessions
      /\ 0 \in Age
  BY RowFacts, Thresholds DEF Sel, SelRec
<1>2. ASSUME NEW r \in DOMAIN s.rows \cup {NewSession}
      PROVE  [s EXCEPT !.cursor = r] \in Sel
  BY <1>1, <1>2 DEF Sel, SelRec, Row
<1>3. ASSUME NEW r \in Row  PROVE [s EXCEPT !.rename = r] \in Sel
  BY <1>1 DEF Sel, SelRec
<1>4. [s EXCEPT !.question = NoQuestion] \in Sel
  BY <1>1 DEF Sel, SelRec, NoQuestion, Row, NewSession
<1>5. ASSUME NEW what \in {"TakeOver", "Kill"}, NEW id \in Sessions
      PROVE  [s EXCEPT !.question = [what |-> what, id |-> id, asked |-> 0]] \in Sel
  <2> DEFINE q == [what |-> what, id |-> id, asked |-> 0]
  <2>1. q \in [what : {"none", "TakeOver", "Kill"}, id : Row, asked : Age]
        /\ q.id \in Sessions
    BY <1>1 DEF Row
  <2> HIDE DEF q
  <2>2. [s EXCEPT !.question = q] \in Sel
    BY <1>1, <2>1 DEF Sel, SelRec
  <2> QED  BY <2>2 DEF q
<1> QED  BY <1>2, <1>3, <1>4, <1>5, Zenon

\* What the session tells the selector leaves one, and takes back no `loading`.
LEMMA ToldSel ==
    ASSUME NEW s \in Sel, NEW rows \in RowSet
    PROVE  /\ set_rows(s, rows) \in Sel /\ ~set_rows(s, rows).loading
           /\ fail_list(s) \in Sel /\ ~fail_list(s).loading
           /\ fail(s) \in Sel /\ fail(s).loading = s.loading
<1>1. /\ s \in SelRec /\ s.cursor \in DOMAIN s.rows \cup {NewSession}
      /\ s.question = NoQuestion \/ s.question.id \in Sessions
      /\ DOMAIN rows \subseteq Sessions
  BY RowFacts DEF Sel, SelRec
<1>2. fail(s) \in Sel /\ fail(s).loading = s.loading
  BY <1>1, SelMoves DEF fail, SelRec
<1>3. fail_list(s) \in Sel /\ ~fail_list(s).loading
  <2>1. NoQuestion \in [what : {"none", "TakeOver", "Kill"}, id : Row, asked : Age]
    BY Thresholds DEF NoQuestion, Row, NewSession
  <2> QED  BY <1>1, <2>1, Zenon DEF fail_list, Sel, SelRec
<1>4. set_rows(s, rows) \in Sel /\ ~set_rows(s, rows).loading
  <2> DEFINE this == {r \in DOMAIN rows : rows[r] = "this"}
  <2> DEFINE cur == IF s.loading
                    THEN IF this = {} THEN RowAt(rows, 0)
                         ELSE CHOOSE r \in this : TRUE
                    ELSE IF s.cursor \in DOMAIN rows \cup {NewSession} THEN s.cursor
                         ELSE RowAt(rows, Position(s))
  <2> DEFINE ren == IF s.rename \in DOMAIN rows THEN s.rename ELSE 0
  <2>1. cur \in DOMAIN rows \cup {NewSession}
    <3>1. this # {} => (CHOOSE r \in this : TRUE) \in this
      BY Zenon
    <3> QED  BY <3>1, RowAtRow, Zenon
  <2>2. ren \in Row
    BY <1>1 DEF SelRec, Row, NewSession
  <2>3. set_rows(s, rows) = [s EXCEPT !.rows = rows, !.loading = FALSE,
                                      !.list_failed = FALSE, !.rename = ren,
                                      !.cursor = cur]
    BY DEF set_rows
  <2> HIDE DEF cur, ren
  <2>4. cur \in Row
    BY <1>1, <2>1 DEF Row
  <2> DEFINE t == set_rows(s, rows)
  <2>5. /\ t \in SelRec /\ t.rows = rows /\ t.cursor = cur /\ ~t.loading
        /\ t.question = s.question
    <3>1. t = [rows |-> rows, cursor |-> cur, loading |-> FALSE,
               question |-> s.question, rename |-> ren, list_failed |-> FALSE]
      BY <1>1, <2>3, Zenon DEF SelRec
    <3> QED  BY <1>1, <2>2, <2>4, <3>1, SMTT(30), Z3T(30) DEF SelRec
  <2> HIDE DEF t
  <2>6. t \in Sel /\ ~t.loading
    BY <1>1, <2>1, <2>5 DEF Sel
  <2> QED  BY <2>6 DEF t
<1> QED  BY <1>2, <1>3, <1>4

\* What a key leaves of the selector: the list, and the question that was up or
\* one that has only just been asked.
Beside(s, t) ==
    /\ t \in Sel /\ t.loading = s.loading /\ t.rows = s.rows
    /\ t.question = s.question \/ t.question.asked = 0

\* A request for what it was put to the user, in a question that had been up.
Agreed(s, a) ==
    /\ s.question.id = a.id /\ s.question.asked >= ANSWER_GUARD
    /\ s.question.what = "Kill" <=> a.what = "Kill"

\* A request the selector may make.
Meant(s, ctx, a) ==
    /\ a \in Asks /\ a.what # "Sessions" /\ ~ctx.busy
    /\ a.what = "Kill" => Agreed(s, a)
    /\ a.what = "Switch" => \/ Agreed(s, a)
                            \/ a.id \in DOMAIN s.rows /\ s.rows[a.id] = "free"

\* Ways to leave the selector.
Leave == {[Nothing EXCEPT !.is = is] : is \in {"Close", "Quit", "Back"}}

\* What may come of a key in the selector.
Picked(s, ctx, got) ==
    /\ Beside(s, got.sel)
    /\ got.out \in {Nothing} \cup Leave \/ Meant(s, ctx, got.out)

\* A key that stays in the selector, leaves it, or makes a request it may make.
LEMMA SimplePicks ==
    ASSUME NEW s \in Sel, NEW ctx, NEW t, Beside(s, t)
    PROVE  /\ Picked(s, ctx, Stays(t))
           /\ \A is \in {"Close", "Quit", "Back"} :
                 Picked(s, ctx, [sel |-> t, out |-> [Nothing EXCEPT !.is = is]])
           /\ \A what \in Wishes, id \in Row :
                 (~ctx.busy => Meant(s, ctx, Asked(what, id))) =>
                    Picked(s, ctx, act(t, ctx, what, id))
<1>1. Picked(s, ctx, Stays(t))
  BY DEF Picked, Stays
<1>2. ASSUME NEW is \in {"Close", "Quit", "Back"}
      PROVE  Picked(s, ctx, [sel |-> t, out |-> [Nothing EXCEPT !.is = is]])
  <2> DEFINE out == [Nothing EXCEPT !.is = is]
  <2>1. out \in Leave
    BY Zenon DEF Leave
  <2> HIDE DEF out
  <2>2. Picked(s, ctx, [sel |-> t, out |-> out])
    BY <2>1 DEF Picked
  <2> QED  BY <2>2 DEF out
<1>3. ASSUME NEW what \in Wishes, NEW id \in Row,
             ~ctx.busy => Meant(s, ctx, Asked(what, id))
      PROVE  Picked(s, ctx, act(t, ctx, what, id))
  BY <1>3 DEF Picked, act
<1> QED  BY <1>1, <1>2, <1>3, Zenon

\* Enter on a row.
LEMMA EnterPicks ==
    ASSUME NEW s \in Sel, NEW ctx
    PROVE  Picked(s, ctx, enter(s, ctx))
<1>1. Beside(s, s)
  BY DEF Beside
<1>2. CASE s.cursor = NewSession
  <2>1. Meant(s, ctx, Asked("New", 0)) \/ ctx.busy
    BY DEF Meant, Asked, Asks, Wishes, Row, NewSession
  <2>2. "New" \in Wishes /\ 0 \in Row
    BY DEF Wishes, Row, NewSession
  <2> QED  BY <1>1, <1>2, <2>1, <2>2, SimplePicks, Zenon DEF enter
<1>3. CASE s.cursor # NewSession
  <2> DEFINE row == s.rows[s.cursor]
  <2>1. s.cursor \in DOMAIN s.rows /\ s.cursor \in Sessions /\ row \in RowKind
    BY <1>3, RowFacts DEF Sel, SelRec
  <2>2. CASE row = "this"
    BY <1>1, <1>3, <2>2, SimplePicks, Zenon DEF enter
  <2>3. CASE row \in {"fixed", "shut"}
    BY <1>1, <1>3, <2>3, SimplePicks, Zenon DEF enter
  <2>4. CASE row = "elsewhere"
    <3> DEFINE t == [s EXCEPT !.question = [what |-> "TakeOver", id |-> s.cursor,
                                            asked |-> 0]]
    <3>1. t \in Sel
      BY <2>1, SelMoves, Zenon
    <3>2. Beside(s, t)
      BY <3>1 DEF Beside, Sel, SelRec
    <3>3. enter(s, ctx) = Stays(t)
      BY <1>3, <2>4 DEF enter, Ask
    <3> HIDE DEF t
    <3> QED  BY <3>2, <3>3, SimplePicks, Zenon
  <2>5. CASE row = "free"
    <3>1. enter(s, ctx) = act(s, ctx, "Switch", s.cursor)
      BY <1>3, <2>5 DEF enter
    <3>2. Meant(s, ctx, Asked("Switch", s.cursor)) \/ ctx.busy
      BY <2>1, <2>5 DEF Meant, Asked, Asks, Wishes, Row
    <3>3. "Switch" \in Wishes /\ s.cursor \in Row
      BY <2>1 DEF Wishes, Row
    <3> QED  BY <1>1, <3>1, <3>2, <3>3, SimplePicks, Zenon
  <2> QED  BY <2>1, <2>2, <2>3, <2>4, <2>5 DEF RowKind
<1> QED  BY <1>2, <1>3

\* A key while a question is up.
LEMMA AnswerPicks ==
    ASSUME NEW s \in Sel, NEW k, NEW ctx, s.question # NoQuestion
    PROVE  Picked(s, ctx, answer(s, k, ctx))
<1> DEFINE over == [s EXCEPT !.question = NoQuestion]
<1> DEFINE what == IF s.question.what = "Kill" THEN "Kill" ELSE "Switch"
<1>1. Beside(s, s)
  BY DEF Beside
<1>2. Beside(s, over)
  BY SelMoves, SMTT(30), Z3T(30) DEF Beside, Sel, SelRec, NoQuestion
<1>3. s.question.id \in Sessions /\ s.question.asked \in Nat
  BY Thresholds, Zenon DEF Sel, SelRec
<1>4. \/ answer(s, k, ctx) \in {Stays(s), Stays(over)}
      \/ /\ answer(s, k, ctx) = act(over, ctx, what, s.question.id)
         /\ ~(s.question.asked < ANSWER_GUARD)
  <2>1. CASE s.question.asked < ANSWER_GUARD
    BY <2>1 DEF answer
  <2>2. CASE ~(s.question.asked < ANSWER_GUARD) /\ k = "y"
    BY <2>2 DEF answer
  <2>3. CASE ~(s.question.asked < ANSWER_GUARD) /\ k \in {"n", "esc"}
    BY <2>3 DEF answer
  <2>4. CASE ~(s.question.asked < ANSWER_GUARD) /\ k \notin {"y", "n", "esc"}
    BY <2>4 DEF answer
  <2> QED  BY <2>1, <2>2, <2>3, <2>4
<1> HIDE DEF over
<1>5. CASE /\ answer(s, k, ctx) = act(over, ctx, what, s.question.id)
           /\ ~(s.question.asked < ANSWER_GUARD)
  <2>1. Agreed(s, Asked(what, s.question.id))
    BY <1>3, <1>5, Thresholds, SMTT(30), Z3T(30) DEF Agreed, Asked
  <2>2. /\ Asked(what, s.question.id) \in Asks /\ what \in Wishes
        /\ Asked(what, s.question.id).what # "Sessions" /\ s.question.id \in Row
    BY <1>3 DEF Asked, Asks, Wishes, Row
  <2> HIDE DEF what
  <2>3. Meant(s, ctx, Asked(what, s.question.id)) \/ ctx.busy
    BY <2>1, <2>2, Zenon DEF Meant
  <2> QED  BY <1>2, <1>5, <2>2, <2>3, SimplePicks, Zenon
<1> QED  BY <1>1, <1>2, <1>4, <1>5, SimplePicks, Zenon

\* A key while a name is typed.
LEMMA RenamePicks ==
    ASSUME NEW s \in Sel, NEW k, NEW ctx
    PROVE  Picked(s, ctx, rename_key(s, k, ctx))
<1> DEFINE done == act(s, ctx, "Rename", s.rename)
<1> DEFINE t == [s EXCEPT !.rename = 0]
<1>1. Beside(s, s)
  BY DEF Beside
<1>2. Beside(s, t)
  <2>1. 0 \in Row
    BY DEF Row, NewSession
  <2> QED  BY <2>1, SelMoves DEF Beside, Sel, SelRec
<1>3. Meant(s, ctx, Asked("Rename", s.rename)) \/ ctx.busy
  BY DEF Meant, Asked, Asks, Wishes, Row, Sel, SelRec
<1>4. "Rename" \in Wishes /\ s.rename \in Row
  BY DEF Wishes, Sel, SelRec
<1>5. Picked(s, ctx, act(t, ctx, "Rename", s.rename))
  BY <1>2, <1>3, <1>4, SimplePicks, Zenon
<1>6. [done EXCEPT !.sel.rename = 0] = act(t, ctx, "Rename", s.rename)
  BY SMTT(30), Z3T(30) DEF act
<1>7. rename_key(s, k, ctx) \in {Stays(s), Stays(t), [done EXCEPT !.sel.rename = 0]}
  BY Zenon DEF rename_key
<1> HIDE DEF t, done
<1>8. Picked(s, ctx, Stays(s)) /\ Picked(s, ctx, Stays(t))
  BY <1>1, <1>2, SimplePicks, Zenon
<1> QED  BY <1>5, <1>6, <1>7, <1>8, Zenon

\* Any key of the selector.
LEMMA KeyPicks ==
    ASSUME NEW s \in Sel, NEW k, NEW ctx
    PROVE  Picked(s, ctx, key(s, k, ctx))
<1>1. CASE s.question # NoQuestion
  BY <1>1, AnswerPicks DEF key
<1>2. CASE s.question = NoQuestion /\ s.rename # 0
  BY <1>2, RenamePicks DEF key
<1>3. CASE s.question = NoQuestion /\ s.rename = 0
  <2> DEFINE up == [s EXCEPT !.cursor = RowAt(s.rows, Max({Position(s) - 1, 0}))]
  <2> DEFINE dn == [s EXCEPT !.cursor = RowAt(s.rows, Position(s) + 1)]
  <2> DEFINE ren == [s EXCEPT !.rename = s.cursor]
  <2> DEFINE kill == [s EXCEPT !.question = [what |-> "Kill", id |-> s.cursor,
                                             asked |-> 0]]
  <2>1. \/ key(s, k, ctx) \in {Stays(up), Stays(dn), enter(s, ctx),
                               act(s, ctx, "New", 0), Stays(s), Stays(ren)}
        \/ key(s, k, ctx) = Stays(kill) /\ s.cursor # NewSession
        \/ \E is \in {"Quit", "Back"} :
             key(s, k, ctx) = [sel |-> s, out |-> [Nothing EXCEPT !.is = is]]
    BY <1>3 DEF key, Ask
  <2>2. Beside(s, s)
    BY DEF Beside
  <2>3. Beside(s, up) /\ Beside(s, dn)
    <3>1. up \in Sel /\ dn \in Sel
      BY RowAtRow, SelMoves, Zenon
    <3> QED  BY <3>1 DEF Beside, Sel, SelRec
  <2>4. Beside(s, ren)
    <3>1. s.cursor \in Row
      BY DEF Sel, SelRec
    <3> QED  BY <3>1, SelMoves DEF Beside, Sel, SelRec
  <2>5. s.cursor # NewSession => Beside(s, kill)
    <3>1. s.cursor # NewSession => s.cursor \in Sessions
      BY DEF Sel, SelRec, Row
    <3> QED  BY <3>1, SelMoves, ZenonT(30) DEF Beside, Sel, SelRec
  <2> HIDE DEF up, dn, ren, kill
  <2>6. Meant(s, ctx, Asked("New", 0)) \/ ctx.busy
    BY DEF Meant, Asked, Asks, Wishes, Row, NewSession
  <2>7. "New" \in Wishes /\ 0 \in Row
    BY DEF Wishes, Row, NewSession
  <2>8. Picked(s, ctx, act(s, ctx, "New", 0))
    BY <2>2, <2>6, <2>7, SimplePicks, Zenon
  <2>9. /\ Picked(s, ctx, Stays(s)) /\ Picked(s, ctx, Stays(up))
        /\ Picked(s, ctx, Stays(dn)) /\ Picked(s, ctx, Stays(ren))
        /\ s.cursor # NewSession => Picked(s, ctx, Stays(kill))
        /\ \A is \in {"Quit", "Back"} :
             Picked(s, ctx, [sel |-> s, out |-> [Nothing EXCEPT !.is = is]])
    BY <2>2, <2>3, <2>4, <2>5, SimplePicks, Zenon
  <2> QED  BY <2>1, <2>8, <2>9, EnterPicks, Zenon
<1> QED  BY <1>1, <1>2, <1>3

-----------------------------------------------------------------------------
(* The keys of a read *)

\* What the configuration may be told, ...
Settings == {"-", "Accept", "Servers", "CaptureOff", "Capture", "Edit", "Reset", "Save"}

\* ... the commands that are no requests, all commands, and a read under way.
Orders ==
    [is : {"Quit", "SendHeld", "DropHeld", "Config"}, what : Settings, id : {0}]

Command == {Nothing} \cup Asks \cup Orders

ReadingRec ==
    [ui : Ui, to_host : Seq(Byte), to_hold : Seq(Byte), command : Command,
     over : BOOLEAN]

\* A command a read may come to, from the popup v.
Given(v, phase, ctx, a) ==
    /\ a.is \in {"SendHeld", "DropHeld"} => phase = "Confirming" /\ answerable(v)
    /\ a.is = "Ask" => \/ a = Asked("Sessions", 0)
                       \/ v.mode = "Sessions" /\ Meant(v.sel, ctx, a)

\* What comes of a read that found the popup v.
ReadEnd(v, phase, ctx, r) ==
    /\ r \in ReadingRec /\ r.ui.asked_at = v.asked_at
    /\ r.to_host # <<>> => phase = "Live"
    /\ r.to_hold # <<>> => is_outage(phase)
    /\ r.over \/ r.command = Nothing
    /\ Given(v, phase, ctx, r.command)
    /\ Loads(r.ui) => Loads(v) \/ r.command = Asked("Sessions", 0)

\* What has come of it after some of its keys.
ReadOK(v, phase, ctx, r) ==
    /\ ReadEnd(v, phase, ctx, r)
    /\ v.mode = "Sessions" =>
         r.over \/ (r.ui.mode = "Sessions" /\ Beside(v.sel, r.ui.sel))

\* A read begins.
LEMMA ReadBegins ==
    ASSUME NEW v \in Ui, NEW phase, NEW ctx
    PROVE  ReadOK(v, phase, ctx, Reading(v))
<1>1. Reading(v) \in ReadingRec
  BY SMTT(30), Z3T(30) DEF Reading, ReadingRec, Command
<1>2. Beside(v.sel, v.sel)
  BY DEF Beside, Ui
<1>3. Given(v, phase, ctx, Nothing)
  BY DEF Given, Nothing
<1> QED  BY <1>1, <1>2, <1>3 DEF ReadOK, ReadEnd, Reading

\* The popup moves, and nothing else comes of the key.
LEMMA ReadMoves ==
    ASSUME NEW v, NEW phase, NEW ctx, NEW r, ReadOK(v, phase, ctx, r),
           v.mode # "Sessions", NEW u, Tame(r.ui, u)
    PROVE  /\ ReadOK(v, phase, ctx, Becomes(r, u))
           /\ ReadOK(v, phase, ctx, [r EXCEPT !.ui = u, !.over = TRUE])
<1>1. /\ r \in ReadingRec /\ u \in Ui /\ u.asked_at = v.asked_at
      /\ Loads(u) => Loads(r.ui)
  BY DEF ReadOK, ReadEnd, Tame
<1>2. ReadOK(v, phase, ctx, Becomes(r, u))
  <2> DEFINE q == Becomes(r, u)
  <2>1. /\ q \in ReadingRec /\ q.ui = u /\ q.to_host = r.to_host
        /\ q.to_hold = r.to_hold /\ q.command = r.command /\ q.over = r.over
    BY <1>1 DEF Becomes, ReadingRec
  <2> HIDE DEF q
  <2>2. ReadOK(v, phase, ctx, q)
    BY <1>1, <2>1 DEF ReadOK, ReadEnd
  <2> QED  BY <2>2 DEF q
<1>3. ReadOK(v, phase, ctx, [r EXCEPT !.ui = u, !.over = TRUE])
  <2> DEFINE q == [r EXCEPT !.ui = u, !.over = TRUE]
  <2>1. /\ q \in ReadingRec /\ q.ui = u /\ q.to_host = r.to_host
        /\ q.to_hold = r.to_hold /\ q.command = r.command /\ q.over
    BY <1>1, Zenon DEF ReadingRec
  <2> HIDE DEF q
  <2>2. ReadOK(v, phase, ctx, q)
    BY <1>1, <2>1 DEF ReadOK, ReadEnd
  <2> QED  BY <2>2 DEF q
<1> QED  BY <1>2, <1>3

\* The read is over.
LEMMA ReadOver ==
    ASSUME NEW v, NEW phase, NEW ctx, NEW r, ReadOK(v, phase, ctx, r)
    PROVE  ReadOK(v, phase, ctx, [r EXCEPT !.over = TRUE])
<1> DEFINE q == [r EXCEPT !.over = TRUE]
<1>1. /\ q \in ReadingRec /\ q.ui = r.ui /\ q.to_host = r.to_host
      /\ q.to_hold = r.to_hold /\ q.command = r.command /\ q.over
  BY Zenon DEF ReadOK, ReadEnd, ReadingRec
<1> HIDE DEF q
<1>2. ReadOK(v, phase, ctx, q)
  BY <1>1 DEF ReadOK, ReadEnd
<1> QED  BY <1>2 DEF q

\* The key is for the host, or is held.
LEMMA ReadDelivers ==
    ASSUME NEW v, NEW phase \in Phase, NEW ctx, NEW r, ReadOK(v, phase, ctx, r),
           NEW b \in Byte, phase # "Confirming"
    PROVE  ReadOK(v, phase, ctx, deliver(r, b, phase)) /\ deliver(r, b, phase).ui = r.ui
<1> DEFINE q == deliver(r, b, phase)
<1>1. r \in ReadingRec
  BY DEF ReadOK, ReadEnd
<1>2. Append(r.to_host, b) \in Seq(Byte) /\ Append(r.to_hold, b) \in Seq(Byte)
  BY <1>1, SMTT(30), Z3T(30) DEF ReadingRec
<1>3. /\ q \in ReadingRec /\ q.ui = r.ui /\ q.command = r.command /\ q.over = r.over
      /\ q.to_host # r.to_host => ~is_outage(phase)
      /\ q.to_hold # r.to_hold => is_outage(phase)
  BY <1>1, <1>2, Zenon DEF deliver, ReadingRec
<1>4. ~is_outage(phase) => phase = "Live"
  BY DEF is_outage, Phase
<1> HIDE DEF q
<1>5. ReadOK(v, phase, ctx, q)
  BY <1>3, <1>4 DEF ReadOK, ReadEnd
<1> QED  BY <1>3, <1>5 DEF q

\* The read comes to a command.
LEMMA ReadDoes ==
    ASSUME NEW v, NEW phase, NEW ctx, NEW r, ReadOK(v, phase, ctx, r), ~r.over,
           NEW a \in Command, Given(v, phase, ctx, a)
    PROVE  ReadOK(v, phase, ctx, Does(r, a))
<1> DEFINE q == Does(r, a)
<1>1. r \in ReadingRec /\ r.command = Nothing /\ Nothing # Asked("Sessions", 0)
  BY DEF ReadOK, ReadEnd, Nothing, Asked
<1>2. /\ q \in ReadingRec /\ q.ui = r.ui /\ q.command = a /\ q.over
      /\ q.to_host = r.to_host /\ q.to_hold = r.to_hold
  BY <1>1, Zenon DEF Does, ReadingRec
<1> HIDE DEF q
<1>3. ReadOK(v, phase, ctx, q)
  BY <1>1, <1>2 DEF ReadOK, ReadEnd
<1> QED  BY <1>3 DEF q

\* The commands of the status view and of the config screen.
LEMMA OrdersGiven ==
    /\ \A a \in Orders : a.is \in {"Quit", "Config"} =>
         \A v, phase, ctx : Given(v, phase, ctx, a)
    /\ \A is \in {"Quit", "SendHeld", "DropHeld", "Config"}, what \in Settings :
         CommandOf(is, what) \in Orders
    /\ "-" \in Settings /\ Asked("Sessions", 0) \in Command
    /\ \A v, phase, ctx : Given(v, phase, ctx, Asked("Sessions", 0))
<1>1. ASSUME NEW a \in Orders, a.is \in {"Quit", "Config"}, NEW v, NEW phase, NEW ctx
      PROVE  Given(v, phase, ctx, a)
  BY <1>1 DEF Given
<1>2. ASSUME NEW is \in {"Quit", "SendHeld", "DropHeld", "Config"}, NEW what \in Settings
      PROVE  CommandOf(is, what) \in Orders
  BY DEF CommandOf, Orders
<1>3. "-" \in Settings /\ Asked("Sessions", 0) \in Command
  BY DEF Settings, Command, Asked, Asks, Wishes, Row, NewSession
<1>4. ASSUME NEW v, NEW phase, NEW ctx
      PROVE  Given(v, phase, ctx, Asked("Sessions", 0))
  BY DEF Given, Asked
<1> QED  BY <1>1, <1>2, <1>3, <1>4, Zenon

\* A key while the popup is shown.
LEMMA ShownKeyReads ==
    ASSUME NEW v, NEW phase \in Phase, NEW ctx, NEW r, ReadOK(v, phase, ctx, r),
           v.mode # "Sessions", ~r.over, NEW b \in Byte
    PROVE  ReadOK(v, phase, ctx, shown_key(r, b, phase))
<1> DEFINE u == r.ui
<1>1. u \in Ui /\ u.asked_at = v.asked_at /\ r \in ReadingRec
  BY Zenon DEF ReadOK, ReadEnd, ReadingRec
<1>2. ReadOK(v, phase, ctx, Becomes(r, touch(u)))
  BY <1>1, TameMoves, ReadMoves, Zenon
<1> DEFINE does(is) == CommandOf(is, "-")
<1>a. \A is \in {"Quit", "SendHeld", "DropHeld"} :
        does(is) \in Command /\ does(is) \in Orders
  BY OrdersGiven DEF Command
<1>b. Given(v, phase, ctx, does("Quit"))
  BY <1>a, OrdersGiven DEF CommandOf
<1>3. ReadOK(v, phase, ctx, Does(r, CommandOf("Quit", "-")))
  BY <1>a, <1>b, ReadDoes
<1>4. CASE phase = "Confirming"
  <2>1. ASSUME answerable(u), NEW is \in {"SendHeld", "DropHeld"}
        PROVE  ReadOK(v, phase, ctx, Does(r, CommandOf(is, "-")))
    <3>1. Given(v, phase, ctx, CommandOf(is, "-"))
      BY <1>1, <1>4, <2>1 DEF Given, CommandOf, answerable
    <3> QED  BY <1>a, <2>1, <3>1, ReadDoes
  <2>2. \/ shown_key(r, b, phase) \in {Becomes(r, touch(u)),
                                       Does(r, CommandOf("Quit", "-"))}
        \/ /\ answerable(u)
           /\ shown_key(r, b, phase) \in {Does(r, CommandOf("SendHeld", "-")),
                                          Does(r, CommandOf("DropHeld", "-"))}
    BY <1>4, Zenon DEF shown_key
  <2> HIDE DEF u
  <2> QED  BY <1>2, <1>3, <2>1, <2>2, Zenon
<1>5. CASE phase # "Confirming"
  <2> DEFINE opens == Does(Becomes(r, open_sessions(u)), Asked("Sessions", 0))
  <2> DEFINE conf == [To(u, "Config", None) EXCEPT !.config_decided = auto_due(u)]
  <2> DEFINE configs == [r EXCEPT !.over = TRUE, !.ui = conf]
  <2>1. shown_key(r, b, phase) \in
          {Does(r, CommandOf("Quit", "-")), opens, configs, close(r, b, phase),
           Becomes(r, touch(u))}
    BY <1>5, Zenon DEF shown_key
  <2>0. None \in MaybeAge /\ {"Sessions", "Config"} \subseteq Mode
    BY Thresholds DEF Mode
  <2>2. ReadOK(v, phase, ctx, opens)
    <3>1. /\ open_sessions(u) \in Ui /\ open_sessions(u).asked_at = u.asked_at
      BY <1>1, <2>0, ToUi DEF open_sessions
    <3>2. Asked("Sessions", 0) \in Command /\ Given(v, phase, ctx, Asked("Sessions", 0))
      BY OrdersGiven, Zenon
    <3> DEFINE w == open_sessions(u)
    <3> DEFINE a == Asked("Sessions", 0)
    <3>3. opens = [r EXCEPT !.ui = w, !.command = a, !.over = TRUE]
      BY <1>1 DEF Does, Becomes, ReadingRec
    <3> HIDE DEF w, a
    <3>4. /\ opens \in ReadingRec /\ opens.ui = w /\ opens.over
          /\ opens.command = a
          /\ opens.to_host = r.to_host /\ opens.to_hold = r.to_hold
      BY <1>1, <3>1, <3>2, <3>3, Zenon DEF ReadingRec, w, a
    <3>5. w.asked_at = u.asked_at /\ Given(v, phase, ctx, a)
      BY <3>1, <3>2 DEF w, a
    <3> HIDE DEF opens
    <3> QED  BY <1>1, <3>4, <3>5 DEF ReadOK, ReadEnd, a
  <2>3. ReadOK(v, phase, ctx, configs)
    <3> DEFINE w == To(u, "Config", None)
    <3>1. w \in Ui /\ w.mode = "Config" /\ w.asked_at = u.asked_at
      BY <1>1, <2>0, ToUi
    <3> HIDE DEF w
    <3>2. auto_due(u) \in BOOLEAN
      BY DEF auto_due
    <3>3. conf = [w EXCEPT !.config_decided = auto_due(u)]
      BY DEF w
    <3> HIDE DEF conf
    <3>6. Tame(u, conf)
      BY <3>1, <3>2, <3>3 DEF Tame, Ui, Loads
    <3>4. ReadOK(v, phase, ctx, [r EXCEPT !.ui = conf, !.over = TRUE])
      BY <3>6, ReadMoves, Zenon
    <3>5. configs = [r EXCEPT !.ui = conf, !.over = TRUE]
      BY <1>1, Zenon DEF ReadingRec
    <3> QED  BY <3>4, <3>5, Zenon
  <2>4. ReadOK(v, phase, ctx, close(r, b, phase))
    <3> DEFINE q == deliver(r, b, phase)
    <3>1. ReadOK(v, phase, ctx, q) /\ q.ui = r.ui
      BY <1>5, ReadDelivers, SMTT(30), Z3T(30)
    <3>2. Tame(u, ClosedByHand(u, phase))
      BY <1>1, TameMoves
    <3>3. close(r, b, phase) \in {Becomes(q, ClosedByHand(u, phase)),
                                  Becomes(r, ClosedByHand(u, phase))}
      BY Zenon DEF close
    <3> HIDE DEF q
    <3>4. /\ ReadOK(v, phase, ctx, Becomes(q, ClosedByHand(u, phase)))
          /\ ReadOK(v, phase, ctx, Becomes(r, ClosedByHand(u, phase)))
      BY <3>1, <3>2, ReadMoves, Zenon
    <3> QED  BY <3>3, <3>4, Zenon
  <2> HIDE DEF opens, configs, u
  <2> QED  BY <1>2, <1>3, <2>1, <2>2, <2>3, <2>4, Zenon
<1> QED  BY <1>4, <1>5

\* A key on the status view, or with no popup up.
LEMMA StatusKeyReads ==
    ASSUME NEW v, NEW phase \in Phase, NEW ctx, NEW r, ReadOK(v, phase, ctx, r),
           v.mode # "Sessions", NEW b \in Byte, NEW lone
    PROVE  ReadOK(v, phase, ctx, StatusKey(r, b, phase, lone))
<1> DEFINE u == r.ui
<1>1. u \in Ui /\ r \in ReadingRec
  BY DEF ReadOK, ReadEnd, ReadingRec
<1>2. CASE r.over
  BY <1>2 DEF StatusKey
<1>3. CASE ~r.over /\ ~visible(u, phase)
  <2>1. phase # "Confirming"
    BY <1>3 DEF visible
  <2>2. "Open" \in Mode \ {"Sessions"} /\ 0 \in MaybeAge
    BY Thresholds DEF Mode, MaybeAge
  <2>3. Tame(u, To(u, "Open", 0))
    BY <1>1, <2>2, TameMoves, Zenon
  <2>4. ReadOK(v, phase, ctx, Becomes(r, To(u, "Open", 0)))
    BY <2>3, ReadMoves, Zenon
  <2>5. ReadOK(v, phase, ctx, deliver(r, b, phase))
    BY <2>1, ReadDelivers
  <2> QED  BY <1>3, <2>4, <2>5 DEF StatusKey
<1>4. CASE ~r.over /\ visible(u, phase)
  <2>1. ReadOK(v, phase, ctx, Becomes(r, touch(u)))
    BY <1>1, TameMoves, ReadMoves, Zenon
  <2>2. ReadOK(v, phase, ctx, [Becomes(r, touch(u)) EXCEPT !.over = TRUE])
    BY <2>1, ReadOver
  <2>3. ReadOK(v, phase, ctx, shown_key(r, b, phase))
    BY <1>4, ShownKeyReads
  <2> QED  BY <1>4, <2>2, <2>3, Zenon DEF StatusKey
<1> QED  BY <1>2, <1>3, <1>4

\* One key on the config screen.
LEMMA ConfigKeyReads ==
    ASSUME NEW v, NEW phase, NEW ctx, NEW r, ReadOK(v, phase, ctx, r),
           v.mode # "Sessions", NEW b, NEW lone
    PROVE  ReadOK(v, phase, ctx, ConfigKey(r, b, phase, lone))
<1> DEFINE u == r.ui
<1> DEFINE at(e) == [u EXCEPT !.editing = e]
<1> DEFINE shuts == [r EXCEPT !.ui = ClosedByHand(u, phase), !.over = TRUE]
<1> DEFINE over == [r EXCEPT !.over = TRUE]
<1>1. u \in Ui /\ r \in ReadingRec
  BY DEF ReadOK, ReadEnd, ReadingRec
<1>2. ReadOK(v, phase, ctx, over)
  BY ReadOver, Zenon
<1>3. ASSUME NEW e \in Editing  PROVE ReadOK(v, phase, ctx, Becomes(r, at(e)))
  <2>1. Tame(u, at(e))
    BY <1>1, Zenon DEF Tame, Ui, Loads
  <2> QED  BY <2>1, ReadMoves, Zenon
<1>4. ReadOK(v, phase, ctx, Becomes(r, leave_config(u))) /\ ReadOK(v, phase, ctx, shuts)
  <2>1. Tame(u, leave_config(u)) /\ Tame(u, ClosedByHand(u, phase))
    BY <1>1, TameMoves
  <2> QED  BY <2>1, ReadMoves, Zenon
<1>5. ASSUME ~r.over, NEW is \in {"Quit", "Config"}, NEW what \in Settings
      PROVE  ReadOK(v, phase, ctx, Does(r, CommandOf(is, what)))
  <2> DEFINE a == CommandOf(is, what)
  <2>1. a \in Orders /\ a.is = is
    BY OrdersGiven DEF CommandOf
  <2> HIDE DEF a
  <2>2. a \in Command /\ Given(v, phase, ctx, a)
    BY <2>1, OrdersGiven DEF Command
  <2>3. ReadOK(v, phase, ctx, Does(r, a))
    BY <1>5, <2>2, ReadDoes
  <2> QED  BY <2>3 DEF a
<1>6. \/ config_key(r, b, phase) \in {r, Becomes(r, leave_config(u)), shuts}
      \/ \E e \in Editing : config_key(r, b, phase) = Becomes(r, at(e))
      \/ \E is \in {"Quit", "Config"}, what \in Settings :
            config_key(r, b, phase) = Does(r, CommandOf(is, what))
  <2>1. CASE u.editing \in {"Text", "ServersField"}
    BY <2>1, Zenon DEF config_key, Editing, Settings
  <2>2. CASE u.editing = "Capture"
    BY <2>2 DEF config_key, Editing, Settings
  <2>3. CASE u.editing = "Servers"
    BY <2>3 DEF config_key, Editing, Settings
  <2>4. CASE u.editing = "Save"
    BY <2>4 DEF config_key, Editing, Settings
  <2>5. CASE u.editing = "None"
    BY <2>5, SMTT(30), Z3T(30) DEF config_key, Editing, Settings
  <2> QED  BY <1>1, <2>1, <2>2, <2>3, <2>4, <2>5, Zenon DEF Ui, Editing
<1> HIDE DEF u, at, shuts, over
<1>7. ~r.over => ReadOK(v, phase, ctx, config_key(r, b, phase))
  BY <1>3, <1>4, <1>5, <1>6, Zenon
<1> QED  BY <1>2, <1>7, Zenon DEF ConfigKey, over

\* One key of the selector.
LEMMA SessionsKeyReads ==
    ASSUME NEW v \in Ui, NEW phase, NEW ctx, NEW r, ReadOK(v, phase, ctx, r),
           v.mode = "Sessions", NEW b, NEW lone
    PROVE  ReadOK(v, phase, ctx, SessionsKey(r, b, ctx, lone))
<1>1. CASE r.over \/ Sequence(b, lone)
  BY <1>1, ReadOver DEF SessionsKey
<1>2. CASE ~r.over /\ ~Sequence(b, lone)
  <2> DEFINE got == key(r.ui.sel, b.k, ctx)
  <2> DEFINE u == [r.ui EXCEPT !.sel = got.sel]
  <2>1. /\ r \in ReadingRec /\ r.ui \in Ui /\ r.ui.sel \in Sel
        /\ r.ui.mode = "Sessions" /\ Beside(v.sel, r.ui.sel) /\ r.command = Nothing
        /\ r.ui.asked_at = v.asked_at
    BY <1>2 DEF ReadOK, ReadEnd, ReadingRec, Ui
  <2>2. Picked(r.ui.sel, ctx, got)
    BY <2>1, KeyPicks
  <2>3. SessionsKey(r, b, ctx, lone) = Selected(r, got)
    BY <1>2 DEF SessionsKey
  <2> HIDE DEF got
  <2>4. /\ u \in Ui /\ u.mode = "Sessions" /\ u.sel = got.sel
        /\ u.asked_at = v.asked_at /\ (Loads(u) => Loads(v))
    BY <2>1, <2>2 DEF Picked, Beside, Ui, Loads
  <2>5. Beside(v.sel, got.sel)
    BY <2>1, <2>2 DEF Picked, Beside
  <2>6. Selected(r, got) = CASE got.out = Nothing -> Becomes(r, u)
                             [] got.out.is = "Back" ->
                                  [r EXCEPT !.ui = To(u, "Open", None), !.over = TRUE]
                             [] got.out.is = "Close" ->
                                  [r EXCEPT !.ui = close_popup(u), !.over = TRUE]
                             [] got.out.is \in {"Ask", "Quit"} ->
                                  Does(Becomes(r, u), got.out)
    BY DEF Selected
  <2> HIDE DEF u
  <2> DEFINE q == Becomes(r, u)
  <2>7. ReadOK(v, phase, ctx, q) /\ q.over = r.over
    <3>1. /\ q \in ReadingRec /\ q.ui = u /\ q.to_host = r.to_host
          /\ q.to_hold = r.to_hold /\ q.command = r.command /\ q.over = r.over
      BY <2>1, <2>4 DEF Becomes, ReadingRec
    <3> HIDE DEF q
    <3> QED  BY <2>4, <2>5, <3>1 DEF ReadOK, ReadEnd
  <2>8. ASSUME NEW w, Tame(u, w)
        PROVE  ReadOK(v, phase, ctx, [r EXCEPT !.ui = w, !.over = TRUE])
    <3> DEFINE z == [r EXCEPT !.ui = w, !.over = TRUE]
    <3>1. /\ z \in ReadingRec /\ z.ui = w /\ z.to_host = r.to_host
          /\ z.to_hold = r.to_hold /\ z.command = r.command /\ z.over
      BY <2>1, <2>8, Zenon DEF Tame, ReadingRec
    <3> HIDE DEF z
    <3>2. ReadOK(v, phase, ctx, z)
      BY <2>4, <2>8, <3>1 DEF ReadOK, ReadEnd, Tame
    <3> QED  BY <3>2 DEF z
  <2>9. CASE got.out = Nothing
    <3>1. Selected(r, got) = Becomes(r, u)
      BY <2>9, <2>6, SMTT(30), Z3T(30) DEF Nothing
    <3> QED  BY <2>3, <2>7, <3>1
  <2>10. CASE got.out \in Leave
    <3>1. PICK is \in {"Close", "Quit", "Back"} : got.out = [Nothing EXCEPT !.is = is]
      BY <2>10, Zenon DEF Leave
    <3>2. got.out.is = is /\ got.out = CommandOf(is, "-") /\ got.out # Nothing
      BY <3>1, SMTT(30), Z3T(30) DEF Nothing, CommandOf
    <3>3. CASE is = "Back"
      <4>1. Selected(r, got) = [r EXCEPT !.ui = To(u, "Open", None), !.over = TRUE]
        BY <2>6, <3>2, <3>3
      <4>2. "Open" \in Mode \ {"Sessions"} /\ None \in MaybeAge
        BY Thresholds DEF Mode
      <4>3. Tame(u, To(u, "Open", None))
        BY <2>4, <4>2, TameMoves, Zenon
      <4>4. ReadOK(v, phase, ctx, [r EXCEPT !.ui = To(u, "Open", None), !.over = TRUE])
        BY <2>8, <4>3, Zenon
      <4> QED  BY <2>3, <4>1, <4>4
    <3>4. CASE is = "Close"
      <4>1. Selected(r, got) = [r EXCEPT !.ui = close_popup(u), !.over = TRUE]
        BY <2>6, <3>2, <3>4, ZenonT(30)
      <4>2. Tame(u, close_popup(u))
        BY <2>4, TameMoves, Zenon
      <4>3. ReadOK(v, phase, ctx, [r EXCEPT !.ui = close_popup(u), !.over = TRUE])
        BY <2>8, <4>2, Zenon
      <4> QED  BY <2>3, <4>1, <4>3
    <3>5. CASE is = "Quit"
      <4>1. Selected(r, got) = Does(q, got.out)
        BY <2>6, <3>2, <3>5
      <4>2. got.out \in Orders /\ got.out.is = "Quit"
        BY <3>2, <3>5, OrdersGiven
      <4>3. got.out \in Command /\ Given(v, phase, ctx, got.out)
        BY <4>2, OrdersGiven DEF Command
      <4> HIDE DEF q
      <4>4. ReadOK(v, phase, ctx, Does(q, got.out))
        BY <1>2, <2>7, <4>3, ReadDoes
      <4> QED  BY <2>3, <4>1, <4>4
    <3> QED  BY <3>3, <3>4, <3>5
  <2>11. CASE Meant(r.ui.sel, ctx, got.out)
    <3>1. got.out \in Asks /\ got.out.is = "Ask" /\ got.out # Nothing
      BY <2>11, SMTT(30), Z3T(30) DEF Meant, Asks, Nothing
    <3>2. Selected(r, got) = Does(q, got.out)
      BY <2>6, <3>1, ZenonT(30)
    <3>3. Meant(v.sel, ctx, got.out)
      BY <2>1, <2>11, Thresholds, SMTT(30), Z3T(30) DEF Meant, Agreed, Beside
    <3>4. got.out \in Command /\ Given(v, phase, ctx, got.out)
      BY <3>1, <3>3 DEF Command, Given
    <3> HIDE DEF q
    <3>5. ReadOK(v, phase, ctx, Does(q, got.out))
      BY <1>2, <2>7, <3>4, ReadDoes
    <3> QED  BY <2>3, <3>2, <3>5, ZenonT(30)
  <2> QED  BY <2>2, <2>9, <2>10, <2>11, Zenon DEF Picked
<1> QED  BY <1>1, <1>2

\* All the keys of a read.
LEMMA KeysRead ==
    ASSUME NEW u \in Ui, NEW read \in Seq(Byte), Len(read) \in {1, 2},
           NEW phase \in Phase, NEW ctx
    PROVE  ReadEnd(Questioned(u, phase), phase, ctx, keys(u, read, phase, ctx))
<1> DEFINE v == Questioned(u, phase)
<1> DEFINE ok(r) == ReadOK(v, phase, ctx, r)
<1> DEFINE all == keys(u, read, phase, ctx)
<1>1. v \in Ui
  BY QuestionedUi
<1>2. ok(Reading(v))
  BY <1>1, ReadBegins
<1>3. read[1] \in Byte /\ (Len(read) = 2 => read[2] \in Byte)
  BY SMTT(30), Z3T(30)
<1>4. CASE v.mode = "Sessions"
  <2> DEFINE w == ClosedByHand(v, phase)
  <2>1. \/ all \in {Reading(v), Reading(w)}
        \/ \E lone \in BOOLEAN : all \in
             {SessionsKey(Reading(v), read[1], ctx, lone),
              SessionsKey(SessionsKey(Reading(v), read[1], ctx, lone), read[2], ctx, lone)}
    BY <1>4, Zenon DEF keys, sessions_keys, Keys
  <2>2. ReadEnd(v, phase, ctx, Reading(w))
    <3>1. Tame(v, w)
      BY <1>1, TameMoves
    <3>2. ReadOK(w, phase, ctx, Reading(w))
      BY <3>1, ReadBegins DEF Tame
    <3> HIDE DEF v, w
    <3>3. Given(v, phase, ctx, Nothing) /\ Reading(w).command = Nothing
      BY DEF Given, Nothing, Reading
    <3> QED  BY <3>1, <3>2, <3>3 DEF ReadOK, ReadEnd, Tame
  <2> HIDE DEF v, all
  <2>3. ASSUME NEW lone
        PROVE  /\ ok(SessionsKey(Reading(v), read[1], ctx, lone))
               /\ ok(SessionsKey(SessionsKey(Reading(v), read[1], ctx, lone), read[2], ctx,
                                 lone))
    BY <1>1, <1>2, <1>4, SessionsKeyReads, Zenon
  <2>4. ReadEnd(v, phase, ctx, all)
    BY <1>2, <2>1, <2>2, <2>3, Zenon DEF ReadOK
  <2> QED  BY <2>4 DEF v, all
<1>5. CASE v.mode = "Config"
  <2>1. \E lone \in BOOLEAN : all \in
             {ConfigKey(Reading(v), read[1], phase, lone),
              ConfigKey(ConfigKey(Reading(v), read[1], phase, lone), read[2], phase, lone)}
    BY <1>5, Zenon DEF keys, Keys
  <2> HIDE DEF v, all
  <2>2. v.mode # "Sessions"
    BY <1>5
  <2>3. ASSUME NEW lone
        PROVE  /\ ok(ConfigKey(Reading(v), read[1], phase, lone))
               /\ ok(ConfigKey(ConfigKey(Reading(v), read[1], phase, lone), read[2], phase,
                               lone))
    BY <1>2, <2>2, ConfigKeyReads, Zenon
  <2>4. ReadEnd(v, phase, ctx, all)
    BY <2>1, <2>3, Zenon DEF ReadOK
  <2> QED  BY <2>4 DEF v, all
<1>6. CASE v.mode \notin {"Sessions", "Config"}
  <2>1. \E lone \in BOOLEAN : \/ all = StatusKey(Reading(v), read[1], phase, lone)
             \/ /\ Len(read) = 2
                /\ all = StatusKey(StatusKey(Reading(v), read[1], phase, lone), read[2],
                                   phase, lone)
    BY <1>6, Zenon DEF keys, Keys
  <2> HIDE DEF v, all
  <2>2. v.mode # "Sessions"
    BY <1>6
  <2>3. ASSUME NEW lone
        PROVE  /\ ok(StatusKey(Reading(v), read[1], phase, lone))
               /\ Len(read) = 2 =>
                    ok(StatusKey(StatusKey(Reading(v), read[1], phase, lone), read[2],
                                 phase, lone))
    BY <1>2, <1>3, <2>2, StatusKeyReads, Zenon
  <2>4. ReadEnd(v, phase, ctx, all)
    BY <2>1, <2>3, Zenon DEF ReadOK
  <2> QED  BY <2>4 DEF v, all
<1> HIDE DEF v
<1> QED  BY <1>4, <1>5, <1>6

-----------------------------------------------------------------------------
(* Typing *)

\* A key of one sequence put behind another is a key of either.
LEMMA Joined ==
    ASSUME NEW s \in Seq(KeyRec), NEW t \in Seq(KeyRec)
    PROVE  /\ s \o t \in Seq(KeyRec) /\ Len(s \o t) = Len(s) + Len(t)
           /\ \A i \in DOMAIN s : i \in DOMAIN (s \o t) /\ (s \o t)[i] = s[i]
           /\ \A j \in DOMAIN (s \o t) :
                \/ j \in DOMAIN s /\ (s \o t)[j] = s[j]
                \/ /\ j - Len(s) \in DOMAIN t /\ (s \o t)[j] = t[j - Len(s)]
                   /\ Len(s) < j
  BY SMTT(30), Z3T(30)

\* The keys typed next after the first n.
Run(s, n) == /\ s \in Seq(KeyRec)
             /\ \A i \in DOMAIN s : s[i].id = n + i

\* A part of a sequence, and how its places lie in the whole.
LEMMA PartOfSeq ==
    ASSUME NEW S, NEW p \in Seq(S), NEW w \in Nat, NEW k \in Nat, w <= k, k <= Len(p)
    PROVE  LET s == SubSeq(p, w + 1, k)
           IN  /\ s \in Seq(S) /\ Len(s) = k - w
               /\ \A i \in DOMAIN s : /\ i \in Nat /\ w < w + i /\ w + i <= k
                                      /\ w + i \in DOMAIN p /\ s[i] = p[w + i]
               /\ \A i, j \in DOMAIN s : i < j => w + i < w + j
               /\ \A i \in DOMAIN s, j \in DOMAIN p : k < j => w + i < j
BY SMTT(30), Z3T(30)

\* Types of what is ordered.
LEMMA Numbered ==
    ASSUME NEW s \in Seq(KeyRec)
    PROVE  /\ Len(s) \in Nat /\ DOMAIN s = 1..Len(s) /\ DOMAIN s \subseteq Nat
           /\ \A i \in DOMAIN s : s[i] \in KeyRec /\ s[i].id \in Nat
<1>1. Len(s) \in Nat /\ DOMAIN s = 1..Len(s)
  BY SMTT(30), Z3T(30)
<1>2. \A i \in DOMAIN s : s[i] \in KeyRec
  BY SMTT(30), Z3T(30)
<1>3. \A i \in DOMAIN s : s[i].id \in Nat
  BY <1>2 DEF KeyRec
<1> QED  BY <1>1, <1>2, <1>3, SMTT(30), Z3T(30)

\* Order, put together from the order of the parts.
LEMMA JoinedOrder ==
    ASSUME NEW s \in Seq(KeyRec), NEW t \in Seq(KeyRec)
    PROVE  /\ \A n : Upto(s, n) /\ Upto(t, n) => Upto(s \o t, n)
           /\ Sorted(s) /\ Sorted(t) /\ Before(s, t, 0) => Sorted(s \o t)
           /\ \A x : Before(s, x, 0) /\ Before(t, x, 0) => Before(s \o t, x, 0)
           /\ \A x, n : Before(x, s, n) /\ Before(x, t, 0) => Before(x, s \o t, n)
<1> DEFINE z == s \o t
<1>1. /\ \A j \in DOMAIN z :
           \/ j \in DOMAIN s /\ z[j] = s[j]
           \/ j - Len(s) \in DOMAIN t /\ z[j] = t[j - Len(s)] /\ Len(s) < j
      /\ DOMAIN z \subseteq Nat
  BY Joined, Numbered
<1>2. Len(s) \in Nat /\ DOMAIN s = 1..Len(s) /\ DOMAIN t = 1..Len(t) /\ Len(t) \in Nat
  BY Numbered
<1> HIDE DEF z
<1>3. ASSUME NEW n, Upto(s, n), Upto(t, n)  PROVE Upto(z, n)
  BY <1>1, <1>3 DEF Upto
<1>4. ASSUME Sorted(s), Sorted(t), Before(s, t, 0)  PROVE Sorted(z)
  <2> SUFFICES ASSUME NEW i \in DOMAIN z, NEW j \in DOMAIN z, i < j
               PROVE  z[i].id < z[j].id
    BY DEF Sorted
  <2>1. CASE i \in DOMAIN s /\ z[i] = s[i] /\ j \in DOMAIN s /\ z[j] = s[j]
    BY <1>4, <2>1 DEF Sorted
  <2>2. CASE /\ i \in DOMAIN s /\ z[i] = s[i]
             /\ j - Len(s) \in DOMAIN t /\ z[j] = t[j - Len(s)]
    BY <1>2, <1>4, <2>2, SMTT(30), Z3T(30) DEF Before
  <2>3. CASE /\ i - Len(s) \in DOMAIN t /\ z[i] = t[i - Len(s)]
             /\ j - Len(s) \in DOMAIN t /\ z[j] = t[j - Len(s)]
    <3>1. i - Len(s) < j - Len(s)
      BY <1>1, <1>2, SMTT(30), Z3T(30)
    <3> QED  BY <1>4, <2>3, <3>1 DEF Sorted
  <2>4. CASE Len(s) < i /\ j \in DOMAIN s
    BY <1>2, <2>4, <1>1, SMTT(30), Z3T(30)
  <2> QED  BY <1>1, <2>1, <2>2, <2>3, <2>4
<1>5. ASSUME NEW x, Before(s, x, 0), Before(t, x, 0)  PROVE Before(z, x, 0)
  BY <1>1, <1>5 DEF Before
<1>6. ASSUME NEW x, NEW n, Before(x, s, n), Before(x, t, 0)  PROVE Before(x, z, n)
  <2> SUFFICES ASSUME NEW i \in DOMAIN x, NEW j \in DOMAIN z, n < j
               PROVE  x[i].id < z[j].id
    BY DEF Before
  <2>1. CASE j \in DOMAIN s /\ z[j] = s[j]
    BY <1>6, <2>1 DEF Before
  <2>2. CASE j - Len(s) \in DOMAIN t /\ z[j] = t[j - Len(s)]
    BY <1>2, <1>6, <2>2, SMTT(30), Z3T(30) DEF Before
  <2> QED  BY <1>1, <2>1, <2>2
<1> QED  BY <1>3, <1>4, <1>5, <1>6 DEF z

\* What is typed next comes after everything typed.
LEMMA RunOrder ==
    ASSUME NEW n \in Nat, NEW m \in Nat, NEW s, Run(s, n), Len(s) <= m
    PROVE  /\ Upto(s, n + m) /\ Sorted(s)
           /\ \A x \in Seq(KeyRec) : Upto(x, n) => Upto(x, n + m) /\ Before(x, s, 0)
<1>1. s \in Seq(KeyRec) /\ Len(s) \in Nat /\ DOMAIN s = 1..Len(s)
  BY Numbered DEF Run
<1>2. Upto(s, n + m) /\ Sorted(s)
  BY <1>1, SMTT(30), Z3T(30) DEF Run, Upto, Sorted
<1>3. ASSUME NEW x \in Seq(KeyRec), Upto(x, n)
      PROVE  Upto(x, n + m) /\ Before(x, s, 0)
  <2>1. Upto(x, n + m)
    BY <1>3, SMTT(30), Z3T(30) DEF Upto
  <2>2. Before(x, s, 0)
    BY <1>1, <1>3, SMTT(30), Z3T(30) DEF Upto, Before, Run
  <2> QED  BY <2>1, <2>2
<1> QED  BY <1>2, <1>3

\* The order of what is held, on its way and in the shell, of which the host's
\* record shows these fields.
Shows(g) == g.shell \in Seq(KeyRec) /\ g.written \in Nat

\* Keys are published while nothing is held.
LEMMA PublishOrder ==
    ASSUME NEW p \in Seq(KeyRec), NEW q \in Seq(KeyRec), NEW g, Shows(g), NEW n \in Nat,
           NEW m \in Nat, Ordered(p, q, g, n), NEW s, Run(s, n), Len(s) <= m,
           s = <<>> \/ q = <<>>
    PROVE  Ordered(p \o s, q, g, n + m)
<1>1. s \in Seq(KeyRec) /\ Len(p \o s) = Len(p) + Len(s) /\ Len(s) \in Nat /\ Len(p) \in Nat
  BY Joined, Numbered, ZenonT(30) DEF Run
<1>2. /\ Upto(s, n + m) /\ Sorted(s) /\ Upto(p, n + m) /\ Upto(q, n + m)
      /\ Upto(g.shell, n + m) /\ Before(p, s, 0) /\ Before(g.shell, s, 0)
  BY RunOrder DEF Ordered, Shows
<1>3. Before(s, q, 0)
  BY SMTT(30), Z3T(30) DEF Before
<1>4. /\ Upto(p \o s, n + m) /\ Sorted(p \o s) /\ Before(p \o s, q, 0)
      /\ \A k : Before(g.shell, p, k) => Before(g.shell, p \o s, k)
  BY <1>1, <1>2, <1>3, JoinedOrder, ZenonT(30) DEF Ordered
<1>5. g.on = "same" => g.written <= Len(p \o s)
  BY <1>1, SMTT(30), Z3T(30) DEF Ordered, Shows
<1> QED  BY <1>2, <1>4, <1>5, ZenonT(30) DEF Ordered

\* Keys are held.
LEMMA HoldOrder ==
    ASSUME NEW p \in Seq(KeyRec), NEW q \in Seq(KeyRec), NEW g, Shows(g), NEW n \in Nat,
           NEW m \in Nat, Ordered(p, q, g, n), NEW s, Run(s, n), Len(s) <= m
    PROVE  Ordered(p, q \o s, g, n + m)
<1>1. s \in Seq(KeyRec)
  BY DEF Run
<1>2. /\ Upto(s, n + m) /\ Sorted(s) /\ Upto(p, n + m) /\ Upto(q, n + m)
      /\ Upto(g.shell, n + m) /\ Before(p, s, 0) /\ Before(q, s, 0)
      /\ Before(g.shell, s, 0)
  BY RunOrder DEF Ordered, Shows
<1>3. /\ Upto(q \o s, n + m) /\ Sorted(q \o s) /\ Before(p, q \o s, 0)
      /\ Before(g.shell, q \o s, 0)
  BY <1>1, <1>2, JoinedOrder DEF Ordered
<1> QED  BY <1>2, <1>3 DEF Ordered

\* What was held is published behind what is on its way, or dropped.
LEMMA ReleaseOrder ==
    ASSUME NEW p \in Seq(KeyRec), NEW q \in Seq(KeyRec), NEW g, Shows(g), NEW n,
           Ordered(p, q, g, n)
    PROVE  Ordered(p \o q, <<>>, g, n) /\ Ordered(p, <<>>, g, n)
<1>1. /\ DOMAIN <<>> = {} /\ Upto(<<>>, n) /\ Sorted(<<>>)
      /\ \A x : Before(x, <<>>, 0)
  BY SMTT(30), Z3T(30) DEF Upto, Sorted, Before
<1>2. Ordered(p, <<>>, g, n)
  BY <1>1, Zenon DEF Ordered
<1>3. /\ Upto(p \o q, n) /\ Sorted(p \o q)
      /\ \A k : Before(g.shell, p, k) => Before(g.shell, p \o q, k)
  BY JoinedOrder DEF Ordered
<1>4. g.on = "same" => g.written <= Len(p \o q)
  <2>1. Len(p \o q) = Len(p) + Len(q) /\ Len(p) \in Nat /\ Len(q) \in Nat
    BY Joined, Numbered
  <2> QED  BY <2>1, SMTT(30), Z3T(30) DEF Ordered, Shows
<1>5. Ordered(p \o q, <<>>, g, n)
  BY <1>1, <1>3, <1>4, ZenonT(30) DEF Ordered
<1> QED  BY <1>2, <1>5

\* A new link: nothing is on its way, and the host has nothing of it.
LEMMA SwapOrder ==
    ASSUME NEW p, NEW q, NEW g, NEW n, Ordered(p, q, g, n), NEW f,
           f.shell \in {g.shell, <<>>}, f.len = f.written,
           f.on = "behind" \/ (f.on \in {"same", "apart"} /\ f.written = 0),
           f.attempt = "adopted" => f.on = "apart"
    PROVE  Ordered(<<>>, q, f, n)
<1>1. /\ DOMAIN <<>> = {} /\ Upto(<<>>, n) /\ Sorted(<<>>) /\ Len(<<>>) = 0
      /\ \A x, k : Before(x, <<>>, k) /\ Before(<<>>, x, k)
  BY SMTT(30), Z3T(30) DEF Upto, Sorted, Before
<1>2. Upto(f.shell, n) /\ Sorted(f.shell) /\ Before(f.shell, q, 0)
  BY <1>1 DEF Ordered
<1>3. f.on = "same" => f.written <= Len(<<>>)
  BY <1>1, SMTT(30), Z3T(30)
<1> QED  BY <1>1, <1>2, <1>3 DEF Ordered

\* The shell is a new one, or none, and the host has all it had.
LEMMA EmptyShellOrder ==
    ASSUME NEW p, NEW q, NEW g, NEW n, Ordered(p, q, g, n), NEW f,
           f.shell = <<>>, f.len = g.len, f.written = g.written, f.on = g.on,
           f.attempt = g.attempt
    PROVE  Ordered(p, q, f, n)
<1>1. /\ DOMAIN <<>> = {} /\ Upto(<<>>, n) /\ Sorted(<<>>)
      /\ \A x, k : Before(<<>>, x, k)
  BY SMTT(30), Z3T(30) DEF Upto, Sorted, Before
<1> QED  BY <1>1 DEF Ordered

\* The host takes what is new of the input up to its k-th key, to the shell or,
\* in a lobby, nowhere.
LEMMA DrainOrder ==
    ASSUME NEW p \in Seq(KeyRec), NEW q \in Seq(KeyRec), NEW g, Shows(g), NEW n,
           Ordered(p, q, g, n), NEW w \in Nat, Before(g.shell, p, w), NEW k \in Nat,
           w <= k, k <= Len(p), NEW f, f.len = k, f.written = k, f.on = "same",
           f.attempt # "adopted",
           f.shell \in {g.shell, g.shell \o SubSeq(p, w + 1, k)}
    PROVE  Ordered(p, q, f, n) /\ f.shell \in Seq(KeyRec)
<1> DEFINE s == SubSeq(p, w + 1, k)
<1>1. /\ s \in Seq(KeyRec) /\ Len(s) = k - w
      /\ \A i \in DOMAIN s : /\ i \in Nat /\ w < w + i /\ w + i <= k
                             /\ w + i \in DOMAIN p /\ s[i] = p[w + i]
      /\ \A i, j \in DOMAIN s : i < j => w + i < w + j
      /\ \A i \in DOMAIN s, j \in DOMAIN p : k < j => w + i < j
  BY PartOfSeq, Zenon
<1> HIDE DEF s
<1>2. DOMAIN p = 1..Len(p) /\ Len(p) \in Nat
  BY Numbered, ZenonT(30)
<1>a. Upto(p, n) /\ Sorted(p)
  BY ZenonT(30) DEF Ordered
<1>3. Upto(s, n) /\ Sorted(s)
  <2>1. Upto(s, n)
    BY <1>1, <1>a DEF Upto
  <2>2. ASSUME NEW i \in DOMAIN s, NEW j \in DOMAIN s, i < j
        PROVE  s[i].id < s[j].id
    <3>1. w + i < w + j
      BY <1>1, <2>2, Zenon
    <3> QED  BY <1>1, <1>a, <3>1, ZenonT(30) DEF Sorted
  <2> QED  BY <2>1, <2>2, ZenonT(30) DEF Sorted
<1>4. Before(s, q, 0) /\ Before(g.shell, s, 0)
  BY <1>1, <1>2, ZenonT(30) DEF Ordered, Before
<1>5. Before(s, p, k)
  <2> SUFFICES ASSUME NEW i \in DOMAIN s, NEW j \in DOMAIN p, k < j
               PROVE  s[i].id < p[j].id
    BY ZenonT(30) DEF Before
  <2>1. w + i \in DOMAIN p /\ s[i] = p[w + i] /\ w + i <= k /\ i \in Nat
    BY <1>1
  <2>2. w + i < j
    BY <1>1, Zenon
  <2> QED  BY <1>a, <2>1, <2>2, ZenonT(30) DEF Sorted
<1>6. Before(g.shell, p, k)
  BY <1>2, SMTT(30), Z3T(30) DEF Before
<1>7. CASE f.shell = g.shell
  BY <1>6, <1>7, Zenon DEF Ordered, Shows
<1>8. CASE f.shell = g.shell \o s
  <2> DEFINE z == g.shell \o s
  <2>1. z \in Seq(KeyRec) /\ Upto(z, n) /\ Sorted(z) /\ Before(z, q, 0)
    BY <1>1, <1>3, <1>4, Joined, JoinedOrder, ZenonT(30) DEF Ordered, Shows
  <2>2. Before(z, p, k)
    <3>1. \A j \in DOMAIN z : \/ j \in DOMAIN g.shell /\ z[j] = g.shell[j]
                              \/ \E i \in DOMAIN s : z[j] = s[i]
      <4>1. \A j \in DOMAIN z :
               \/ j \in DOMAIN g.shell /\ z[j] = g.shell[j]
               \/ /\ j - Len(g.shell) \in DOMAIN s /\ z[j] = s[j - Len(g.shell)]
                  /\ Len(g.shell) < j
        BY <1>1, Joined, Zenon DEF Shows
      <4> HIDE DEF z
      <4> QED  BY <4>1, ZenonT(30)
    <3> HIDE DEF z
    <3> QED  BY <1>5, <1>6, <3>1 DEF Before
  <2> HIDE DEF z
  <2>3. f.shell = z
    BY <1>8 DEF z
  <2> QED  BY <2>1, <2>2, <2>3, ZenonT(30) DEF Ordered
<1> QED  BY <1>7, <1>8, Zenon DEF s

-----------------------------------------------------------------------------
(* The lap *)

\* The request for the list of sessions.
Listing == Asked("Sessions", 0)

\* Nothing but a request asks for a list.
LEMMA ListingIsAsked == \A k : k.is # "Ask" => k # Listing
  BY SMTT(30), Z3T(30) DEF Listing, Asked

\* A step of the client that moves no keys, and asks for a list at most.
Along(d, e) ==
    /\ e.pending = d.pending /\ e.l.held = d.l.held
    /\ {e.asking, e.asked} \subseteq {d.asking, d.asked, Nothing, Listing}

\* The requests a client may have out.
LEMMA RequestFacts ==
    /\ Nothing \in Request /\ Listing \in Request /\ Asks \subseteq Request
    /\ Nothing.what = "-" /\ Listing.what = "Sessions" /\ Listing # Nothing
    /\ \A a \in Request : a.is \in {"no", "Ask"} /\ (a.is = "Ask" => a \in Asks)
<1>1. Listing \in Asks /\ Listing.what = "Sessions" /\ Listing # Nothing
  BY DEF Listing, Asked, Asks, Wishes, Row, NewSession, Nothing
<1>2. Nothing.what = "-" /\ Nothing.is = "no"
  BY DEF Nothing
<1>3. \A a \in Asks : a.is = "Ask"
  BY ZenonT(30) DEF Asks
<1> QED  BY <1>1, <1>2, <1>3 DEF Request

\* A list is asked for, or owed.
LEMMA FetchOK ==
    ASSUME NEW d, Calm(d)
    PROVE  /\ ClientOK(fetch_list(d)) /\ Along(d, fetch_list(d))
           /\ fetch_list(d).ui = d.ui /\ fetch_list(d).l = d.l
           /\ fetch_list(d).in_lobby = d.in_lobby /\ fetch_list(d).here = d.here
           /\ ~asking(d) => /\ fetch_list(d).asking = Listing
                            /\ fetch_list(d).list_owed = d.list_owed
<1> DEFINE e == fetch_list(d)
<1>1. d \in ClientRec
  BY DEF Calm
<1>2. CASE asking(d)
  <2>1. e = [d EXCEPT !.list_owed = TRUE]
    BY <1>2 DEF fetch_list
  <2> HIDE DEF e
  <2>2. /\ e \in ClientRec /\ e.l = d.l /\ e.ui = d.ui /\ e.pending = d.pending
        /\ e.asking = d.asking /\ e.asked = d.asked /\ e.list_owed
        /\ e.in_lobby = d.in_lobby /\ e.here = d.here
    BY <1>1, <2>1, Zenon DEF ClientRec
  <2>3. Calm(e)
    BY <2>2 DEF Calm
  <2>4. Serves(e)
    BY <1>2, <2>2 DEF Serves, asking
  <2>5. Along(d, e)
    BY <2>2 DEF Along
  <2> QED  BY <1>2, <2>2, <2>3, <2>4, <2>5 DEF ClientOK, e
<1>3. CASE ~asking(d)
  <2>1. e = [d EXCEPT !.asking = Listing]
    BY <1>3 DEF fetch_list, Listing
  <2> HIDE DEF e
  <2>2. /\ e \in ClientRec /\ e.l = d.l /\ e.ui = d.ui /\ e.pending = d.pending
        /\ e.asking = Listing /\ e.asked = d.asked /\ e.list_owed = d.list_owed
        /\ e.in_lobby = d.in_lobby /\ e.here = d.here
    BY <1>1, <2>1, RequestFacts, Zenon DEF ClientRec
  <2>3. d.asked = Nothing
    BY <1>3 DEF asking
  <2>4. Calm(e)
    BY <2>2, <2>3 DEF Calm
  <2>5. Serves(e)
    BY <2>2, RequestFacts DEF Serves
  <2>6. Along(d, e)
    BY <2>2 DEF Along
  <2> QED  BY <2>2, <2>4, <2>5, <2>6 DEF ClientOK, e
<1> QED  BY <1>2, <1>3

\* The lap looks at the link and at the popup, ...
LEMMA LayerOK ==
    ASSUME NEW d, ClientOK(d)
    PROVE  ClientOK(LayerAt(d)) /\ Along(d, LayerAt(d))
<1> DEFINE l == evaluate(d.l, d.unacked)
<1> DEFINE u == tick(d.ui, l)
<1> DEFINE e == [d EXCEPT !.l = l, !.ui = u]
<1>1. /\ d \in ClientRec /\ d.l \in LinkRec /\ d.unacked \in BOOLEAN /\ d.ui \in Ui
  BY DEF ClientOK, Calm, ClientRec
<1>2. l \in LinkRec /\ l.held = d.l.held /\ l.phase \in {d.l.phase, "Silent", "Recovering"}
  BY <1>1, LinkEvaluated
<1>3. LayerAt(d) \in {e, fetch_list(e)}
  BY Zenon DEF LayerAt
<1> HIDE DEF l
<1>4. u \in Ui /\ (Loads(u) => Loads(d.ui))
  BY <1>1, <1>2, TickUi
<1> HIDE DEF u
<1>5. /\ e \in ClientRec /\ e.l = l /\ e.ui = u /\ e.pending = d.pending
      /\ e.asking = d.asking /\ e.asked = d.asked /\ e.list_owed = d.list_owed
  BY <1>1, <1>2, <1>4, Zenon DEF ClientRec
<1> HIDE DEF e
<1>6. Calm(e)
  BY <1>2, <1>5 DEF ClientOK, Calm
<1>7. ClientOK(e) /\ Along(d, e)
  BY <1>2, <1>4, <1>5, <1>6, ZenonT(30) DEF ClientOK, Serves, asking, Along
<1>8. ClientOK(fetch_list(e)) /\ Along(e, fetch_list(e))
  BY <1>6, FetchOK
<1>9. Along(d, fetch_list(e))
  BY <1>7, <1>8 DEF Along
<1> QED  BY <1>3, <1>7, <1>8, <1>9, Zenon

\* ... sends the request that waits, ...
LEMMA TakeAskOK ==
    ASSUME NEW d, ClientOK(d)
    PROVE  ClientOK(take_ask(d)) /\ Along(d, take_ask(d))
<1> DEFINE e == take_ask(d)
<1>1. CASE d.asking = Nothing
  BY <1>1 DEF take_ask, Along
<1>2. CASE d.asking # Nothing
  <2>1. d \in ClientRec /\ d.asked = Nothing
    BY <1>2 DEF ClientOK, Calm
  <2>2. e = [d EXCEPT !.asked = d.asking, !.asking = Nothing]
    BY <1>2 DEF take_ask
  <2> HIDE DEF e
  <2>3. /\ e \in ClientRec /\ e.l = d.l /\ e.ui = d.ui /\ e.pending = d.pending
        /\ e.asking = Nothing /\ e.asked = d.asking /\ e.list_owed = d.list_owed
    BY <2>1, <2>2, RequestFacts, Zenon DEF ClientRec
  <2>4. Calm(e)
    BY <2>3, ZenonT(30) DEF ClientOK, Calm
  <2>5. Serves(e)
    BY <1>2, <2>1, <2>3, RequestFacts DEF ClientOK, Serves, asking
  <2>6. Along(d, e)
    BY <2>3 DEF Along
  <2> QED  BY <2>4, <2>5, <2>6 DEF ClientOK, e
<1> QED  BY <1>1, <1>2

\* An input state is published.
LEMMA PublishOK ==
    ASSUME NEW d, Calm(d), NEW bytes \in Seq(KeyRec)
    PROVE  /\ Calm(Publish(d, bytes)) /\ Publish(d, bytes).pending = d.pending \o bytes
           /\ Publish(d, bytes).l = d.l /\ Publish(d, bytes).ui = d.ui
           /\ Publish(d, bytes).asking = d.asking /\ Publish(d, bytes).asked = d.asked
           /\ Publish(d, bytes).list_owed = d.list_owed
<1> DEFINE e == Publish(d, bytes)
<1>1. d \in ClientRec /\ d.pending \in Seq(KeyRec)
  BY DEF Calm, ClientRec
<1>2. d.pending \o bytes \in Seq(KeyRec)
  BY <1>1, Joined
<1>3. e = [d EXCEPT !.pending = @ \o bytes, !.unacked = TRUE, !.there = FALSE]
  BY DEF Publish
<1> HIDE DEF e
<1>4. /\ e \in ClientRec /\ e.pending = d.pending \o bytes /\ e.l = d.l /\ e.ui = d.ui
      /\ e.asking = d.asking /\ e.asked = d.asked /\ e.list_owed = d.list_owed
  BY <1>1, <1>2, <1>3, Zenon DEF ClientRec
<1>5. Calm(e)
  BY <1>4 DEF Calm
<1> QED  BY <1>4, <1>5 DEF e

\* ... and says something when it has been quiet.
LEMMA HeartbeatOK ==
    ASSUME NEW d, ClientOK(d)
    PROVE  ClientOK(heartbeat(d)) /\ Along(d, heartbeat(d))
<1> DEFINE p == Publish(d, <<>>)
<1> DEFINE e == [p EXCEPT !.l = sent(d.l)]
<1>1. heartbeat(d) \in {d, e}
  BY Zenon DEF heartbeat
<1>2. Along(d, d)
  BY DEF Along
<1>3. d.l \in LinkRec /\ d.pending \in Seq(KeyRec) /\ <<>> \in Seq(KeyRec)
  BY SMTT(30), Z3T(30) DEF ClientOK, Calm, ClientRec
<1>4. d.pending \o <<>> = d.pending
  BY <1>3, SMTT(30), Z3T(30)
<1>5. /\ Calm(p) /\ p.pending = d.pending /\ p.l = d.l /\ p.ui = d.ui
      /\ p.asking = d.asking /\ p.asked = d.asked /\ p.list_owed = d.list_owed
  BY <1>3, <1>4, PublishOK, Zenon DEF ClientOK
<1>6. sent(d.l) \in LinkRec /\ sent(d.l).held = d.l.held /\ sent(d.l).phase = d.l.phase
  BY <1>3, LinkMoves
<1> HIDE DEF p
<1>7. /\ e \in ClientRec /\ e.pending = p.pending /\ e.l = sent(d.l) /\ e.ui = p.ui
      /\ e.asking = p.asking /\ e.asked = p.asked /\ e.list_owed = p.list_owed
  BY <1>5, <1>6, ZenonT(30) DEF Calm, ClientRec
<1> HIDE DEF e
<1>8. ClientOK(e) /\ Along(d, e)
  BY <1>5, <1>6, <1>7 DEF ClientOK, Calm, Serves, asking, Along
<1> QED  BY <1>1, <1>2, <1>8, Zenon

\* So what holds when the handler is done holds after the lap.
LEMMA LapOK ==
    ASSUME NEW left, Lap(left), \A d \in left : ClientOK(d)
    PROVE  ClientOK(c') /\ \E d \in left : Along(d, c')
<1>1. PICK d \in left : c' = heartbeat(take_ask(LayerAt(d)))
  BY Zenon DEF Lap
<1>2. ClientOK(LayerAt(d)) /\ Along(d, LayerAt(d))
  BY <1>1, LayerOK
<1> DEFINE e == LayerAt(d)
<1> HIDE DEF e
<1>3. ClientOK(take_ask(e)) /\ Along(e, take_ask(e))
  BY <1>2, TakeAskOK DEF e
<1> DEFINE f == take_ask(e)
<1> HIDE DEF f
<1>4. ClientOK(heartbeat(f)) /\ Along(f, heartbeat(f))
  BY <1>3, HeartbeatOK DEF f
<1>5. c' = heartbeat(f) /\ Along(d, e) /\ Along(e, f)
  BY <1>1, <1>2, <1>3, ZenonT(30) DEF e, f
<1>6. Along(d, heartbeat(f))
  BY <1>4, <1>5 DEF Along
<1> QED  BY <1>4, <1>5, <1>6, Zenon

-----------------------------------------------------------------------------
(* The wakes that take no key *)

\* A state of the client that nothing left the hold to come to, in which
\* nothing new is on its way and nothing new asked for but a list.
Quiet(d) ==
    /\ d.l.held = c.l.held /\ d.pending \in {c.pending, <<>>}
    /\ {d.asking, d.asked} \subseteq {c.asking, c.asked, Nothing, Listing}

\* A handler that is quiet, and the lap after it.
LEMMA QuietWake ==
    ASSUME Inv, NEW left, Lap(left), h' \in HostRec, UNCHANGED <<typed, ended, user>>,
           \A d \in left : /\ ClientOK(d) /\ Quiet(d)
                           /\ Ordered(d.pending, d.l.held, h', typed)
    PROVE  Inv' /\ Quiet(c')
<1>1. ClientOK(c')
  BY LapOK
<1>2. PICK d \in left : Along(d, c')
  BY LapOK, ZenonT(30)
<1>3. c'.pending = d.pending /\ c'.l.held = d.l.held
  BY <1>2 DEF Along
<1>4. Ordered(c'.pending, c'.l.held, h', typed)
  BY <1>3, ZenonT(30)
<1>5. Quiet(c')
  BY <1>2, <1>3 DEF Along, Quiet
<1>6. user' \in Users /\ typed' \in 0..user'.keys /\ ended' \in BOOLEAN /\ typed' = typed
  BY DEF Inv
<1>7. Inv'
  <2>1. (ClientOK(c))'
    BY <1>1, Zenon DEF ClientOK, Calm, Serves, asking, Loads
  <2>2. (Ordered(c.pending, c.l.held, h, typed))'
    BY <1>4, <1>6, Zenon DEF Ordered, Upto, Sorted, Before
  <2> QED  BY <1>6, <2>1, <2>2, ZenonT(30) DEF Inv
<1> QED  BY <1>5, <1>7

\* A new link keeps all but what was on its way.
LEMMA SwapOK ==
    ASSUME NEW d, ClientOK(d)
    PROVE  /\ ClientOK(swap_in_as(d)) /\ swap_in_as(d).pending = <<>>
           /\ swap_in_as(d).l = d.l /\ swap_in_as(d).ui = d.ui
           /\ swap_in_as(d).asking = d.asking /\ swap_in_as(d).asked = d.asked
           /\ swap_in_as(d).list_owed = d.list_owed
<1> DEFINE e == swap_in_as(d)
<1>1. d \in ClientRec /\ <<>> \in Seq(KeyRec)
  BY SMTT(30), Z3T(30) DEF ClientOK, Calm
<1>2. e = [d EXCEPT !.pending = <<>>, !.unacked = TRUE, !.there = FALSE]
  BY DEF swap_in_as
<1> HIDE DEF e
<1>3. /\ e \in ClientRec /\ e.pending = <<>> /\ e.l = d.l /\ e.ui = d.ui
      /\ e.asking = d.asking /\ e.asked = d.asked /\ e.list_owed = d.list_owed
  BY <1>1, <1>2, Zenon DEF ClientRec
<1>4. ClientOK(e)
  BY <1>3, ZenonT(30) DEF ClientOK, Calm, Serves, asking
<1> QED  BY <1>3, <1>4 DEF e

\* What Inv says of the two ends.
LEMMA Ends ==
    ASSUME Inv
    PROVE  /\ ClientOK(c) /\ Calm(c) /\ c \in ClientRec /\ c.l \in LinkRec /\ c.ui \in Ui
           /\ c.pending \in Seq(KeyRec) /\ c.l.held \in Seq(KeyRec)
           /\ c.there \in BOOLEAN /\ c.unacked \in BOOLEAN /\ c.here \in Sessions
           /\ h \in HostRec /\ Shows(h) /\ h.reply \in Reply /\ h.len = h.written
           /\ Ordered(c.pending, c.l.held, h, typed)
           /\ typed \in Nat /\ Quiet(c)
<1>1. ClientOK(c) /\ h \in HostRec /\ Ordered(c.pending, c.l.held, h, typed)
  BY DEF Inv
<1>2. Calm(c) /\ c \in ClientRec
  BY <1>1 DEF ClientOK, Calm
<1>3. /\ c.l \in LinkRec /\ c.ui \in Ui /\ c.pending \in Seq(KeyRec)
      /\ c.there \in BOOLEAN /\ c.unacked \in BOOLEAN /\ c.here \in Sessions
  BY <1>2 DEF ClientRec
<1>4. c.l.held \in Seq(KeyRec)
  BY <1>3 DEF LinkRec
<1>5. Shows(h) /\ h.reply \in Reply
  BY <1>1 DEF Shows, HostRec
<1>6. typed \in Nat
  BY SessionConstants, SMTT(30), Z3T(30) DEF Inv
<1>7. h.len = h.written
  BY <1>1 DEF Ordered
<1>8. Quiet(c)
  BY ZenonT(30) DEF Quiet
<1> QED  BY <1>1, <1>2, <1>3, <1>4, <1>5, <1>6, <1>7, <1>8, ZenonT(30)

\* A frame arrives.
LEMMA TakeFrameInv ==
    ASSUME Inv, TakeFrame, UNCHANGED user
    PROVE  Inv' /\ Quiet(c')
<1> DEFINE got(acks) == [c EXCEPT !.l = heard(@), !.unacked = @ /\ ~acks]
<1> DEFINE left == {got(acks) : acks \in {FALSE, c.there}}
<1>1. Lap(left) /\ UNCHANGED <<h, typed, ended>>
  BY Zenon DEF TakeFrame
<1>2. ASSUME NEW d \in left
      PROVE  /\ ClientOK(d) /\ Quiet(d)
             /\ Ordered(d.pending, d.l.held, h', typed)
  <2>1. PICK acks \in {FALSE, c.there} : d = got(acks)
    BY <1>2, Zenon
  <2>2. /\ heard(c.l) \in LinkRec /\ heard(c.l).held = c.l.held
        /\ heard(c.l).phase = IF c.l.held = <<>> THEN "Live" ELSE "Confirming"
    BY LinkMoves, Ends
  <2>3. (c.unacked /\ ~acks) \in BOOLEAN
    BY <2>1, Ends
  <2>4. /\ d \in ClientRec /\ d.pending = c.pending /\ d.l = heard(c.l) /\ d.ui = c.ui
        /\ d.asking = c.asking /\ d.asked = c.asked /\ d.list_owed = c.list_owed
    BY <2>1, <2>2, <2>3, Ends, ZenonT(30) DEF ClientRec
  <2>5. ClientOK(d)
    BY <2>2, <2>4, Ends DEF ClientOK, Calm, Serves, asking
  <2> QED  BY <1>1, <2>2, <2>4, <2>5, Ends DEF Quiet
<1> HIDE DEF left
<1> QED  BY <1>1, <1>2, QuietWake, Ends

\* The window changes its size.
LEMMA ResizeInv ==
    ASSUME Inv, Resize, UNCHANGED user
    PROVE  Inv' /\ Quiet(c')
<1> DEFINE d == Publish(c, <<>>)
<1>1. Lap({d}) /\ UNCHANGED <<h, typed, ended>>
  BY Zenon DEF Resize
<1>2. <<>> \in Seq(KeyRec) /\ c.pending \o <<>> = c.pending
  BY Ends, SMTT(30), Z3T(30)
<1>3. /\ Calm(d) /\ d.pending = c.pending /\ d.l = c.l /\ d.ui = c.ui
      /\ d.asking = c.asking /\ d.asked = c.asked /\ d.list_owed = c.list_owed
  BY <1>2, PublishOK, Ends, Zenon
<1> HIDE DEF d
<1>4. ClientOK(d) /\ Quiet(d)
  BY <1>3, Ends, ZenonT(30) DEF ClientOK, Serves, asking, Quiet
<1>5. Ordered(d.pending, d.l.held, h', typed) /\ h' \in HostRec
  BY <1>1, <1>3, Ends, ZenonT(30)
<1> QED  BY <1>1, <1>4, <1>5, QuietWake

\* The pacing interval is over.
LEMMA PacingTickInv ==
    ASSUME Inv, PacingTick, UNCHANGED user
    PROVE  Inv' /\ Quiet(c')
<1>1. Lap({c}) /\ UNCHANGED <<h, typed, ended>>
  BY Zenon DEF PacingTick
<1> QED  BY <1>1, QuietWake, Ends

\* What is left of a request whose link is replaced.
LEMMA OrphanedReply ==
    ASSUME NEW reply \in Reply
    PROVE  Orphaned(reply) \in Reply
  BY ZenonT(30) DEF Orphaned, Reply, Nothing, Row, NewSession

\* An attempt sends its Attach.
LEMMA AttachInv ==
    ASSUME Inv, Attach, UNCHANGED user
    PROVE  /\ UNCHANGED <<c, typed, ended>> /\ h' \in HostRec
           /\ Ordered(c.pending, c.l.held, h', typed)
<1> DEFINE to == IF c.in_lobby THEN "lobby" ELSE "here"
<1>1. UNCHANGED <<c, typed, ended>> /\ h' = [h EXCEPT !.attempt = to]
  BY Zenon DEF Attach
<1>2. to \in {"lobby", "here"}
  BY Zenon
<1> HIDE DEF to
<1>3. /\ h' \in HostRec /\ h'.shell = h.shell /\ h'.len = h.len
      /\ h'.written = h.written /\ h'.on = h.on /\ h'.attempt = to
  BY <1>1, <1>2, Ends, ZenonT(30) DEF HostRec
<1>4. Ordered(c.pending, c.l.held, h', typed)
  BY <1>2, <1>3, Ends, ZenonT(30) DEF Ordered
<1> QED  BY <1>1, <1>3, <1>4, Zenon

\* A new link, after which a lobby's selector asks for a list: all but that,
\* and what was on its way, stays.
LEMMA RelistOK ==
    ASSUME NEW d, ClientOK(d)
    PROVE  ClientOK(Relist(d)) /\ Along(d, Relist(d))
<1>1. Along(d, d)
  BY DEF Along
<1>2. ClientOK(fetch_list(d)) /\ Along(d, fetch_list(d))
  BY FetchOK DEF ClientOK
<1> QED  BY <1>1, <1>2, Zenon DEF Relist

\* The client is told of the link that was rebuilt.
LEMMA RebuiltInv ==
    ASSUME Inv, Rebuilt, UNCHANGED user
    PROVE  Inv' /\ Quiet(c')
<1> DEFINE e == swap_in_as(c)
<1> DEFINE d == Relist(e)
<1>1. Lap({d}) /\ UNCHANGED <<typed, ended>>
  BY Zenon DEF Rebuilt
<1>2. \/ \E lobby \in BOOLEAN : h' = [Fresh(lobby) EXCEPT !.reply = Orphaned(h.reply)]
      \/ /\ h.attempt = "adopted"
         /\ h' = [h EXCEPT !.on = "same", !.attempt = "no", !.reply = Orphaned(h.reply)]
  <2>1. (h.attempt = "lobby") \in BOOLEAN
    BY Zenon
  <2> QED  BY <2>1, ZenonT(30) DEF Rebuilt
<1>3. Orphaned(h.reply) \in Reply /\ <<>> \in Seq(KeyRec)
  BY OrphanedReply, Ends, SMTT(30), Z3T(30)
<1>4. /\ h' \in HostRec /\ h'.shell \in {h.shell, <<>>} /\ h'.len = h'.written
      /\ h'.on = "same" /\ h'.written = 0 /\ h'.attempt = "no"
  <2>1. ASSUME NEW lobby \in BOOLEAN,
               h' = [Fresh(lobby) EXCEPT !.reply = Orphaned(h.reply)]
        PROVE  /\ h' \in HostRec /\ h'.shell = <<>> /\ h'.len = h'.written
               /\ h'.on = "same" /\ h'.written = 0 /\ h'.attempt = "no"
    BY <1>3, <2>1, Zenon DEF Fresh, HostRec
  <2>2. CASE /\ h.attempt = "adopted"
             /\ h' = [h EXCEPT !.on = "same", !.attempt = "no",
                               !.reply = Orphaned(h.reply)]
    <3>1. h.written = 0
      BY <2>2, Ends, ZenonT(30) DEF Ordered
    <3> QED  BY <1>3, <2>2, <3>1, Ends, Zenon DEF HostRec
  <2> QED  BY <1>2, <2>1, <2>2, Zenon
<1>5. /\ ClientOK(e) /\ e.pending = <<>> /\ e.l = c.l /\ e.asking = c.asking
      /\ e.asked = c.asked
  BY SwapOK, Ends, ZenonT(30)
<1> HIDE DEF e
<1>6. ClientOK(d) /\ Along(e, d)
  BY <1>5, RelistOK
<1> HIDE DEF d
<1>7. Ordered(<<>>, c.l.held, h', typed)
  BY <1>4, SwapOrder, Ends, SMTT(30), Z3T(30)
<1>8. Quiet(d) /\ Ordered(d.pending, d.l.held, h', typed)
  BY <1>5, <1>6, <1>7 DEF Quiet, Along
<1> QED  BY <1>1, <1>4, <1>6, <1>8, QuietWake

\* The client fails over to the standby.
LEMMA FailOverInv ==
    ASSUME Inv, FailOver, UNCHANGED user
    PROVE  Inv' /\ Quiet(c')
<1> DEFINE d == swap_in_as(c)
<1> DEFINE on == IF h.on \in {"same", "behind"} THEN "behind" ELSE "apart"
<1>1. /\ Lap({d}) /\ UNCHANGED <<typed, ended>>
      /\ h' = [h EXCEPT !.on = on, !.reply = Orphaned(h.reply)]
  BY ZenonT(30) DEF FailOver
<1>2. Orphaned(h.reply) \in Reply
  BY OrphanedReply, Ends
<1>3. /\ on \in {"behind", "apart"}
      /\ on = "apart" => h.written = 0
      /\ h.attempt = "adopted" => on = "apart"
  BY Ends, ZenonT(30) DEF Ordered, HostRec
<1> HIDE DEF on
<1>4. /\ h' \in HostRec /\ h'.shell \in {h.shell, <<>>} /\ h'.len = h'.written
      /\ h'.on = on /\ h'.written = h.written /\ h'.attempt = h.attempt
  BY <1>1, <1>2, <1>3, Ends, Zenon DEF HostRec
<1>5. /\ ClientOK(d) /\ d.pending = <<>> /\ d.l = c.l /\ d.asking = c.asking
      /\ d.asked = c.asked
  BY SwapOK, Ends
<1> HIDE DEF d
<1>6. Ordered(<<>>, c.l.held, h', typed)
  <2>1. /\ h'.on = "behind" \/ (h'.on \in {"same", "apart"} /\ h'.written = 0)
        /\ h'.attempt = "adopted" => h'.on = "apart"
    BY <1>3, <1>4, ZenonT(30)
  <2>2. Ordered(c.pending, c.l.held, h, typed)
    BY Ends
  <2> QED  BY <1>4, <2>1, <2>2, SwapOrder, SMTT(30), Z3T(30)
<1>7. Quiet(d) /\ Ordered(d.pending, d.l.held, h', typed)
  BY <1>5, <1>6 DEF Quiet
<1> QED  BY <1>1, <1>4, <1>5, <1>7, QuietWake

=============================================================================
