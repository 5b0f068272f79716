------------------------- MODULE ClientSessionProofs -------------------------
(***************************************************************************)
(* The safety of ClientSession, for any users, sessions and bounds: the    *)
(* answers of the door, the steps of the host, the clock and the wake that *)
(* takes keys keep the inductive invariant, and the theorems that follow.  *)
(*                                                                         *)
(* What a read of the keyboard may come to (KeysRead) is shown key by key, *)
(* mode by mode, down to what the selector does with a key (KeyPicks):     *)
(* that is where an answer is found to be given to a question that had     *)
(* been up.                                                                *)
(***************************************************************************)
EXTENDS ClientSessionInvariant

-----------------------------------------------------------------------------
(* The answers of the door *)

\* What may come back of a request: what the host replied, or a failure.
Answer == {a \in Reply : a.is \notin {"no", "Lost"}} \cup {[Nothing EXCEPT !.is = "Failed"]}

\* The client once it has taken an answer: the request is no longer out, and a
\* selector that still loads is owed a list or asks for one.
Told(d, t) ==
    /\ Calm(t) /\ t.l = d.l /\ t.asked = Nothing /\ t.asking \in {Nothing, Listing}
    /\ t.asking = Nothing /\ Loads(t.ui) => t.list_owed

\* The popup with the selector told something.
LEMMA SelectorMut ==
    ASSUME NEW u \in Ui, NEW s \in Sel
    PROVE  /\ selector_mut(u, s) \in Ui
           /\ Loads(selector_mut(u, s)) => s.loading /\ u.mode = "Sessions"
<1>1. CASE u.mode = "Sessions"
  BY <1>1 DEF selector_mut, Ui, Loads
<1>2. CASE u.mode # "Sessions"
  BY <1>2 DEF selector_mut, Loads
<1> QED  BY <1>1, <1>2

\* An answer that changes the popup, and where the client is.
LEMMA TellOK ==
    ASSUME NEW d, ClientOK(d), NEW t \in ClientRec, NEW u, t.l = d.l, t.ui = u,
           t.asked = Nothing, t.asking \in {Nothing, Listing},
           t.asking = Nothing /\ Loads(u) => t.list_owed
    PROVE  Told(d, t)
<1>1. Calm(t)
  BY ZenonT(30) DEF ClientOK, Calm
<1> QED  BY <1>1 DEF Told

\* Every answer is taken so.
LEMMA TakeAnswerOK ==
    ASSUME NEW d, ClientOK(d), d.asked # Nothing, NEW reply \in Answer, NEW rows \in RowSet
    PROVE  /\ Told(d, take_answer(d, reply, rows))
           /\ take_answer(d, reply, rows).pending =
                IF reply.is = "Landed" THEN <<>> ELSE d.pending
<1> DEFINE e == [d EXCEPT !.asked = Nothing]
<1> DEFINE t == take_answer(d, reply, rows)
<1>1. d \in ClientRec /\ d.ui \in Ui /\ d.here \in Sessions /\ d.asking = Nothing
  BY DEF ClientOK, Calm, ClientRec
<1>2. /\ e \in ClientRec /\ e.l = d.l /\ e.ui = d.ui /\ e.pending = d.pending
      /\ e.asking = Nothing /\ e.asked = Nothing /\ e.list_owed = d.list_owed
      /\ e.here = d.here
  BY <1>1, RequestFacts DEF ClientRec
<1>3. reply.is \in {"Landed", "Started"} => reply.id \in Sessions
  BY DEF Answer, Reply, Nothing
<1>4. close_popup(d.ui) \in Ui /\ ~Loads(close_popup(d.ui)) /\ open_sessions(d.ui) \in Ui
  <2>1. None \in MaybeAge /\ "Closed" \in Mode /\ "Sessions" \in Mode
    BY Thresholds DEF Mode
  <2> QED  BY <1>1, <2>1, ToUi DEF close_popup, open_sessions, Loads
<1>5. /\ d.ui.sel \in Sel /\ set_rows(d.ui.sel, rows) \in Sel
      /\ ~set_rows(d.ui.sel, rows).loading
      /\ fail_list(d.ui.sel) \in Sel /\ ~fail_list(d.ui.sel).loading
      /\ fail(d.ui.sel) \in Sel /\ fail(d.ui.sel).loading = d.ui.sel.loading
  <2>1. d.ui.sel \in Sel
    BY <1>1 DEF Ui
  <2> QED  BY <2>1, ToldSel
<1>6. Calm(e) /\ ~asking(e)
  BY <1>2 DEF ClientOK, Calm, asking
<1> HIDE DEF e
<1>7. CASE reply.is = "Sessions"
  <2> DEFINE u == selector_mut(d.ui, set_rows(d.ui.sel, rows))
  <2>1. u \in Ui /\ ~Loads(u)
    BY <1>1, <1>5, SelectorMut
  <2>2. t = [e EXCEPT !.ui = u]
    BY <1>2, <1>7 DEF take_answer, e
  <2> HIDE DEF t, u
  <2>3. /\ t \in ClientRec /\ t.l = d.l /\ t.ui = u /\ t.pending = d.pending
        /\ t.asked = Nothing /\ t.asking = Nothing
    BY <1>2, <2>1, <2>2, ZenonT(30) DEF ClientRec
  <2>4. Told(d, t)
    BY <1>1, <2>1, <2>3, TellOK, Zenon
  <2> QED  BY <1>7, <2>3, <2>4, ZenonT(30) DEF t
<1>8. CASE reply.is \in {"Landed", "Started"}
  <2> DEFINE u == close_popup(d.ui)
  <2> DEFINE f == IF reply.is = "Landed" THEN swap_in_as(e) ELSE e
  <2>1. t = [f EXCEPT !.in_lobby = FALSE, !.here = reply.id, !.ui = u]
    BY <1>2, <1>8, Zenon DEF take_answer, e
  <2>2. /\ f \in ClientRec /\ f.l = d.l /\ f.asked = Nothing /\ f.asking = Nothing
        /\ f.pending = IF reply.is = "Landed" THEN <<>> ELSE d.pending
    <3>1. <<>> \in Seq(KeyRec)
      BY SMTT(30), Z3T(30)
    <3> QED  BY <1>2, <3>1, Zenon DEF swap_in_as, ClientRec
  <2> HIDE DEF t, u, f
  <2>3. /\ t \in ClientRec /\ t.l = d.l /\ t.ui = u /\ t.pending = f.pending
        /\ t.asked = Nothing /\ t.asking = Nothing
    BY <1>3, <1>4, <1>8, <2>1, <2>2, Zenon DEF ClientRec, u
  <2>4. ~Loads(u) /\ u \in Ui
    BY <1>4 DEF u
  <2>5. Told(d, t)
    BY <1>1, <2>3, <2>4, TellOK, ZenonT(30)
  <2> QED  BY <2>2, <2>3, <2>5 DEF t
<1>9. CASE reply.is \in {"Killed", "Renamed"}
  <2> DEFINE f == fetch_list(e)
  <2> DEFINE v == IF f.ui.mode = "Sessions" THEN f.ui ELSE open_sessions(f.ui)
  <2> DEFINE g == [f EXCEPT !.in_lobby = TRUE, !.ui = v]
  <2>1. t \in {f, g}
    BY <1>9, ZenonT(30) DEF take_answer, e
  <2>2. /\ f \in ClientRec /\ f.l = d.l /\ f.ui = d.ui /\ f.pending = d.pending
        /\ f.asking = Listing /\ f.asked = Nothing
    <3>1. /\ ClientOK(f) /\ Along(e, f) /\ f.ui = e.ui /\ f.l = e.l /\ f.asking = Listing
      BY <1>6, FetchOK, Zenon
    <3>2. f \in ClientRec /\ Nothing \in {f.asking, f.asked}
      BY <3>1, ZenonT(30) DEF ClientOK, Calm
    <3> QED  BY <1>2, <3>1, <3>2, RequestFacts, ZenonT(30) DEF Along
  <2> HIDE DEF f
  <2>3. v \in Ui
    BY <1>1, <1>4, <2>2
  <2> HIDE DEF v, t
  <2>4. /\ g \in ClientRec /\ g.l = d.l /\ g.ui = v /\ g.pending = d.pending
        /\ g.asking = Listing /\ g.asked = Nothing
    BY <2>2, <2>3, Zenon DEF ClientRec
  <2> HIDE DEF g
  <2>5. Told(d, f) /\ Told(d, g)
    <3>1. Told(d, f)
      BY <1>1, <2>2, RequestFacts, TellOK, ZenonT(30)
    <3>2. Told(d, g)
      BY <1>1, <2>3, <2>4, RequestFacts, TellOK
    <3> QED  BY <3>1, <3>2, ZenonT(30)
  <2>6. Told(d, t) /\ t.pending = d.pending
    BY <2>1, <2>2, <2>4, <2>5, Zenon
  <2> QED  BY <1>9, <2>6 DEF t
<1>10. CASE reply.is \in {"Refused", "Failed"}
  <2> DEFINE s == IF d.asked.what = "Sessions" THEN fail_list(d.ui.sel) ELSE fail(d.ui.sel)
  <2> DEFINE u == selector_mut(d.ui, s)
  <2>1. t = [e EXCEPT !.ui = u]
    BY <1>2, <1>10, ZenonT(30) DEF take_answer, e
  <2>2. s \in Sel /\ (s.loading => d.ui.sel.loading /\ d.asked.what # "Sessions")
    BY <1>5, Zenon
  <2> HIDE DEF s
  <2>3. u \in Ui /\ (Loads(u) => Loads(d.ui) /\ d.asked.what # "Sessions")
    BY <1>1, <2>2, SelectorMut DEF Loads
  <2> HIDE DEF t, u
  <2>4. /\ t \in ClientRec /\ t.l = d.l /\ t.ui = u /\ t.pending = d.pending
        /\ t.asked = Nothing /\ t.asking = Nothing /\ t.list_owed = d.list_owed
    BY <1>2, <2>1, <2>3, ZenonT(30) DEF ClientRec
  <2>5. Loads(u) => d.list_owed
    BY <1>1, <2>3, RequestFacts, Zenon DEF ClientOK, Serves
  <2>6. Told(d, t)
    BY <1>1, <2>3, <2>4, <2>5, TellOK
  <2> QED  BY <1>10, <2>4, <2>6 DEF t
<1>11. reply.is \in {"Sessions", "Landed", "Started", "Killed", "Renamed", "Refused",
                     "Failed"}
  BY ZenonT(30) DEF Answer, Reply, Nothing
<1> QED  BY <1>7, <1>8, <1>9, <1>10, <1>11, ZenonT(30)

\* The list that is owed has its turn, and the client is as it should be.
LEMMA AnsweredOK ==
    ASSUME NEW d, ClientOK(d), d.asked # Nothing, NEW reply \in Answer, NEW rows \in RowSet
    PROVE  LET a == answered(d, reply, rows) IN
           /\ ClientOK(a) /\ a.l = d.l
           /\ a.pending = IF reply.is = "Landed" THEN <<>> ELSE d.pending
           /\ {a.asking, a.asked} \subseteq {Nothing, Listing}
<1> DEFINE t == take_answer(d, reply, rows)
<1> DEFINE owed == t.list_owed /\ t.ui.mode = "Sessions" /\ ~asking(t)
<1> DEFINE q == IF owed THEN Listing ELSE t.asking
<1> DEFINE a == answered(d, reply, rows)
<1>1. Told(d, t) /\ t.pending = IF reply.is = "Landed" THEN <<>> ELSE d.pending
  BY TakeAnswerOK
<1>2. a = [t EXCEPT !.list_owed = FALSE, !.asking = q]
  BY DEF answered, Listing
<1> HIDE DEF t, a
<1>3. q \in {Nothing, Listing} /\ (Loads(t.ui) => q = Listing)
  BY <1>1 DEF Told, Loads, asking
<1> HIDE DEF q
<1>4. /\ a \in ClientRec /\ a.l = t.l /\ a.ui = t.ui /\ a.pending = t.pending
      /\ a.asking = q /\ a.asked = t.asked
  BY <1>1, <1>2, <1>3, RequestFacts, ZenonT(30) DEF Told, Calm, ClientRec
<1>5. ClientOK(a)
  BY <1>1, <1>3, <1>4, RequestFacts DEF ClientOK, Calm, Serves, Told
<1> QED  BY <1>1, <1>3, <1>4, <1>5, ZenonT(30) DEF Told, a

\* A list is of some of the sessions, and says something of each.
LEMMA ListingRows ==
    ASSUME Inv, NEW rows \in Listings
    PROVE  rows \in RowSet
<1> DEFINE this == IF h.lobby THEN {} ELSE {c.here}
<1> DEFINE list(S, kind) ==
      [s \in S \cup this |-> IF s = c.here THEN "this" ELSE kind[s]]
<1>1. PICK S \in SUBSET (Sessions \ {c.here}) :
         rows \in {list(S, kind) : kind \in [S -> Kinds]}
  BY Zenon DEF Listings
<1>2. PICK kind \in [S -> Kinds] : rows = list(S, kind)
  BY <1>1, Zenon
<1>3. S \cup this \in SUBSET Sessions
  BY Ends
<1>4. ASSUME NEW s \in S \cup this
      PROVE  (IF s = c.here THEN "this" ELSE kind[s]) \in RowKind
  <2>1. CASE s = c.here
    BY <2>1 DEF RowKind
  <2>2. CASE s # c.here
    <3>1. s \in S
      BY <1>4, <2>2
    <3>2. kind[s] \in Kinds
      BY <3>1
    <3> QED  BY <2>2, <3>2, SessionConstants
  <2> QED  BY <2>1, <2>2
<1> HIDE DEF this
<1>5. rows \in [S \cup this -> RowKind]
  BY <1>2, <1>4
<1> QED  BY <1>3, <1>5, Zenon DEF RowSet

\* An answer is taken.
LEMMA AnsweredInv ==
    ASSUME Inv, NEW reply \in Answer, Answered(reply), UNCHANGED user
    PROVE  Inv' /\ Quiet(c')
<1> DEFINE lists == IF reply.is = "Sessions" THEN Listings ELSE {<<>>}
<1> DEFINE left == {answered(c, reply, rows) : rows \in lists}
<1>1. /\ Lap(left) /\ c.asked # Nothing /\ UNCHANGED <<typed, ended>>
      /\ h' = IF reply.is = "Landed" THEN [Fresh(FALSE) EXCEPT !.attempt = Retargeted]
              ELSE [h EXCEPT !.reply = Nothing]
  BY Zenon DEF Answered
<1>2. lists \subseteq RowSet
  BY ListingRows, RowFacts
<1>3. Nothing \in Reply /\ <<>> \in Seq(KeyRec)
  BY SMTT(30), Z3T(30) DEF Reply, Nothing, Row, NewSession
<1>a. Retargeted \in {"no", "here", "left", "lobby"}
  BY Ends DEF Retargeted, HostRec
<1>4. /\ h' \in HostRec
      /\ reply.is = "Landed" => h'.attempt # "adopted"
      /\ reply.is # "Landed" => h'.attempt = h.attempt
  <2>1. CASE reply.is = "Landed"
    BY <1>1, <1>3, <1>a, <2>1, ZenonT(30) DEF HostRec, Fresh
  <2>2. CASE reply.is # "Landed"
    BY <1>1, <1>3, <2>2, Ends, ZenonT(30) DEF HostRec
  <2> QED  BY <2>1, <2>2, Zenon
<1>5. reply.is = "Landed" => Ordered(<<>>, c.l.held, h', typed)
  <2>1. reply.is = "Landed" => /\ h'.shell \in {h.shell, <<>>} /\ h'.len = h'.written
                               /\ h'.on = "same" /\ h'.written = 0
    BY <1>1, Zenon DEF Fresh
  <2>2. Ordered(c.pending, c.l.held, h, typed)
    BY Ends, ZenonT(30)
  <2> QED  BY <1>4, <2>1, <2>2, SwapOrder, SMTT(30), Z3T(30)
<1>6. reply.is # "Landed" => Ordered(c.pending, c.l.held, h', typed)
  <2>1. reply.is # "Landed" => /\ h'.shell = h.shell /\ h'.len = h.len
                               /\ h'.written = h.written /\ h'.on = h.on
    BY <1>1, Ends, Zenon DEF HostRec
  <2>2. Ordered(c.pending, c.l.held, h, typed)
    BY Ends
  <2> QED  BY <1>4, <2>1, <2>2 DEF Ordered
<1> HIDE DEF lists
<1>7. ASSUME NEW d \in left
      PROVE  ClientOK(d) /\ Quiet(d) /\ Ordered(d.pending, d.l.held, h', typed)
  <2>1. PICK rows \in lists : d = answered(c, reply, rows)
    BY <1>7, Zenon
  <2>2. /\ ClientOK(d) /\ d.l = c.l
        /\ d.pending = IF reply.is = "Landed" THEN <<>> ELSE c.pending
        /\ {d.asking, d.asked} \subseteq {Nothing, Listing}
    <3>1. rows \in RowSet /\ ClientOK(c)
      BY <1>2, <2>1, Ends, Zenon
    <3> QED  BY <1>1, <2>1, <3>1, AnsweredOK
  <2> QED  BY <1>5, <1>6, <2>2 DEF Quiet
<1> HIDE DEF left
<1> QED  BY <1>1, <1>4, <1>7, QuietWake, Zenon

-----------------------------------------------------------------------------
(* The host's steps, and the clock *)

\* A step that leaves the client's keys and requests where they are.
LEMMA HostStep ==
    ASSUME Inv, UNCHANGED <<typed, ended, user>>, h' \in HostRec,
           ClientOK(c'), c'.l.held = c.l.held, c'.pending = c.pending,
           c'.asking = c.asking, c'.asked = c.asked,
           Ordered(c.pending, c.l.held, h', typed)
    PROVE  Inv' /\ Quiet(c')
<1>1. user' \in Users /\ typed' \in 0..user'.keys /\ ended' \in BOOLEAN /\ typed' = typed
  BY DEF Inv
<1>2. (ClientOK(c))'
  BY Zenon DEF ClientOK, Calm, Serves, asking, Loads
<1>3. (Ordered(c.pending, c.l.held, h, typed))'
  BY <1>1, Zenon DEF Ordered, Upto, Sorted, Before
<1> QED  BY <1>1, <1>2, <1>3 DEF Inv, Quiet

\* The client learns what the host has.
LEMMA ThereOK ==
    ASSUME Inv, NEW b \in BOOLEAN
    PROVE  LET d == [c EXCEPT !.there = b] IN
           /\ ClientOK(d) /\ d.l.held = c.l.held /\ d.pending = c.pending
           /\ d.asking = c.asking /\ d.asked = c.asked
<1> DEFINE d == [c EXCEPT !.there = b]
<1>1. /\ d \in ClientRec /\ d.l = c.l /\ d.ui = c.ui /\ d.pending = c.pending
      /\ d.asking = c.asking /\ d.asked = c.asked /\ d.list_owed = c.list_owed
  BY Ends, Zenon DEF ClientRec
<1> HIDE DEF d
<1>2. ClientOK(d)
  BY <1>1, Ends, ZenonT(30) DEF ClientOK, Calm, Serves, asking
<1> QED  BY <1>1, <1>2 DEF d

\* An input state arrives at the host.
LEMMA DrainInv ==
    ASSUME Inv, drain_input, UNCHANGED user
    PROVE  Inv' /\ Quiet(c')
<1>1. PICK n \in h.len..Len(c.pending), newest \in BOOLEAN :
         /\ h' = [h EXCEPT !.len = n, !.written = n,
                           !.shell = IF h.lobby THEN @
                                     ELSE @ \o SubSeq(c.pending, h.written + 1, n)]
         /\ c' = [c EXCEPT !.there = newest]
  BY Zenon DEF drain_input
<1>2. h.on = "same" /\ UNCHANGED <<typed, ended>>
  BY Zenon DEF drain_input
<1>3. h \in HostRec /\ h.len \in Nat /\ h.written = h.len /\ Len(c.pending) \in Nat
  BY Ends, SMTT(30), Z3T(30) DEF HostRec
<1>4. n \in Nat /\ h.written <= n /\ n <= Len(c.pending) /\ h.written \in Nat
  BY <1>1, <1>3, SMTT(30), Z3T(30)
<1>5. /\ h'.len = n /\ h'.written = n /\ h'.on = "same"
      /\ h'.shell \in {h.shell, h.shell \o SubSeq(c.pending, h.written + 1, n)}
      /\ h'.lobby = h.lobby /\ h'.reply = h.reply /\ h'.attempt = h.attempt
  BY <1>1, <1>2, <1>3, Zenon DEF HostRec
<1>6. Before(h.shell, c.pending, h.written) /\ h.attempt # "adopted"
  BY <1>2, Ends, ZenonT(30) DEF Ordered
<1>7. Ordered(c.pending, c.l.held, h', typed) /\ h'.shell \in Seq(KeyRec)
  BY <1>4, <1>5, <1>6, Ends, DrainOrder, Zenon
<1>8. h' \in HostRec
  <2>1. h' = [len |-> h'.len, written |-> h'.written, shell |-> h'.shell,
              lobby |-> h'.lobby, on |-> h'.on, attempt |-> h'.attempt,
              reply |-> h'.reply]
    BY <1>1, <1>3, Zenon DEF HostRec
  <2> QED  BY <1>3, <1>4, <1>5, <1>7, <2>1 DEF HostRec
<1>9. /\ ClientOK(c') /\ c'.l.held = c.l.held /\ c'.pending = c.pending
      /\ c'.asking = c.asking /\ c'.asked = c.asked
  BY <1>1, ThereOK
<1> QED  BY <1>2, <1>7, <1>8, <1>9, HostStep, Zenon

\* The host adopts a link that an attempt brought.
LEMMA AdoptsInv ==
    ASSUME Inv, HostAdopts, UNCHANGED user
    PROVE  Inv' /\ Quiet(c')
<1> DEFINE on == IF h.on \in {"same", "ahead"} THEN "ahead" ELSE "apart"
<1>1. /\ UNCHANGED <<c, typed, ended>>
      /\ h' = [Adopted(on) EXCEPT !.attempt = "adopted"]
  BY Zenon DEF HostAdopts
<1>a. on \in {"ahead", "apart"}
  BY Zenon
<1> HIDE DEF on
<1>2. /\ h' \in HostRec /\ h'.shell = h.shell /\ h'.len = 0 /\ h'.written = 0
      /\ h'.on = on
  BY <1>1, <1>a, Ends, Zenon DEF Adopted, HostRec
<1>3. Ordered(c.pending, c.l.held, h', typed)
  BY <1>a, <1>2, Ends DEF Ordered
<1> QED  BY <1>1, <1>2, <1>3, Ends, HostStep

\* An attempt sends its Attach.
LEMMA AttachSafe ==
    ASSUME Inv, Attach, UNCHANGED user
    PROVE  Inv' /\ Quiet(c')
  BY AttachInv, Ends, HostStep

\* The host follows the client to the standby.
LEMMA PromoteInv ==
    ASSUME Inv, promote_standby, UNCHANGED user
    PROVE  Inv' /\ Quiet(c')
<1>0. h.on = "behind" /\ UNCHANGED <<typed, ended>>
  BY Zenon DEF promote_standby
<1>a. PICK n \in 0..Len(c.pending), newest \in BOOLEAN :
        /\ h' = [Adopted("same") EXCEPT
                   !.len = n, !.written = n,
                   !.shell = IF h.lobby THEN @ ELSE @ \o SubSeq(c.pending, 1, n)]
        /\ c' = [c EXCEPT !.there = newest]
  BY Zenon DEF promote_standby
<1>1. h' = [h EXCEPT !.len = n, !.written = n, !.on = "same",
                     !.shell = IF h.lobby THEN @ ELSE @ \o SubSeq(c.pending, 1, n)]
  BY <1>a, Ends, Zenon DEF Adopted, HostRec
<1>2. n \in Nat /\ n <= Len(c.pending)
  BY <1>a, Ends, SMTT(30), Z3T(30)
<1>3. /\ h'.len = n /\ h'.written = n /\ h'.on = "same"
      /\ h'.shell \in {h.shell, h.shell \o SubSeq(c.pending, 0 + 1, n)}
      /\ h'.lobby = h.lobby /\ h'.reply = h.reply /\ h'.attempt = h.attempt
  <2>1. SubSeq(c.pending, 1, n) = SubSeq(c.pending, 0 + 1, n)
    BY SMTT(30), Z3T(30)
  <2> QED  BY <1>1, <2>1, Ends, ZenonT(30) DEF HostRec
<1>4. Before(h.shell, c.pending, 0) /\ h.attempt # "adopted"
  BY <1>0, Ends, Zenon DEF Ordered
<1>5. Ordered(c.pending, c.l.held, h', typed) /\ h'.shell \in Seq(KeyRec)
  <2>1. 0 \in Nat /\ 0 <= n /\ n <= Len(c.pending)
    BY <1>2, SMTT(30), Z3T(30)
  <2>2. /\ c.pending \in Seq(KeyRec) /\ c.l.held \in Seq(KeyRec) /\ Shows(h)
        /\ Ordered(c.pending, c.l.held, h, typed)
    BY Ends
  <2> QED  BY <1>2, <1>3, <1>4, <2>1, <2>2, DrainOrder, Zenon
<1>6. h' \in HostRec
  <2>1. h' = [len |-> h'.len, written |-> h'.written, shell |-> h'.shell,
              lobby |-> h'.lobby, on |-> h'.on, attempt |-> h'.attempt,
              reply |-> h'.reply]
    BY <1>1, Ends, Zenon DEF HostRec
  <2> QED  BY <1>2, <1>3, <1>5, <2>1, Ends DEF HostRec
<1>7. /\ ClientOK(c') /\ c'.l.held = c.l.held /\ c'.pending = c.pending
      /\ c'.asking = c.asking /\ c'.asked = c.asked
  BY <1>a, ThereOK, Zenon
<1> QED  BY <1>0, <1>5, <1>6, <1>7, HostStep

\* The door serves a request.
LEMMA ServeInv ==
    ASSUME Inv, Serve, UNCHANGED user
    PROVE  Inv' /\ Quiet(c')
<1> DEFINE a == c.asked
<1>1. UNCHANGED <<c, typed, ended>> /\ a # Nothing
  BY Zenon DEF Serve
<1>2. a \in Asks
  BY <1>1, Ends DEF ClientRec, Request
<1> DEFINE Says(r) == r \in Reply /\ h' = [h EXCEPT !.reply = r]
<1>3. \/ \E r : Says(r)
      \/ /\ a.what = "New" /\ h' = [h EXCEPT !.reply = Replies("Started", c.here),
                            !.lobby = FALSE, !.shell = <<>>, !.written = h.len]
      \/ /\ a.what = "Kill" /\ h' = [h EXCEPT !.reply = Replies("Killed", a.id),
                            !.lobby = TRUE, !.shell = <<>>]
  <2>1. /\ Replies("Refused", 0) \in Reply /\ Replies("Sessions", 0) \in Reply
        /\ a.what = "Switch" => Replies("Landed", a.id) \in Reply
        /\ \A s \in Sessions : Replies("Landed", s) \in Reply
        /\ Replies("Killed", a.id) \in Reply /\ Replies("Renamed", a.id) \in Reply
    BY <1>2, Zenon DEF Replies, Reply, Row, NewSession, Asks
  <2> QED  BY <2>1, ZenonT(30) DEF Serve
<1>4. /\ Replies("Started", c.here) \in Reply /\ Replies("Killed", a.id) \in Reply
      /\ <<>> \in Seq(KeyRec)
  <2>1. c.here \in Sessions
    BY Ends, Zenon
  <2>2. Replies("Started", c.here) \in Reply
    BY <2>1, Zenon DEF Replies, Reply, Row
  <2>3. Replies("Killed", a.id) \in Reply
    BY <1>2, Zenon DEF Replies, Reply, Asks
  <2>4. <<>> \in Seq(KeyRec)
    BY SMTT(30), Z3T(30)
  <2> QED  BY <2>2, <2>3, <2>4, Zenon
<1>5. /\ h' \in HostRec /\ h'.len = h.len /\ h'.written = h.written /\ h'.on = h.on
      /\ h'.shell \in {h.shell, <<>>} /\ h'.attempt = h.attempt
  <2>1. CASE \E r : Says(r)
    BY <2>1, Ends DEF HostRec
  <2>2. CASE h' = [h EXCEPT !.reply = Replies("Started", c.here),
                            !.lobby = FALSE, !.shell = <<>>, !.written = h.len]
    BY <1>4, <2>2, Ends, Zenon DEF HostRec
  <2>3. CASE h' = [h EXCEPT !.reply = Replies("Killed", a.id),
                            !.lobby = TRUE, !.shell = <<>>]
    BY <1>4, <2>3, Ends, ZenonT(30) DEF HostRec
  <2> QED  BY <1>3, <2>1, <2>2, <2>3, Zenon
<1>6. Ordered(c.pending, c.l.held, h', typed)
  <2>1. CASE h'.shell = h.shell
    BY <1>5, <2>1, Ends DEF Ordered
  <2>2. CASE h'.shell = <<>>
    BY <1>5, <2>2, Ends, EmptyShellOrder
  <2> QED  BY <1>5, <2>1, <2>2, ZenonT(30)
<1> QED  BY <1>1, <1>5, <1>6, Ends, HostStep, Zenon

\* Time passes.
LEMMA TimeInv ==
    ASSUME Inv, TimePasses, UNCHANGED user
    PROVE  Inv' /\ Quiet(c')
<1>1. /\ UNCHANGED <<h, typed, ended>>
      /\ c' = [c EXCEPT !.l = LinkAges(c.l), !.ui = UiAges(c.ui)]
  BY Zenon DEF TimePasses
<1>2. /\ LinkAges(c.l) \in LinkRec /\ LinkAges(c.l).held = c.l.held
      /\ LinkAges(c.l).phase = c.l.phase
  BY Ends, LinkMoves, Zenon
<1>3. /\ UiAges(c.ui) \in Ui /\ (Loads(UiAges(c.ui)) <=> Loads(c.ui))
  BY Ends, UiAgesUi DEF Loads
<1>4. /\ c' \in ClientRec /\ c'.l = LinkAges(c.l) /\ c'.ui = UiAges(c.ui)
      /\ c'.pending = c.pending /\ c'.asking = c.asking /\ c'.asked = c.asked
      /\ c'.list_owed = c.list_owed
  BY <1>1, <1>2, <1>3, Ends, Zenon DEF ClientRec
<1>5. ClientOK(c')
  BY <1>2, <1>3, <1>4, Ends DEF ClientOK, Calm, Serves, asking
<1>6. c'.l.held = c.l.held /\ h' \in HostRec /\ Ordered(c.pending, c.l.held, h', typed)
  BY <1>1, <1>2, <1>4, Ends
<1> QED  BY <1>1, <1>4, <1>5, <1>6, HostStep

-----------------------------------------------------------------------------
(* The wake that takes the keys *)

\* What leaves the hold, and what goes to the host blind, was answered for.
Released(d) ==
    (~Keeps(c.l.held, d.l.held)
       \/ \E k \in Range(d.pending) \ Range(c.pending) : k.blind)
    => /\ c.l.phase = "Confirming" /\ c.ui.asked_at >= ANSWER_GUARD
       /\ d.l.held = <<>>

\* What is asked for at somebody's cost was put to the user.
Confirmed(d) ==
    \A a \in New(c, d) :
      Risky(a, c.ui.sel) => /\ ~asking(c) /\ c.ui.mode = "Sessions"
                            /\ c.ui.sel.question.id = a.id
                            /\ c.ui.sel.question.what = "Kill" <=> a.what = "Kill"
                            /\ c.ui.sel.question.asked >= ANSWER_GUARD

\* The wakes that take no key release nothing and ask for nothing of the kind.
LEMMA QuietIsSafe ==
    ASSUME NEW d, Quiet(d)
    PROVE  Released(d) /\ Confirmed(d)
<1>1. Released(d)
  <2>1. Keeps(c.l.held, d.l.held)
    BY DEF Quiet, Keeps
  <2>2. Range(d.pending) \ Range(c.pending) = {}
    BY SMTT(30), Z3T(30) DEF Quiet, Range
  <2> QED  BY <2>1, <2>2 DEF Released
<1>2. Confirmed(d)
  BY RequestFacts DEF Confirmed, Quiet, New, Risky
<1> QED  BY <1>1, <1>2, Zenon

\* The lap after the keys adds nothing to either.
LEMMA AlongIsSafe ==
    ASSUME NEW d, NEW e, Along(d, e), Released(d), Confirmed(d)
    PROVE  Released(e) /\ Confirmed(e)
<1>1. Released(e)
  BY ZenonT(30) DEF Along, Released
<1>2. Confirmed(e)
  BY RequestFacts DEF Confirmed, Along, New, Risky
<1> QED  BY <1>1, <1>2, Zenon

\* The keys of a read are numbered on from those before.
LEMMA StampRun ==
    ASSUME typed \in Nat, NEW bytes \in Seq(Byte), NEW blind \in BOOLEAN
    PROVE  /\ Run(Stamp(bytes, blind), typed) /\ Len(Stamp(bytes, blind)) = Len(bytes)
           /\ Stamp(bytes, blind) \in Seq(KeyRec) /\ Len(bytes) \in Nat
           /\ \A i \in DOMAIN Stamp(bytes, blind) : Stamp(bytes, blind)[i].blind = blind
<1> DEFINE stamped(i) == [id |-> typed + i, blind |-> blind]
<1> DEFINE s == Stamp(bytes, blind)
<1>1. Len(bytes) \in Nat
  BY SMTT(30), Z3T(30)
<1>2. \A i \in 1..Len(bytes) : /\ stamped(i) \in KeyRec /\ stamped(i).id = typed + i
                               /\ stamped(i).blind = blind
  BY <1>1, SMTT(30), Z3T(30) DEF KeyRec
<1>3. s = [i \in 1..Len(bytes) |-> stamped(i)]
  BY DEF Stamp
<1> HIDE DEF stamped, s
<1>4. s \in Seq(KeyRec) /\ Len(s) = Len(bytes) /\ DOMAIN s = 1..Len(bytes)
  BY <1>1, <1>2, <1>3, SMTT(30), Z3T(30)
<1>5. \A i \in DOMAIN s : s[i].id = typed + i /\ s[i].blind = blind
  BY <1>2, <1>3, <1>4, Zenon
<1> QED  BY <1>1, <1>4, <1>5 DEF Run, s

\* Keys are held behind those held before, as far as there is room.
LEMMA HoldKeys ==
    ASSUME NEW l \in LinkRec, Len(l.held) <= MAX_HELD, NEW n \in Nat, NEW s, Run(s, n)
    PROVE  LET k == hold_keys(l, s) IN
           /\ k \in LinkRec /\ k.phase = l.phase /\ Len(k.held) <= MAX_HELD
           /\ Keeps(l.held, k.held)
           /\ \E t : Run(t, n) /\ Len(t) <= Len(s) /\ k.held = l.held \o t
           /\ s = <<>> => k.held = l.held
           /\ l.held # <<>> => k.held # <<>>
<1> DEFINE room == MAX_HELD - Len(l.held)
<1> DEFINE m == Min({Len(s), room})
<1> DEFINE t == SubSeq(s, 1, m)
<1> DEFINE k == hold_keys(l, s)
<1>1. l.held \in Seq(KeyRec) /\ s \in Seq(KeyRec)
  BY DEF LinkRec, Run
<1>2. /\ Len(l.held) \in Nat /\ Len(s) \in Nat /\ room \in Nat /\ DOMAIN s = 1..Len(s)
      /\ DOMAIN l.held = 1..Len(l.held)
  BY <1>1, Thresholds, Numbered, SMTT(30), Z3T(30)
<1>3. m \in Nat /\ m <= Len(s) /\ m <= room
  BY <1>2, MinPair, SMTT(30), Z3T(30)
<1>4. k = [l EXCEPT !.held = l.held \o t]
  BY DEF hold_keys
<1> HIDE DEF m
<1>5. t \in Seq(KeyRec) /\ Len(t) = m /\ DOMAIN t = 1..m /\ \A i \in 1..m : t[i] = s[i]
  BY <1>1, <1>2, <1>3, SMTT(30), Z3T(30)
<1> HIDE DEF t, k
<1>6. Run(t, n)
  BY <1>2, <1>3, <1>5, SMTT(30), Z3T(30) DEF Run
<1>7. /\ l.held \o t \in Seq(KeyRec) /\ Len(l.held \o t) = Len(l.held) + m
      /\ \A i \in DOMAIN l.held : i \in DOMAIN (l.held \o t) /\ (l.held \o t)[i] = l.held[i]
  BY <1>1, <1>5, Joined, Zenon
<1>8. k \in LinkRec /\ k.phase = l.phase /\ k.held = l.held \o t
  BY <1>4, <1>7, Zenon DEF LinkRec
<1>9. Len(k.held) <= MAX_HELD
  BY <1>2, <1>3, <1>7, <1>8, Thresholds, SMTT(30), Z3T(30)
<1>10. Keeps(l.held, k.held)
  BY <1>7, <1>8 DEF Keeps
<1>11. s = <<>> => k.held = l.held
  <2> SUFFICES ASSUME s = <<>>  PROVE k.held = l.held
    OBVIOUS
  <2>1. m = 0 /\ t = <<>>
    BY <1>2, <1>3, <1>5, SMTT(30), Z3T(30)
  <2> QED  BY <1>1, <1>8, <2>1, SMTT(30), Z3T(30)
<1>12. l.held # <<>> => k.held # <<>>
  <2>1. l.held # <<>> => Len(l.held) > 0
    BY <1>1, SMTT(30), Z3T(30)
  <2>2. Len(k.held) = Len(l.held) + m
    BY <1>7, <1>8
  <2>3. Len(<<>>) = 0
    OBVIOUS
  <2> QED  BY <1>2, <1>3, <2>1, <2>2, <2>3, SMTT(30), Z3T(30)
<1>13. \E x : Run(x, n) /\ Len(x) <= Len(s) /\ k.held = l.held \o x
  BY <1>3, <1>5, <1>6, <1>8, ZenonT(30)
<1> QED  BY <1>8, <1>9, <1>10, <1>11, <1>12, <1>13, Zenon DEF k

\* The read as it is routed, and the client once its keys are held or sent.
ReadCtx == [live |-> c.l.phase = "Live", lobby |-> c.in_lobby, busy |-> asking(c)]

Held(r) ==
    [c EXCEPT !.ui = r.ui, !.l = hold_keys(@, Stamp(r.to_hold, TRUE))]

Sent(r) ==
    IF r.to_host = <<>> THEN Held(r) ELSE Publish(Held(r), Stamp(r.to_host, FALSE))

\* What a read of n keys, of which r came, leaves of the client.
Routed(r, n, e) ==
    /\ Calm(e) /\ e.ui = r.ui /\ e.l.phase = c.l.phase
    /\ e.asking = c.asking /\ e.asked = c.asked /\ e.list_owed = c.list_owed
    /\ Ordered(e.pending, e.l.held, h, typed + n)
    /\ Keeps(c.l.held, e.l.held)
    /\ \A k \in Range(e.pending) \ Range(c.pending) : ~k.blind

\* Keys that are held.
LEMMA HeldRouted ==
    ASSUME Inv, NEW r \in ReadingRec, r.to_hold # <<>> => is_outage(c.l.phase)
    PROVE  /\ Routed(r, Len(r.to_hold), Held(r)) /\ Held(r).pending = c.pending
           /\ r.to_hold = <<>> => Held(r).l.held = c.l.held
<1> DEFINE s == Stamp(r.to_hold, TRUE)
<1> DEFINE k == hold_keys(c.l, s)
<1> DEFINE d == Held(r)
<1>1. r.to_hold \in Seq(Byte) /\ r.ui \in Ui
  BY DEF ReadingRec
<1>2. Run(s, typed) /\ Len(s) = Len(r.to_hold) /\ Len(s) \in Nat /\ s \in Seq(KeyRec)
  <2>1. typed \in Nat /\ TRUE \in BOOLEAN
    BY Ends
  <2> QED  BY <1>1, <2>1, StampRun, ZenonT(30)
<1> HIDE DEF s
<1>3. Len(c.l.held) <= MAX_HELD
  BY Ends DEF Calm
<1>4. /\ k \in LinkRec /\ k.phase = c.l.phase /\ Len(k.held) <= MAX_HELD
      /\ Keeps(c.l.held, k.held)
      /\ \E t : Run(t, typed) /\ Len(t) <= Len(s) /\ k.held = c.l.held \o t
      /\ s = <<>> => k.held = c.l.held
      /\ c.l.held # <<>> => k.held # <<>>
  BY <1>2, <1>3, HoldKeys, Ends, Zenon
<1>5. d = [c EXCEPT !.ui = r.ui, !.l = k]
  BY DEF Held, s
<1> HIDE DEF k, d
<1>6. /\ d \in ClientRec /\ d.l = k /\ d.ui = r.ui /\ d.pending = c.pending
      /\ d.asking = c.asking /\ d.asked = c.asked /\ d.list_owed = c.list_owed
  BY <1>1, <1>4, <1>5, Ends, ZenonT(30) DEF ClientRec
<1>7. r.to_hold = <<>> => k.held = c.l.held
  <2>1. r.to_hold = <<>> => s = <<>>
    BY <1>2, SMTT(30), Z3T(30)
  <2> QED  BY <1>4, <2>1
<1>8. k.held # <<>> => k.phase # "Live"
  <2>1. CASE r.to_hold = <<>>
    BY <1>4, <1>7, <2>1, Ends, Zenon DEF Calm
  <2>2. CASE r.to_hold # <<>>
    BY <1>4, <2>2, Zenon DEF is_outage
  <2> QED  BY <2>1, <2>2
<1>9. Calm(d)
  BY <1>4, <1>6, <1>8, Ends, Zenon DEF Calm
<1>10. Ordered(c.pending, k.held, h, typed + Len(s))
  <2>1. PICK t : Run(t, typed) /\ Len(t) <= Len(s) /\ k.held = c.l.held \o t
    BY <1>4, ZenonT(30)
  <2>2. Ordered(c.pending, c.l.held \o t, h, typed + Len(s))
    BY <1>2, <2>1, HoldOrder, Ends, ZenonT(30)
  <2> QED  BY <2>1, <2>2, ZenonT(30)
<1>11. Range(d.pending) \ Range(c.pending) = {}
  BY <1>6, Zenon
<1> QED  BY <1>2, <1>4, <1>6, <1>7, <1>9, <1>10, <1>11, Zenon DEF Routed, d

\* Keys that are sent.
LEMMA SentRouted ==
    ASSUME Inv, NEW r \in ReadingRec, r.to_hold # <<>> => is_outage(c.l.phase),
           r.to_host # <<>> => c.l.phase = "Live"
    PROVE  Routed(r, Len(r.to_host) + Len(r.to_hold), Sent(r))
<1> DEFINE d == Held(r)
<1>1. /\ Routed(r, Len(r.to_hold), d) /\ d.pending = c.pending
      /\ r.to_hold = <<>> => d.l.held = c.l.held
  BY HeldRouted
<1> HIDE DEF d
<1>2. r.to_host \in Seq(Byte) /\ r.to_hold \in Seq(Byte)
  BY DEF ReadingRec
<1>3. CASE r.to_host = <<>>
  <2>1. Len(r.to_host) + Len(r.to_hold) = Len(r.to_hold) /\ Sent(r) = d
    BY <1>2, <1>3, SMTT(30), Z3T(30) DEF Sent, d
  <2> QED  BY <1>1, <2>1, Zenon
<1>4. CASE r.to_host # <<>>
  <2> DEFINE s == Stamp(r.to_host, FALSE)
  <2> DEFINE e == Publish(d, s)
  <2>1. r.to_hold = <<>> /\ c.l.held = <<>>
    BY <1>4, Ends DEF is_outage, Calm
  <2>2. d.l.held = <<>>
    BY <1>1, <2>1, Zenon
  <2>3. /\ Run(s, typed) /\ Len(s) = Len(r.to_host) /\ s \in Seq(KeyRec)
        /\ \A i \in DOMAIN s : s[i].blind = FALSE
    BY <1>2, StampRun, Ends, ZenonT(30)
  <2> HIDE DEF s
  <2>4. s \in Seq(KeyRec) /\ Len(s) \in Nat /\ Len(r.to_hold) = 0
    <3>1. Len(r.to_host) \in Nat
      BY <1>2, SMTT(30), Z3T(30)
    <3>2. Len(r.to_hold) = 0
      BY <2>1, SMTT(30), Z3T(30)
    <3> QED  BY <2>3, <3>1, <3>2, Zenon
  <2>5. /\ Calm(e) /\ e.pending = c.pending \o s /\ e.l = d.l /\ e.ui = d.ui
        /\ e.asking = d.asking /\ e.asked = d.asked /\ e.list_owed = d.list_owed
    BY <1>1, <2>4, PublishOK, ZenonT(30) DEF Routed
  <2> HIDE DEF e
  <2>6. Ordered(c.pending \o s, <<>>, h, typed + Len(s))
    <3>1. Ordered(c.pending, <<>>, h, typed)
      BY <2>1, Ends, Zenon
    <3>2. <<>> \in Seq(KeyRec) /\ c.pending \in Seq(KeyRec) /\ Shows(h) /\ typed \in Nat
      BY Ends, SMTT(30), Z3T(30)
    <3>3. Len(s) <= Len(s)
      BY <2>4, SMTT(30), Z3T(30)
    <3> QED  BY <2>3, <2>4, <3>1, <3>2, <3>3, PublishOrder, Zenon
  <2>7. ASSUME NEW k \in Range(e.pending) \ Range(c.pending)  PROVE ~k.blind
    <3>1. PICK j \in DOMAIN (c.pending \o s) : k = (c.pending \o s)[j]
      BY <2>5, <2>7, Zenon DEF Range
    <3>2. \/ j \in DOMAIN c.pending /\ (c.pending \o s)[j] = c.pending[j]
          \/ /\ j - Len(c.pending) \in DOMAIN s
             /\ (c.pending \o s)[j] = s[j - Len(c.pending)]
      BY <2>4, Joined, Ends, ZenonT(30)
    <3>3. k \notin Range(c.pending)
      BY <2>7
    <3>4. ~(j \in DOMAIN c.pending /\ (c.pending \o s)[j] = c.pending[j])
      BY <3>1, <3>3, Zenon DEF Range
    <3>5. PICK i \in DOMAIN s : k = s[i]
      BY <3>1, <3>2, <3>4, Zenon
    <3> QED  BY <2>3, <3>5, Zenon
  <2>8. Len(r.to_host) + Len(r.to_hold) = Len(s) /\ Sent(r) = e
    <3>1. Len(r.to_host) + Len(r.to_hold) = Len(s)
      BY <2>3, <2>4, SMTT(30), Z3T(30)
    <3>2. Sent(r) = e
      BY <1>4, Zenon DEF Sent, d, e, s
    <3> QED  BY <3>1, <3>2, Zenon
  <2>9. Routed(r, Len(s), e)
    BY <1>1, <2>2, <2>5, <2>6, <2>7, Zenon DEF Routed
  <2> QED  BY <2>8, <2>9, Zenon
<1> QED  BY <1>3, <1>4, Zenon

\* A change of the configuration leaves the selector alone.
LEMMA ConfigOK ==
    ASSUME Inv, NEW e, Calm(e), NEW what, NEW d \in config_command(e, what)
    PROVE  \E u \in Ui : d = [e EXCEPT !.ui = u] /\ (Loads(u) => Loads(e.ui))
<1> DEFINE v == e.ui
<1>1. v \in Ui /\ e \in ClientRec
  BY DEF Calm, ClientRec
<1> DEFINE ok(u) == u \in Ui /\ (Loads(u) => Loads(v))
<1>2. ASSUME NEW x \in Editing  PROVE ok(open_editing(v, x))
  BY <1>1 DEF open_editing, Ui, Loads
<1>3. {"Text", "Capture", "Servers", "None"} \subseteq Editing
  BY Zenon DEF Editing
<1>4. ok(accepted(v))
  BY <1>2, <1>3 DEF accepted
<1>5. ASSUME NEW u, ok(u), NEW k \in {"key", "off"}
      PROVE  ok([u EXCEPT !.key = k])
  BY <1>5 DEF Ui, Loads
<1>6. e = [e EXCEPT !.ui = v] /\ ok(v)
  BY <1>1 DEF ClientRec
<1> DEFINE set == {[v EXCEPT !.auto_open = auto_open] :
                     auto_open \in {v.auto_open, user.auto_open, None}}
<1>a. ASSUME NEW u \in set  PROVE ok(u) /\ ok(accepted(u))
  <2>1. {v.auto_open, user.auto_open, None} \subseteq MaybeAge
    BY <1>1, SessionConstants, Thresholds DEF Inv, Ui
  <2>2. PICK auto_open \in {v.auto_open, user.auto_open, None} :
          u = [v EXCEPT !.auto_open = auto_open]
    BY <1>a, Zenon
  <2>3. auto_open \in MaybeAge
    BY <2>1, <2>2, Zenon
  <2>4. u \in Ui /\ u.mode = v.mode /\ u.sel = v.sel
    BY <1>1, <2>2, <2>3, ZenonT(30) DEF Ui
  <2>5. ok(u)
    BY <2>4 DEF Loads
  <2>6. accepted(u) \in Ui /\ (Loads(accepted(u)) => Loads(u))
    BY <1>3, <2>4 DEF accepted, open_editing, Ui, Loads
  <2> QED  BY <2>5, <2>6, Zenon
<1>7. \/ \E x \in {"Text", "Capture", "Servers", "None"} :
           d = [e EXCEPT !.ui = open_editing(v, x)]
      \/ \E k \in {"key", "off"} : d = [e EXCEPT !.ui = [accepted(v) EXCEPT !.key = k]]
      \/ \E k \in {"key", "off"} : d = [e EXCEPT !.ui = [v EXCEPT !.key = k]]
      \/ d = e \/ d = [e EXCEPT !.ui = accepted(v)]
      \/ \E u \in set : d \in {[e EXCEPT !.ui = u], [e EXCEPT !.ui = accepted(u)]}
  <2>1. CASE what \in {"Edit", "CaptureOff", "Capture", "Save"}
    BY <2>1, ZenonT(30) DEF config_command
  <2>2. CASE what = "Reset"
    <3>1. \/ d = e
          \/ \E u \in set \cup {[v EXCEPT !.key = "key"]} : d = [e EXCEPT !.ui = u]
      BY <2>2, ZenonT(30) DEF config_command
    <3> HIDE DEF set
    <3> QED  BY <3>1, Zenon
  <2>3. CASE what \notin {"Edit", "CaptureOff", "Capture", "Save", "Reset"}
    <3>1. d = e \/ \E u \in set : d = [e EXCEPT !.ui = accepted(u)]
      BY <2>3, ZenonT(30) DEF config_command
    <3> HIDE DEF set
    <3> QED  BY <3>1, Zenon
  <2> QED  BY <2>1, <2>2, <2>3, Zenon
<1> HIDE DEF v, set
<1>8. ASSUME NEW u, ok(u), d = [e EXCEPT !.ui = u]
      PROVE  \E w \in Ui : d = [e EXCEPT !.ui = w] /\ (Loads(w) => Loads(e.ui))
  BY <1>8, Zenon DEF v
<1> HIDE DEF ok
<1>9. CASE \E x \in {"Text", "Capture", "Servers", "None"} :
             d = [e EXCEPT !.ui = open_editing(v, x)]
  BY <1>2, <1>3, <1>8, <1>9
<1>10. CASE \E k \in {"key", "off"} : d = [e EXCEPT !.ui = [accepted(v) EXCEPT !.key = k]]
  BY <1>4, <1>5, <1>8, <1>10, Zenon
<1>11. CASE \E k \in {"key", "off"} : d = [e EXCEPT !.ui = [v EXCEPT !.key = k]]
  BY <1>5, <1>6, <1>8, <1>11, Zenon
<1>12. CASE d = e \/ d = [e EXCEPT !.ui = accepted(v)]
  BY <1>4, <1>6, <1>8, <1>12, Zenon
<1>13. CASE \E u \in set :
              d \in {[e EXCEPT !.ui = u], [e EXCEPT !.ui = accepted(u)]}
  BY <1>a, <1>8, <1>13, Zenon
<1> QED  BY <1>7, <1>9, <1>10, <1>11, <1>12, <1>13, ZenonT(30)

\* The popup a read found.
Found == Questioned(c.ui, c.l.phase)

\* What a command leaves of the client that the keys before it left so.
Obeyed(n, d) ==
    /\ ClientOK(d) /\ Ordered(d.pending, d.l.held, h, typed + n)
    /\ Released(d) /\ Confirmed(d)

\* Keys with no command after them, or one that ends the client or changes how
\* it is configured.
LEMMA PlainObeyed ==
    ASSUME Inv, NEW r, ReadEnd(Found, c.l.phase, ReadCtx, r), NEW n, NEW e, Routed(r, n, e),
           r.command # Listing, NEW u \in Ui, Loads(u) => Loads(r.ui),
           NEW d, d = [e EXCEPT !.ui = u]
    PROVE  Obeyed(n, d)
<1>1. Loads(r.ui) => Loads(c.ui)
  BY QuestionedUi, Ends DEF ReadEnd, Listing, Found
<1>2. /\ d \in ClientRec /\ d.l = e.l /\ d.ui = u /\ d.pending = e.pending
      /\ d.asking = e.asking /\ d.asked = e.asked /\ d.list_owed = e.list_owed
  BY DEF Routed, Calm, ClientRec
<1>3. ClientOK(d)
  <2>1. Calm(d)
    BY <1>2 DEF Routed, Calm
  <2>2. Serves(d)
    BY <1>1, <1>2, Ends DEF Routed, ClientOK, Serves, asking
  <2> QED  BY <2>1, <2>2 DEF ClientOK
<1>4. Ordered(d.pending, d.l.held, h, typed + n) /\ Released(d)
  BY <1>2 DEF Routed, Released
<1>5. Confirmed(d)
  BY <1>2, Zenon DEF Routed, Confirmed, New
<1> QED  BY <1>3, <1>4, <1>5 DEF Obeyed

\* The answer to the question about what is held.
LEMMA ReleaseObeyed ==
    ASSUME Inv, NEW r, ReadEnd(Found, c.l.phase, ReadCtx, r), NEW n, NEW e, Routed(r, n, e),
           r.command.is \in {"SendHeld", "DropHeld"},
           NEW d \in Commanded(e, r.command)
    PROVE  Obeyed(n, d)
<1> DEFINE p == Publish(e, e.l.held)
<1> DEFINE x == [p EXCEPT !.l = take_held(e.l)]
<1> DEFINE y == [e EXCEPT !.l = drop_held(e.l)]
<1>1. c.l.phase = "Confirming" /\ c.ui.asked_at >= ANSWER_GUARD
  <2>1. answerable(Found)
    BY Zenon DEF ReadEnd, Given
  <2> QED  BY <2>1, QuestionedUi, Ends, ZenonT(30) DEF Found
<1>2. d \in {x, y}
  BY Zenon DEF Commanded
<1>3. /\ e \in ClientRec /\ e.l \in LinkRec /\ e.l.held \in Seq(KeyRec)
      /\ e.pending \in Seq(KeyRec) /\ Calm(e)
  BY ZenonT(30) DEF Routed, Calm, ClientRec, LinkRec
<1>4. /\ take_held(e.l) \in LinkRec /\ take_held(e.l).held = <<>>
      /\ take_held(e.l).phase = "Live"
      /\ drop_held(e.l) \in LinkRec /\ drop_held(e.l).held = <<>>
      /\ drop_held(e.l).phase = "Live"
  BY <1>3, LinkReleased, ZenonT(30)
<1>5. /\ Calm(p) /\ p.pending = e.pending \o e.l.held /\ p.ui = e.ui
      /\ p.asking = e.asking /\ p.asked = e.asked /\ p.list_owed = e.list_owed
  BY <1>3, PublishOK, Zenon
<1> HIDE DEF p
<1>6. /\ x \in ClientRec /\ x.l = take_held(e.l) /\ x.pending = e.pending \o e.l.held
      /\ x.ui = e.ui /\ x.asking = e.asking /\ x.asked = e.asked
      /\ x.list_owed = e.list_owed
  BY <1>4, <1>5, Zenon DEF Calm, ClientRec
<1>7. /\ y \in ClientRec /\ y.l = drop_held(e.l) /\ y.pending = e.pending
      /\ y.ui = e.ui /\ y.asking = e.asking /\ y.asked = e.asked
      /\ y.list_owed = e.list_owed
  BY <1>3, <1>4 DEF ClientRec
<1> HIDE DEF x, y
<1>8. /\ d \in ClientRec /\ d.l \in LinkRec /\ d.l.held = <<>> /\ d.l.phase = "Live"
      /\ d.ui = e.ui /\ d.asking = e.asking /\ d.asked = e.asked
      /\ d.list_owed = e.list_owed
      /\ d.pending \in {e.pending, e.pending \o e.l.held}
  BY <1>2, <1>4, <1>6, <1>7, ZenonT(30)
<1>9. Calm(d)
  <2>1. Len(<<>>) <= MAX_HELD
    BY Thresholds, SMTT(30), Z3T(30)
  <2> QED  BY <1>3, <1>8, <2>1, ZenonT(30) DEF Calm
<1>10. Serves(d)
  <2>1. Loads(e.ui) => Loads(c.ui)
    <3>1. r.command # Listing
      BY ListingIsAsked, Zenon
    <3> QED  BY <3>1, QuestionedUi, Ends, ZenonT(30) DEF Routed, ReadEnd, Listing, Found
  <2> QED  BY <1>8, <2>1, Ends, ZenonT(30) DEF Routed, ClientOK, Serves, asking
<1>11. Ordered(d.pending, d.l.held, h, typed + n)
  <2>1. Ordered(e.pending, e.l.held, h, typed + n) /\ Shows(h)
    BY Ends, ZenonT(30) DEF Routed
  <2>2. /\ Ordered(e.pending \o e.l.held, <<>>, h, typed + n)
        /\ Ordered(e.pending, <<>>, h, typed + n)
    BY <1>3, <2>1, ReleaseOrder, Zenon
  <2> QED  BY <1>8, <2>2, ZenonT(30)
<1>12. Released(d)
  BY <1>1, <1>8, ZenonT(30) DEF Released
<1>13. Confirmed(d)
  BY <1>8, Zenon DEF Routed, Confirmed, New
<1> QED  BY <1>9, <1>10, <1>11, <1>12, <1>13, ZenonT(30) DEF Obeyed, ClientOK

\* A request the selector makes.
LEMMA AskObeyed ==
    ASSUME Inv, NEW r, ReadEnd(Found, c.l.phase, ReadCtx, r), NEW n, NEW e, Routed(r, n, e),
           r.command.is = "Ask", NEW d \in Commanded(e, r.command)
    PROVE  Obeyed(n, d)
<1>1. CASE r.command = Listing
  <2>1. d = fetch_list(e)
    BY <1>1, SMTT(30), Z3T(30) DEF Commanded, Listing, Asked
  <2>2. ClientOK(d) /\ Along(e, d)
    BY <2>1, FetchOK, ZenonT(30) DEF Routed
  <2>3. Released(e) /\ Confirmed(e)
    BY ZenonT(30) DEF Routed, Released, Confirmed, New
  <2>4. Released(d) /\ Confirmed(d)
    BY <2>2, <2>3, AlongIsSafe, Zenon
  <2>5. Ordered(d.pending, d.l.held, h, typed + n)
    BY <2>2, ZenonT(30) DEF Along, Routed
  <2> QED  BY <2>2, <2>4, <2>5 DEF Obeyed
<1>2. CASE r.command # Listing
  <2> DEFINE a == r.command
  <2>1. Found.mode = "Sessions" /\ Meant(Found.sel, ReadCtx, a)
    BY <1>2, ZenonT(30) DEF ReadEnd, Given, Listing
  <2>2. Found.mode = c.ui.mode /\ Found.sel = c.ui.sel
    BY <2>1, QuestionedUi, Ends, ZenonT(30) DEF Found
  <2>3. ~asking(c) /\ a \in Asks /\ a.what # "Sessions"
    BY <2>1, ZenonT(30) DEF Meant, ReadCtx
  <2>4. c.asking = Nothing /\ c.asked = Nothing /\ ~asking(e)
    BY <2>3, Zenon DEF asking, Routed
  <2>5. d = [e EXCEPT !.asking = a]
    BY <2>3, <2>4, ZenonT(30) DEF Commanded, Asks
  <2>6. a \in Request /\ a # Nothing
    BY <2>3, RequestFacts DEF Asks, Nothing
  <2>7. /\ d \in ClientRec /\ d.l = e.l /\ d.ui = e.ui /\ d.pending = e.pending
        /\ d.asking = a /\ d.asked = Nothing
    BY <2>4, <2>5, <2>6, Zenon DEF Routed, Calm, ClientRec
  <2>8. Calm(d)
    BY <2>7, ZenonT(30) DEF Routed, Calm
  <2>9. ~Loads(d.ui)
    <3>1. Loads(e.ui) => Loads(c.ui)
      BY <1>2, QuestionedUi, Ends, ZenonT(30) DEF Routed, ReadEnd, Listing, Found
    <3>2. ~Loads(c.ui)
      BY <2>3, <2>4, RequestFacts, Ends, ZenonT(30) DEF ClientOK, Serves
    <3> QED  BY <2>7, <3>1, <3>2, Zenon
  <2>10. Released(d) /\ Ordered(d.pending, d.l.held, h, typed + n)
    BY <2>7, ZenonT(30) DEF Routed, Released
  <2>11. Confirmed(d)
    <3> SUFFICES ASSUME NEW b \in New(c, d), Risky(b, c.ui.sel)
                 PROVE  /\ c.ui.sel.question.id = b.id
                        /\ c.ui.sel.question.what = "Kill" <=> b.what = "Kill"
                        /\ c.ui.sel.question.asked >= ANSWER_GUARD
      BY <2>1, <2>2, <2>3, ZenonT(30) DEF Confirmed
    <3>1. b = a
      BY <2>7, Zenon DEF New
    <3> QED  BY <2>1, <2>2, <3>1, ZenonT(30) DEF Meant, Agreed, Risky, Listed
  <2> QED  BY <2>8, <2>9, <2>10, <2>11, ZenonT(30) DEF Obeyed, ClientOK, Serves
<1> QED  BY <1>1, <1>2, ZenonT(30)

\* What a command may be.
LEMMA CommandKinds ==
    \A k \in Command : k.is \in {"no", "Ask", "Quit", "SendHeld", "DropHeld", "Config"}
  BY SMTT(30), Z3T(30) DEF Command, Asks, Orders, Nothing

\* Every command.
LEMMA CommandObeyed ==
    ASSUME Inv, NEW r, ReadEnd(Found, c.l.phase, ReadCtx, r), NEW n, NEW e, Routed(r, n, e)
    PROVE  /\ \A d \in Commanded(e, r.command) : Obeyed(n, d)
           /\ r.command.is = "Quit" => Obeyed(n, e)
<1>1. r.command \in Command /\ r.ui \in Ui
  BY Zenon DEF ReadEnd, ReadingRec
<1>2. r.command.is \in {"no", "Ask", "Quit", "SendHeld", "DropHeld", "Config"}
  BY <1>1, CommandKinds, Zenon
<1>3. r.command.is # "Ask" => r.command # Listing
  BY ListingIsAsked, Zenon
<1>4. e = [e EXCEPT !.ui = r.ui] /\ e \in ClientRec /\ Calm(e) /\ e.ui = r.ui
  BY DEF Routed, Calm, ClientRec
<1>5. r.command.is # "Ask" => Obeyed(n, e)
  BY <1>1, <1>3, <1>4, PlainObeyed
<1>6. ASSUME NEW d \in Commanded(e, r.command)  PROVE Obeyed(n, d)
  <2>1. CASE r.command.is \in {"SendHeld", "DropHeld"}
    BY <1>6, <2>1, ReleaseObeyed, ZenonT(30)
  <2>2. CASE r.command.is = "Ask"
    BY <1>6, <2>2, AskObeyed
  <2>3. CASE r.command.is = "Config"
    <3>1. d \in config_command(e, r.command.what)
      BY <1>6, <2>3 DEF Commanded
    <3>2. PICK u \in Ui : d = [e EXCEPT !.ui = u] /\ (Loads(u) => Loads(e.ui))
      BY <1>4, <3>1, ConfigOK, SMTT(30), Z3T(30)
    <3>3. r.command # Listing
      BY <1>3, <2>3, Zenon
    <3> QED  BY <1>4, <3>2, <3>3, PlainObeyed
  <2>4. CASE r.command.is \in {"no", "Quit"}
    <3>1. d = e
      BY <1>6, <2>4, Zenon DEF Commanded
    <3> QED  BY <1>5, <2>4, <3>1
  <2> QED  BY <1>2, <2>1, <2>2, <2>3, <2>4, ZenonT(30)
<1> QED  BY <1>5, <1>6, Zenon

\* A read of the keyboard.
LEMMA RouteKeysInv ==
    ASSUME Inv, NEW read \in user.reads, route_keys(read), UNCHANGED user
    PROVE  Inv' /\ Released(c') /\ Confirmed(c')
<1> DEFINE r == keys(c.ui, read, c.l.phase, ReadCtx)
<1> DEFINE n == Len(r.to_host) + Len(r.to_hold)
<1> DEFINE e == Sent(r)
<1>1. /\ typed + n <= user.keys /\ typed' = typed + n /\ h' = h
      /\ IF r.command.is = "Quit" THEN c' = e /\ ended' = TRUE
         ELSE Lap(Commanded(e, r.command)) /\ UNCHANGED ended
  BY ZenonT(30) DEF route_keys, ReadCtx, Sent, Held
<1>2. read \in Seq(Byte) /\ Len(read) \in {1, 2} /\ user.keys \in Nat
  BY SessionConstants DEF Inv, Byte
<1>3. c.ui \in Ui /\ c.l.phase \in Phase
  BY Ends, Zenon DEF LinkRec
<1>4. ReadEnd(Found, c.l.phase, ReadCtx, r)
  BY <1>2, <1>3, KeysRead DEF Found
<1> HIDE DEF r
<1>5. r \in ReadingRec /\ n \in Nat
  <2>1. r \in ReadingRec
    BY <1>4 DEF ReadEnd
  <2>2. r.to_host \in Seq(Byte) /\ r.to_hold \in Seq(Byte)
    BY <2>1 DEF ReadingRec
  <2>3. Len(r.to_host) \in Nat /\ Len(r.to_hold) \in Nat
    BY <2>2, SMTT(30), Z3T(30)
  <2>4. \A a, b \in Nat : a + b \in Nat
    BY SMTT(30), Z3T(30)
  <2>5. n \in Nat
    BY <2>3, <2>4, ZenonT(30)
  <2> QED  BY <2>1, <2>5, Zenon
<1>6. Routed(r, n, e)
  BY <1>4, <1>5, SentRouted, Zenon DEF ReadEnd
<1> HIDE DEF n, e
<1>7. /\ \A d \in Commanded(e, r.command) : Obeyed(n, d)
      /\ r.command.is = "Quit" => Obeyed(n, e)
  BY <1>4, <1>6, CommandObeyed, Zenon
<1>8. \E d : /\ Obeyed(n, d) /\ Along(d, c') /\ ClientOK(c')
  <2>1. CASE r.command.is = "Quit"
    <3>1. Obeyed(n, c') /\ Along(c', c')
      BY <1>1, <1>7, <2>1 DEF Along
    <3> QED  BY <3>1, Zenon DEF Obeyed
  <2>2. CASE r.command.is # "Quit"
    <3> DEFINE left == Commanded(e, r.command)
    <3>1. Lap(left)
      BY <1>1, <2>2, Zenon
    <3>2. \A d \in left : Obeyed(n, d) /\ ClientOK(d)
      BY <1>7, Zenon DEF Obeyed
    <3> HIDE DEF left
    <3> QED  BY <3>1, <3>2, LapOK, Zenon
  <2> QED  BY <2>1, <2>2
<1>9. PICK d : Obeyed(n, d) /\ Along(d, c') /\ ClientOK(c')
  BY <1>8, Zenon
<1>10. Released(c') /\ Confirmed(c')
  BY <1>9, AlongIsSafe, Zenon DEF Obeyed
<1>11. c'.pending = d.pending /\ c'.l.held = d.l.held
  BY <1>9, Zenon DEF Along
<1>12. (Ordered(c.pending, c.l.held, h, typed))'
  <2>1. Ordered(c'.pending, c'.l.held, h', typed')
    BY <1>1, <1>9, <1>11, ZenonT(30) DEF Obeyed
  <2> QED  BY <2>1, ZenonT(30) DEF Ordered, Upto, Sorted, Before
<1>13. (ClientOK(c))'
  BY <1>9, ZenonT(30) DEF ClientOK, Calm, Serves, asking, Loads
<1>14. /\ user' \in Users /\ h' \in HostRec /\ ended' \in BOOLEAN
       /\ typed' \in 0..user'.keys
  <2>1. user' = user /\ user \in Users /\ ended \in BOOLEAN /\ h \in HostRec
    BY DEF Inv
  <2>2. typed + n \in 0..user.keys
    BY <1>1, <1>2, <1>5, Ends, SMTT(30), Z3T(30)
  <2> QED  BY <1>1, <2>1, <2>2, Zenon
<1> QED  BY <1>10, <1>12, <1>13, <1>14, Zenon DEF Inv

-----------------------------------------------------------------------------
(* The theorems *)

\* The client begins with nothing typed and nothing asked for, or in a lobby
\* with the list that its selector waits for.
LEMMA InitInv ==
    ASSUME Init
    PROVE  Inv
<1>1. PICK lobby \in BOOLEAN :
        LET u == new_ui(user.auto_open) IN
        /\ c = [l |-> new_link, ui |-> IF lobby THEN open_sessions(u) ELSE u,
                pending |-> <<>>, unacked |-> TRUE, there |-> FALSE,
                asking |-> IF lobby THEN Asked("Sessions", 0) ELSE Nothing,
                asked |-> Nothing, list_owed |-> FALSE,
                in_lobby |-> lobby, here |-> 1]
        /\ h = Fresh(lobby)
  BY Zenon DEF Init
<1>2. user \in Users /\ typed = 0 /\ ended = FALSE
  BY DEF Init
<1>3. user.keys \in Nat /\ user.auto_open \in MaybeAge /\ 1 \in Sessions
  BY <1>2, SessionConstants, Zenon
<1> DEFINE u == new_ui(user.auto_open)
<1> DEFINE v == IF lobby THEN open_sessions(u) ELSE u
<1>4. u \in Ui /\ u.mode = "Closed"
  <2>1. "Closed" \in Mode /\ "None" \in Editing /\ None \in MaybeAge /\ opened \in Sel
    BY Thresholds, OpenedSel, Zenon DEF Mode, Editing
  <2> QED  BY <1>3, <2>1 DEF new_ui, Ui
<1>5. v \in Ui /\ (Loads(v) => lobby)
  <2>1. "Sessions" \in Mode /\ None \in MaybeAge
    BY Thresholds, Zenon DEF Mode
  <2> QED  BY <1>4, <2>1, ToUi DEF open_sessions, Loads
<1>6. new_link \in LinkRec /\ new_link.held = <<>> /\ new_link.phase = "Live"
  BY Thresholds, SMTT(30), Z3T(30) DEF new_link, LinkRec, Phase
<1> DEFINE q == IF lobby THEN Listing ELSE Nothing
<1>7. c = [l |-> new_link, ui |-> v, pending |-> <<>>, unacked |-> TRUE, there |-> FALSE,
           asking |-> q, asked |-> Nothing, list_owed |-> FALSE,
           in_lobby |-> lobby, here |-> 1]
  BY <1>1 DEF Listing
<1>8. q \in Request /\ (lobby => q.what = "Sessions") /\ <<>> \in Seq(KeyRec)
  BY RequestFacts, SMTT(30), Z3T(30)
<1> HIDE DEF u, v, q
<1>9. /\ c \in ClientRec /\ c.l = new_link /\ c.ui = v /\ c.pending = <<>>
      /\ c.asking = q /\ c.asked = Nothing
  BY <1>3, <1>5, <1>6, <1>7, <1>8, RequestFacts, ZenonT(30) DEF ClientRec
<1>10. ClientOK(c)
  <2>1. Len(<<>>) <= MAX_HELD
    BY Thresholds, SMTT(30), Z3T(30)
  <2> QED  BY <1>5, <1>6, <1>8, <1>9, <2>1, Zenon DEF ClientOK, Calm, Serves
<1>11. /\ h \in HostRec /\ h.shell = <<>> /\ h.len = 0 /\ h.written = 0
       /\ h.on = "same"
       /\ h.attempt = "no"
  <2>1. Nothing \in Reply
    BY Zenon DEF Reply, Nothing, Row, NewSession
  <2> QED  BY <1>1, <1>8, <2>1, Zenon DEF Fresh, HostRec
<1>12. Ordered(<<>>, <<>>, h, 0)
  <2>1. DOMAIN <<>> = {} /\ Len(<<>>) = 0
    BY SMTT(30), Z3T(30)
  <2> QED  BY <1>11, <2>1, SMTT(30), Z3T(30) DEF Ordered, Upto, Sorted, Before
<1>13. Ordered(c.pending, c.l.held, h, typed)
  BY <1>2, <1>6, <1>9, <1>12
<1>14. typed \in 0..user.keys
  BY <1>2, <1>3, SMTT(30), Z3T(30)
<1> QED  BY <1>2, <1>10, <1>11, <1>13, <1>14, Zenon DEF Inv

\* What an answer may be.
LEMMA AnswerFacts ==
    ASSUME Inv
    PROVE  /\ h.reply.is \notin {"no", "Lost"} => h.reply \in Answer
           /\ [Nothing EXCEPT !.is = "Failed"] \in Answer
  BY Ends DEF Answer

\* Every step keeps the invariant, releases nothing without an answer, and
\* asks for nothing risky without a question.
LEMMA NextInv ==
    ASSUME Inv, Next
    PROVE  Inv' /\ Released(c') /\ Confirmed(c')
<1>0. UNCHANGED user /\ (Wakes \/ Host \/ TimePasses)
  BY Zenon DEF Next
<1>1. ASSUME NEW read \in user.reads, route_keys(read)
      PROVE  Inv' /\ Released(c') /\ Confirmed(c')
  BY <1>0, <1>1, RouteKeysInv
<1>2. CASE TakeFrame
  BY <1>0, <1>2, TakeFrameInv, QuietIsSafe
<1>3. CASE Resize
  BY <1>0, <1>3, ResizeInv, QuietIsSafe, ZenonT(30)
<1>4. CASE PacingTick
  BY <1>0, <1>4, PacingTickInv, QuietIsSafe
<1>5. CASE Rebuilt
  BY <1>0, <1>5, RebuiltInv, QuietIsSafe
<1>6. CASE FailOver
  BY <1>0, <1>6, FailOverInv, QuietIsSafe
<1>7. CASE AnswerArrives
  BY <1>0, <1>7, AnswerFacts, AnsweredInv, QuietIsSafe DEF AnswerArrives
<1>8. CASE AnswerFails
  BY <1>0, <1>8, AnswerFacts, AnsweredInv, QuietIsSafe, ZenonT(30) DEF AnswerFails
<1>9. CASE drain_input
  BY <1>0, <1>9, DrainInv, QuietIsSafe
<1>10. CASE HostAdopts
  BY <1>0, <1>10, AdoptsInv, QuietIsSafe
<1>11. CASE promote_standby
  BY <1>0, <1>11, PromoteInv, QuietIsSafe
<1>12. CASE Serve
  BY <1>0, <1>12, ServeInv, QuietIsSafe
<1>13. CASE Attach
  BY <1>0, <1>13, AttachSafe, QuietIsSafe
<1>14. CASE TimePasses
  BY <1>0, <1>14, TimeInv, QuietIsSafe, ZenonT(30)
<1> QED  BY <1>0, <1>1, <1>2, <1>3, <1>4, <1>5, <1>6, <1>7, <1>8, <1>9, <1>10, <1>11,
            <1>12, <1>13, <1>14, ZenonT(30) DEF Wakes, Host

\* A step that changes nothing keeps the invariant.
LEMMA StutterInv ==
    ASSUME Inv, UNCHANGED vars
    PROVE  Inv'
  BY ZenonT(30) DEF vars, Inv, ClientOK, Calm, Serves, asking, Loads, Ordered, Upto, Sorted,
                    Before

\* The invariant holds of every behaviour.
THEOREM SessionInvariant == Spec => []Inv
<1>1. Inv /\ [Next]_vars => Inv'
  BY NextInv, StutterInv
<1> QED  BY InitInv, <1>1, PTL DEF Spec

\* Every record of the client and of the host has the type its code gives it,
\* and a host on the client's link has applied no more of the input than the
\* client published there (Inv's Ordered: drain_input never passes the end).
THEOREM SessionTyped == Spec => []TypeOK
<1>1. Inv => TypeOK
  <2> SUFFICES ASSUME Inv  PROVE TypeOK
    OBVIOUS
  <2>1. /\ c.l.phase \in Phase /\ {c.l.last_heard, c.l.last_sent} \subseteq Age
        /\ c.l.owed_since \in MaybeAge
    BY Ends, ZenonT(30) DEF LinkRec
  <2>2. /\ c.ui.mode \in Mode /\ c.ui.editing \in Editing
        /\ {c.ui.at, c.ui.outage_since, c.ui.asked_at} \subseteq MaybeAge
        /\ c.ui.sel \in Sel
    BY Ends DEF Ui
  <2>3. c.ui.sel.cursor \in Listed(c.ui.sel) \cup {NewSession}
    BY <2>2, Zenon DEF Sel, Listed
  <2>4. {c.asking.is, c.asked.is} \subseteq {"no", "Ask"}
    BY Ends, RequestFacts, ZenonT(30) DEF ClientRec
  <2>5. h.on \in {"same", "ahead", "behind", "apart"} /\ (h.on = "same" => h.len <= Len(c.pending))
    BY Ends, Zenon DEF HostRec, Ordered
  <2>6. ASSUME NEW s \in {c.pending, c.l.held, h.shell}
        PROVE  Range(s) \subseteq Key
    <3>1. s \in Seq(KeyRec) /\ Upto(s, typed)
      BY Ends, Zenon DEF Ordered, Shows
    <3>2. typed \in Nat /\ typed <= user.keys /\ user.keys \in Nat
      BY SessionConstants, SMTT(30), Z3T(30) DEF Inv
    <3>3. \A i \in DOMAIN s : s[i] \in KeyRec /\ s[i].id \in 1..typed
      BY <3>1, Numbered, Zenon DEF Upto
    <3>4. \A i \in DOMAIN s : s[i] \in Key
      BY <3>2, <3>3, SMTT(30), Z3T(30) DEF KeyRec, Key
    <3> QED  BY <3>4, Zenon DEF Range
  <2>7. Typed \subseteq Key
    BY <2>6, ZenonT(30) DEF Typed
  <2>8. Len(c.l.held) <= MAX_HELD /\ typed \in 0..user.keys /\ c.here \in Sessions
    BY Ends, ZenonT(30) DEF Calm, Inv
  <2> QED  BY <2>1, <2>2, <2>3, <2>4, <2>5, <2>7, <2>8, ZenonT(30) DEF TypeOK
<1> QED  BY SessionInvariant, <1>1, PTL

\* The shell gets every key at most once and in the order of typing, through
\* swaps, failovers, late answers and a lobby becoming a session.
THEOREM ShellIsInOrder == Spec => []TypedOnceInOrder
<1>1. Inv => TypedOnceInOrder
  BY Ends, ZenonT(30) DEF Ordered, Sorted, TypedOnceInOrder
<1> QED  BY SessionInvariant, <1>1, PTL

\* Typing held through an outage is never forgotten by the way it ended.
THEOREM HeldStaysInQuestion == Spec => []HeldIsAskedAbout
<1>1. Inv => HeldIsAskedAbout
  BY Ends, ZenonT(30) DEF Calm, HeldIsAskedAbout
<1> QED  BY SessionInvariant, <1>1, PTL

\* A selector that says it is loading is about to be told.
THEOREM LoadingIsNeverStranded == Spec => []LoadingIsServed
<1>1. Inv => LoadingIsServed
  BY Ends DEF ClientOK, Serves, Loads, LoadingIsServed
<1> QED  BY SessionInvariant, <1>1, PTL

\* Typing done blind leaves the hold, and reaches the host, only by an answer
\* to a question that had been up for ANSWER_GUARD.
THEOREM BlindTypingIsAnsweredFor == Spec => OnlyAnAnswerReleases
<1>1. Inv /\ Next => Released(c')
  BY NextInv
<1> QED  BY SessionInvariant, <1>1, PTL DEF Spec, OnlyAnAnswerReleases, Released

\* A session is killed, or taken from another client, only by the answer to a
\* question that named it, had been up for ANSWER_GUARD, and found nothing else
\* under way.
THEOREM RiskIsConfirmed == Spec => RiskyRequestsWereConfirmed
<1>1. Inv /\ Next => Confirmed(c')
  BY NextInv
<1> QED  BY SessionInvariant, <1>1, PTL DEF Spec, RiskyRequestsWereConfirmed, Confirmed
=============================================================================
