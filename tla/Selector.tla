------------------------------ MODULE Selector ------------------------------
(***************************************************************************)
(* src/selector.rs: the session selector's state and keys. Operators only: *)
(* the popup (Popup) owns the state and feeds it the keys.                 *)
(*                                                                         *)
(* A session is a number, in the order of the start times the list is      *)
(* sorted by. A row is what the list said of its session when it was       *)
(* fetched. The text being typed for a rename, and the wording of a note,  *)
(* are left out.                                                           *)
(***************************************************************************)
EXTENDS Integers, FiniteSets, FiniteSetsExt

CONSTANTS
    Sessions,           \* the host's sessions
    ANSWER_GUARD        \* how long a question is up before a key answers it

NewSession == 0         \* the cursor on `+ new session`

\* `elsewhere` has another client, or did not say; `fixed` is not detachable;
\* `shut` runs another version.
RowKind == {"this", "free", "elsewhere", "fixed", "shut"}

Nothing == [is |-> "no", what |-> "-", id |-> 0]
Asked(what, id) == [is |-> "Ask", what |-> what, id |-> id]

\* A question is up since `asked` ago.
NoQuestion == [what |-> "none", id |-> 0, asked |-> 0]

\* Selector::open
opened == [rows |-> <<>>, cursor |-> NewSession, loading |-> TRUE,
           question |-> NoQuestion, rename |-> 0,
           list_failed |-> FALSE]

Listed(sel) == DOMAIN sel.rows

\* The row at position i of the list, or `+ new session` past its end.
RowAt(rows, i) ==
    LET there == {r \in DOMAIN rows :
                    Cardinality({q \in DOMAIN rows : q < r}) = i}
    IN IF there = {} THEN NewSession ELSE CHOOSE r \in there : TRUE

Position(sel) ==
    IF sel.cursor = NewSession THEN Cardinality(Listed(sel))
    ELSE Cardinality({q \in Listed(sel) : q < sel.cursor})

set_rows(sel, rows) ==
    LET this == {r \in DOMAIN rows : rows[r] = "this"} IN
    [sel EXCEPT
       !.rows = rows, !.loading = FALSE, !.list_failed = FALSE,
       !.rename = IF @ \in DOMAIN rows THEN @ ELSE 0,
       !.cursor = IF sel.loading
                  THEN IF this = {} THEN RowAt(rows, 0)
                       ELSE CHOOSE r \in this : TRUE
                  ELSE IF @ \in DOMAIN rows \cup {NewSession} THEN @
                       ELSE RowAt(rows, Position(sel))]

\* Mutant: a list that failed is still on its way.
FailListLoading(sel) == [sel EXCEPT !.question = NoQuestion, !.list_failed = TRUE]

fail_list(sel) == [sel EXCEPT !.question = NoQuestion, !.loading = FALSE,
                              !.list_failed = TRUE]

fail(sel) == [sel EXCEPT !.question = NoQuestion]

Stays(sel) == [sel |-> sel, out |-> Nothing]

\* Nothing is asked while the link is down or a request is under way.
act(sel, ctx, what, id) ==
    [sel |-> sel,
     out |-> IF ctx.live /\ ~ctx.busy THEN Asked(what, id) ELSE Nothing]

Ask(sel, what, id) ==
    Stays([sel EXCEPT !.question = [what |-> what, id |-> id, asked |-> 0]])

\* Enter on the cursor's row.
enter(sel, ctx) ==
    IF sel.cursor = NewSession THEN act(sel, ctx, "New", 0)
    ELSE CASE sel.rows[sel.cursor] = "this" ->
                [sel |-> sel, out |-> [Nothing EXCEPT !.is = "Close"]]
           [] sel.rows[sel.cursor] \in {"fixed", "shut"} -> Stays(sel)
           [] sel.rows[sel.cursor] = "elsewhere" ->
                Ask(sel, "TakeOver", sel.cursor)
           [] OTHER -> act(sel, ctx, "Switch", sel.cursor)

\* Mutant: a key typed ahead of the question answers it.
AnswerAtOnce(sel, k, ctx) ==
    LET q == sel.question
        over == [sel EXCEPT !.question = NoQuestion]
    IN CASE k = "y" -> act(over, ctx, IF q.what = "Kill" THEN "Kill"
                                      ELSE "Switch", q.id)
         [] k \in {"n", "esc"} -> Stays(over)
         [] OTHER -> Stays(sel)

\* A key while a question is up.
answer(sel, k, ctx) ==
    LET q == sel.question
        over == [sel EXCEPT !.question = NoQuestion]
        early == q.asked < ANSWER_GUARD
    IN CASE ~early /\ k = "y" ->
              act(over, ctx, IF q.what = "Kill" THEN "Kill" ELSE "Switch", q.id)
         [] ~early /\ k \in {"n", "esc"} -> Stays(over)
         [] OTHER -> Stays(sel)

\* A key while a name is typed in place. Enter saves, unless the name is
\* refused, which leaves the field open like any other key.
rename_key(sel, k, ctx) ==
    LET done == act(sel, ctx, "Rename", sel.rename) IN
    CASE k = "esc" -> Stays([sel EXCEPT !.rename = 0])
      [] k = "enter" /\ done.out # Nothing ->
           [done EXCEPT !.sel.rename = 0]
      [] OTHER -> Stays(sel)

key(sel, k, ctx) ==
    CASE sel.question # NoQuestion -> answer(sel, k, ctx)
      [] sel.question = NoQuestion /\ sel.rename # 0 -> rename_key(sel, k, ctx)
      [] OTHER ->
           CASE k = "k" -> Stays([sel EXCEPT !.cursor =
                                    RowAt(sel.rows, Max({Position(sel) - 1, 0}))])
             [] k = "j" -> Stays([sel EXCEPT !.cursor =
                                    RowAt(sel.rows, Position(sel) + 1)])
             [] k = "enter" -> enter(sel, ctx)
             [] k = "n" -> act(sel, ctx, "New", 0)
             [] k = "r" -> Stays(IF sel.cursor = NewSession
                                    \/ sel.rows[sel.cursor] = "shut" THEN sel
                                 ELSE [sel EXCEPT !.rename = sel.cursor])
             [] k = "x" -> IF sel.cursor = NewSession
                              \/ sel.rows[sel.cursor] = "shut" THEN Stays(sel)
                           ELSE Ask(sel, "Kill", sel.cursor)
             [] k \in {"q", "esc"} ->
                  [sel |-> sel, out |-> [Nothing EXCEPT
                       !.is = IF ctx.lobby THEN "Quit" ELSE "Back"]]
             [] OTHER -> Stays(sel)

=============================================================================
