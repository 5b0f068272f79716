----------------------------- MODULE LinkState -----------------------------
(***************************************************************************)
(* src/linkstate.rs: what a client believes about its link, and the typing *)
(* it holds while nobody answers. Every operator is one method, taking the *)
(* state to the state after it.                                            *)
(*                                                                         *)
(* An Instant is modelled by its age, the time since, which is all the     *)
(* code ever asks of one. Ages stop growing at AgeCap, which no threshold  *)
(* exceeds. The schedule of the rebuild attempts inside Recovering is left *)
(* out: Recovery models the attempts.                                      *)
(***************************************************************************)
EXTENDS Integers, Sequences, FiniteSetsExt

CONSTANTS
    SILENT_AFTER,       \* a reply owed this long is an outage
    REBUILD_AFTER,      \* and after this much silence the client rebuilds
    HEARTBEAT_IDLE,     \* quiet this long, the client says something
    MAX_HELD,           \* how much blind typing is kept
    AgeCap              \* bound: ages are counted up to here

ASSUME LinkTimings ==
    /\ AgeCap \in Nat
    /\ {SILENT_AFTER, REBUILD_AFTER, HEARTBEAT_IDLE} \subseteq 1..AgeCap
    /\ MAX_HELD \in Nat

None == -1
Age == 0..AgeCap
MaybeAge == Age \cup {None}

Older(a) == IF a = None THEN None ELSE Min({a + 1, AgeCap})

Phase == {"Live", "Silent", "Recovering", "Confirming"}

is_outage(phase) == phase \in {"Silent", "Recovering"}

\* last_heard is also the `since` of Silent: nothing arrives during one.
new_link == [phase |-> "Live", last_heard |-> 0, owed_since |-> None,
             last_sent |-> 0, held |-> <<>>]

LinkAges(l) == [l EXCEPT !.last_heard = Older(@), !.owed_since = Older(@),
                         !.last_sent = Older(@)]

\* Mutant: an answer is an answer.
HeardLive(l) ==
    [l EXCEPT !.last_heard = 0, !.owed_since = None, !.phase = "Live"]

\* Coming back with something typed blind is a question, not a resumption.
heard(l) ==
    [l EXCEPT !.last_heard = 0, !.owed_since = None,
              !.phase = IF l.held = <<>> THEN "Live" ELSE "Confirming"]

sent(l) == [l EXCEPT !.last_sent = 0]

heartbeat_due(l) == Min({l.last_heard, l.last_sent}) >= HEARTBEAT_IDLE

\* Mutant: the reply is owed since this lap.
OwingAfresh(l, reply_owed) == IF ~reply_owed THEN None ELSE 0

\* When the reply now owed started being owed.
Owing(l, reply_owed) ==
    IF ~reply_owed THEN None ELSE Max({l.owed_since, 0})

evaluate(l, reply_owed) ==
    CASE l.phase = "Recovering" -> l
      [] l.phase = "Silent" ->
           IF l.last_heard >= REBUILD_AFTER
           THEN [l EXCEPT !.phase = "Recovering"] ELSE l
      [] OTHER ->
           LET owing == Owing(l, reply_owed) IN
           [l EXCEPT !.owed_since = owing,
                     !.phase = IF owing >= SILENT_AFTER THEN "Silent" ELSE @]

\* The held input is delivered by the caller, or dropped.
take_held(l) == [l EXCEPT !.phase = "Live", !.held = <<>>]
drop_held(l) == [l EXCEPT !.phase = "Live", !.held = <<>>]

\* Mutant: the limit is tested before the read and not within it.
HoldWholeReads(l, bytes) ==
    IF Len(l.held) > MAX_HELD THEN l ELSE [l EXCEPT !.held = @ \o bytes]

\* Beyond MAX_HELD the buffer stops accepting; it never drops the oldest.
hold_keys(l, bytes) ==
    LET room == MAX_HELD - Len(l.held) IN
    [l EXCEPT !.held = @ \o SubSeq(bytes, 1, Min({Len(bytes), room}))]

=============================================================================
