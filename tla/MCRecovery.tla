----------------------------- MODULE MCRecovery -----------------------------
(* Recovery for TLC: how much a behaviour may begin.                         *)
EXTENDS Recovery

Allow(a, n) == [attempts |-> a, searches |-> n]

\* Two attempts and a standby race, or a standby is searched for again and again.
Races == {Allow(2, 1), Allow(0, 4)}
TwoAttempts == {Allow(2, 0)}
OneAttempt == {Allow(1, 0)}
=============================================================================
