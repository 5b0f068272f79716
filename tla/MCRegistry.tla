----------------------------- MODULE MCRegistry -----------------------------
(* Registry for TLC: one pid, so that every other program is given the pid   *)
(* that was the session's.                                                   *)
EXTENDS Registry

=============================================================================
