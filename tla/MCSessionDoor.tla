--------------------------- MODULE MCSessionDoor ---------------------------
(* SessionDoor for TLC: requests and names are model values, and which of   *)
(* them is which does not matter.                                           *)
EXTENDS SessionDoor, TLC

Symmetry == Permutations(Requests) \cup Permutations(Names)
=============================================================================
