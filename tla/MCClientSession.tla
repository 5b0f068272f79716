--------------------------- MODULE MCClientSession ---------------------------
(* Who is at the keyboard, for TLC. A read holds one key, or two that came   *)
(* together.                                                                 *)
EXTENDS ClientSession

Alone(ks) == {<<[k |-> k]>> : k \in ks}
Both(a, b) == <<[k |-> a], [k |-> b]>>

\* Types through outages, with the popup and its config screen over them, where
\* its opening by itself may be switched off.
Typist ==
    [reads |-> Alone({"key", "x", "s", "d", "esc", "c", "enter"})
                 \cup {Both("x", "x"), Both("key", "key"), Both("x", "key"),
                       Both("esc", "x")},
     asks |-> {}, keys |-> 2, standby |-> TRUE, auto_open |-> 1]

\* Moves between sessions with the selector.
Chooser ==
    [reads |-> Alone({"key", "s", "esc", "enter", "j", "x", "y"}),
     asks |-> {"Sessions", "Switch", "New"},
     keys |-> 0, standby |-> FALSE, auto_open |-> 1]

\* Kills them, this one and others.
Killer ==
    [reads |-> Alone({"key", "s", "enter", "j", "x", "y"}) \cup {Both("x", "y")},
     asks |-> {"Sessions", "Kill"},
     keys |-> 0, standby |-> FALSE, auto_open |-> None]

\* Starts a session in a lobby, and types.
Starter ==
    [reads |-> Alone({"enter", "x", "esc"}), asks |-> {"Sessions", "New"},
     keys |-> 2, standby |-> FALSE, auto_open |-> None]

\* Looks at the selector, renames, and types nothing.
Idler ==
    [reads |-> Alone({"key", "s", "esc", "enter", "r", "q"}),
     asks |-> {"Sessions", "Rename"},
     keys |-> 0, standby |-> FALSE, auto_open |-> 1]

\* Types a key blind, and looks at the configuration meanwhile.
Tinkerer ==
    [reads |-> Alone({"key", "x", "s", "d", "c", "esc"}),
     asks |-> {}, keys |-> 1, standby |-> TRUE, auto_open |-> 1]

Busy == {Typist, Chooser, Killer, Starter}
Watchers == {Idler, Tinkerer}

=============================================================================
