------------------------------- MODULE KeyEvents -------------------------------
(***************************************************************************)
(* What the key driver promises to whoever handles its events              *)
(* (EzhKeyEvent, components/h_gpio/include/h_gpio.h): the presses of a key *)
(* do not overlap.  Each begins with one DOWN, goes on with any number of  *)
(* PRESS and ends with one UP.                                             *)
(***************************************************************************)

CONSTANTS Keys

VARIABLES
    held,   \* the keys between their DOWN and their UP
    out     \* the last event: of which key, and which

Init ==
    /\ held = {}
    /\ out \in [key : Keys, event : {"NONE"}]

Down(k) == k \notin held /\ held' = held \cup {k} /\ out' = [key |-> k, event |-> "DOWN"]

Press(k) == k \in held /\ UNCHANGED held /\ out' = [key |-> k, event |-> "PRESS"]

Up(k) == k \in held /\ held' = held \ {k} /\ out' = [key |-> k, event |-> "UP"]

Nothing(k) == k \notin held /\ UNCHANGED held /\ out' = [key |-> k, event |-> "NONE"]

Next == \E k \in Keys : Down(k) \/ Press(k) \/ Up(k) \/ Nothing(k)

Spec == Init /\ [][Next]_<<held, out>>

=============================================================================
