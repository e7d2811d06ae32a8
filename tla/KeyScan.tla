-------------------------------- MODULE KeyScan --------------------------------
(***************************************************************************)
(* The keys: task_gpio_thread (main/main.c) samples one pin after another, *)
(* every 20 ms, and zhSCM_keyState (components/h_gpio/h_gpio.c) turns the  *)
(* samples of a pin into events.                                           *)
(***************************************************************************)
EXTENDS Naturals

CONSTANT NKeys      \* btnFactory, btn1, ..., in the order they are sampled

ASSUME KeyAssumption == NKeys \in Nat \ {0}

Keys == 1..NKeys
Events == {"NONE", "DOWN", "PRESS", "UP"}

VARIABLES
    pressed,    \* the keys that are pressed: their pin is low
    status,     \* EzhKeyState of each key
    key,        \* the key the task samples next
    out,        \* the last event
    last        \* history: the previous sample of each key

keyVars == <<pressed, status, key, out, last>>

KeyInit ==
    /\ pressed \in SUBSET Keys
    /\ status = [k \in Keys |-> 0]
    /\ key = 1
    /\ out = [key |-> NKeys, event |-> "NONE"]
    /\ last = [k \in Keys |-> FALSE]

\* fault: a press is reported at its first sample
Event_NoJitter(s, down) ==
    CASE s \in {0, 1} /\ down -> "DOWN"
      [] s \in {2, 3} /\ down -> "PRESS"
      [] s \in {2, 3} /\ ~down -> "UP"
      [] OTHER -> "NONE"

Event(s, down) ==
    CASE s = 1 /\ down -> "DOWN"
      [] s \in {2, 3} /\ down -> "PRESS"
      [] s \in {2, 3} /\ ~down -> "UP"
      [] OTHER -> "NONE"

\* fault: a release goes back to the state after the first sample
NextStatus_NotReset(s, down) == IF down THEN (IF s = 3 THEN 3 ELSE s + 1) ELSE s % 2

\* A released key goes back to the beginning, from wherever it is.
NextStatus(s, down) ==
    IF ~down THEN 0 ELSE IF s = 3 THEN 3 ELSE s + 1

\* fault: the task does not begin again with the first key
After_NoWrap(k) == k + 1

\* fault: the last key is passed over
After_Skips(k) == IF k >= NKeys - 1 THEN 1 ELSE k + 1

After(k) == IF k = NKeys THEN 1 ELSE k + 1

\* zhSCM_keyState for the next key.
Sample ==
    LET down == key \in pressed
    IN  /\ out' = [key |-> key, event |-> Event(status[key], down)]
        /\ status' = [status EXCEPT ![key] = NextStatus(@, down)]
        /\ last' = [last EXCEPT ![key] = down]
        /\ key' = After(key)
        /\ UNCHANGED pressed

\* A key is pressed, released, or its contact bounces.
Moves(k) ==
    /\ pressed' = IF k \in pressed THEN pressed \ {k} ELSE pressed \cup {k}
    /\ UNCHANGED <<status, key, out, last>>

KeyNext == Sample \/ \E k \in Keys : Moves(k)

KeySpec == KeyInit /\ [][KeyNext]_keyVars

\* The task never waits for anything but time.
KeyFairSpec == KeySpec /\ WF_keyVars(Sample)

-----------------------------------------------------------------------------
(* Properties *)

\* Every variable keeps its type.
KeyTypeOK ==
    /\ pressed \in SUBSET Keys
    /\ status \in [Keys -> 0..3]
    /\ key \in Keys
    /\ out \in [key : Keys, event : Events]
    /\ last \in [Keys -> BOOLEAN]

\* The events of each key form presses that do not overlap (KeyEvents): no UP
\* without its DOWN, no second DOWN before the UP, however the contact bounces.
Held == {k \in Keys : status[k] \in {2, 3}}
Promise == INSTANCE KeyEvents WITH held <- Held
Promised == Promise!Spec

\* A DOWN needs two samples in a row, so a contact that bounces for less than a
\* period begins no press (ZH_KEY_STATE_1, h_gpio.c:40).
DownIsSure ==
    [][\A k \in Keys : status[k] = 1 /\ status'[k] = 2 => last[k] /\ last'[k]]_keyVars

\* A key that is kept down is reported, one that is let go is reported too.
Reported ==
    \A k \in Keys :
        /\ <>[](k \in pressed) => <>[](k \in Held)
        /\ <>[](k \notin pressed) => <>[](k \notin Held)

=============================================================================
