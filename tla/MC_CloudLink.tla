----------------------------- MODULE MC_CloudLink -----------------------------
(* Small instances of CloudLink for TLC. *)
EXTENDS CloudLink

\* A data frame, another command whose parameter holds a head, and a long frame
\* whose length has a low byte of 0.
MCFrames == {<<0, 3>>, <<2, 1>>, <<0, 1, 2, 0>>}

\* Everything of at most four bytes from two values.
MCOutgoing == UNION {[1..n -> {0, 1}] : n \in 0..4}

=============================================================================
