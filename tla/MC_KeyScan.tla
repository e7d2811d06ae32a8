------------------------------ MODULE MC_KeyScan ------------------------------
(* Small instances of KeyScan for TLC. *)
EXTENDS KeyScan

=============================================================================
