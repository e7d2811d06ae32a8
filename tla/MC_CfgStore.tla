----------------------------- MODULE MC_CfgStore -----------------------------
(* Small instances of CfgStore for TLC. *)
EXTENDS CfgStore

=============================================================================
