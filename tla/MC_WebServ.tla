----------------------------- MODULE MC_WebServ ------------------------------
(* Small instances of WebServ for TLC. *)
EXTENDS WebServ

=============================================================================
