---------------------------- MODULE MC_HttpClient ----------------------------
(* Small instances of HttpClient for TLC. *)
EXTENDS HttpClient
=============================================================================
