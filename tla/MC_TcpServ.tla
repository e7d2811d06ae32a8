----------------------------- MODULE MC_TcpServ ------------------------------
(* Small instances of TcpServ for TLC. *)
EXTENDS TcpServ

=============================================================================
