--------------------------- MODULE MCTunnelEngine ---------------------------
(* TunnelEngine on its own, for TLC. *)
EXTENDS TunnelEngine
=============================================================================
