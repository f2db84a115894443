-------------------------- MODULE MCStateBroadcast --------------------------
(* StateBroadcast on its own, for TLC. *)
EXTENDS StateBroadcast
=============================================================================
