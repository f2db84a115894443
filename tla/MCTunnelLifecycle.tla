-------------------------- MODULE MCTunnelLifecycle -------------------------
(* TunnelLifecycle for TLC: who may ask for what. *)
EXTENDS TunnelLifecycle

CONSTANTS c1, c2

\* One starts and restarts, another stops at any time; and two that start.
StartsAndStops == {<<c1, "start">>, <<c1, "restart">>, <<c2, "stop">>}
TwoStarters     == Callers \X {"start"}
=============================================================================
