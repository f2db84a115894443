--------------------------- MODULE MCTunnelStreams --------------------------
(* TunnelStreams for TLC: a handler or a query beside the engine. *)
EXTENDS TunnelStreams

EachAlone == {{g} : g \in Streams \cup Queries}
=============================================================================
