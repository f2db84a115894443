---------------------------- MODULE MCUdpGateway ----------------------------
(* UdpGateway on its own, for TLC. *)
EXTENDS UdpGateway
=============================================================================
