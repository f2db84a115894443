--------------------------- MODULE MCTransportDial --------------------------
(* TransportDial for TLC: the transport modes of a profile, five networks. *)
EXTENDS TransportDial

CONSTANTS dns, dns2, fb, ssh1, ssh2

\* Five saved through the API, and one edited by hand that lacks its TLS settings.
MCProfiles ==
  {buildTransport("direct", "", FALSE, "read", {}),
   buildTransport("http_proxy_tls_sni", "", FALSE, "read", {}),
   buildTransport("http_proxy", "connect", FALSE, "no", {}),
   buildTransport("http_proxy", "connect", FALSE, "read", {}),
   buildTransport("tls_sni", "", TRUE, "no", {}),
   [buildTransport("http_proxy", "connect", TRUE, "send", {}) EXCEPT !.tls = "missing"]}
MCNetworks ==
  {[works |-> Services, reach |-> {dns}], [works |-> {"getprop", "carrier"}, reach |-> {dns}],
   [works |-> {"shell"}, reach |-> {dns2}], [works |-> {"getprop"}, reach |-> {fb}],
   [works |-> {"shell"}, reach |-> {fb}]}
TwoPieces == <<ssh1, ssh2>>
=============================================================================
