---------------------------- MODULE TransportDial ---------------------------
(***************************************************************************)
(* One attempt after another to reach the SSH server: dialTCPResolved with *)
(* the dnsx cache, then HTTP CONNECT, TLS, the payload and its response,   *)
(* and the SSH handshake (attemptSSHAuth and openPreparedSSHConn in        *)
(* cmd/sshcustomd/main.go, called by tunnelLoop), or the same preparation  *)
(* by the probe command (attemptTransport). Bytes from the server are      *)
(* HTTP statuses and the pieces of the SSH identification line.            *)
(***************************************************************************)
EXTENDS Naturals, Sequences, SequencesExt

CONSTANTS
  Profiles,     \* the selected profile may be any of these
  Callers,      \* who prepares the connection: "tunnel", "probe"
  Networks,     \* what the network offers: records [works, reach]
  DnsIPs,       \* addresses DNS gives for the host dialled
  SshFallback, ProxyFallback,   \* FallbackIPs of the profile's two hosts
  Statuses,     \* HTTP statuses a server may answer with
  Banner,       \* the pieces the identification line arrives in
  MayCoalesce,  \* may it arrive with the answer to CONNECT?
  MaxResponses  \* bound: responses to one payload

Hosts    == {"ssh", "proxy"}
Services == {"system", "getprop", "carrier", "shell"}
IPs      == DnsIPs \cup SshFallback \cup ProxyFallback
Chunks   == Range(Banner)
ProfileType == [proxy : {"no", "socket", "connect", "missing"}, literal : BOOLEAN,
                tls : {"no", "yes", "missing"}, payload : {"no", "send", "read"},
                allow : SUBSET Nat]

ASSUME DialAssumption ==
  /\ Profiles \subseteq ProfileType
  /\ Callers \subseteq {"tunnel", "probe"}
  /\ Networks \subseteq [works : SUBSET Services, reach : SUBSET IPs]
  /\ Statuses \subseteq 100..599
  /\ Banner \in Seq(Chunks) /\ Len(Banner) > 0 /\ Statuses \cap Chunks = {}
  /\ MayCoalesce \in BOOLEAN
  /\ MaxResponses \in Nat \ {0}

VARIABLES
  prof, caller, \* fixed for a tunnel
  net,          \* what works at the moment
  cached,       \* hostCache: the addresses held for each host, {} for none
  carrier,      \* androidPropCache: the carrier's DNS server, or one it no longer has
  stage, ips,   \* where the attempt is, and the addresses it goes through
  open,         \* connections opened and not closed
  wire,         \* bytes from the server, not yet read
  due, sent,    \* responses the server may still send, pieces of Banner it has sent
  got,          \* bytes read by readProbe; from "auth" on, prefixConn's prefix
  taken         \* history: pieces of Banner that were read and thrown away

cache == <<cached, carrier>>
conn  == <<open, wire, due, sent, got, taken>>
vars  == <<prof, caller, net, cache, stage, ips, conn>>

Dialling  == {"literal", "system", "resolve", "dialIPs", "dialFallback"}
Preparing == {"connect", "connectRead", "tls", "payload", "probe"}
Connected == Preparing \cup {"auth", "up"}

\* The type invariant, a part of ConnAccounted.
TypeOK ==
  /\ prof \in Profiles /\ caller \in Callers /\ net \in Networks
  /\ cached \in [Hosts -> SUBSET IPs]
  /\ carrier \in {"none", "current", "old"}
  /\ stage \in {"idle", "exited", "lost"} \cup Dialling \cup Connected
  /\ ips \in SUBSET IPs
  /\ open \in Nat
  /\ wire \in Seq(Statuses \cup Chunks) /\ got \in Seq(Statuses \cup Chunks)
  /\ due \in 0..MaxResponses /\ sent \in 0..Len(Banner) /\ taken \in 0..Len(Banner)

Init ==
  /\ prof \in Profiles /\ caller \in Callers /\ net \in Networks
  /\ cached = [h \in Hosts |-> {}] /\ carrier = "none"
  /\ stage = "idle" /\ ips = {}
  /\ open = 0 /\ wire = <<>> /\ due = 0 /\ sent = 0 /\ got = <<>> /\ taken = 0

\* The profile that saving a transport mode makes: a proxy mode has a proxy, a
\* plain socket unless CONNECT is asked for, a TLS mode has a TLS configuration.
buildTransport(mode, method, literal, payload, allow) ==
  [proxy   |-> IF mode \notin {"http_proxy", "http_proxy_tls_sni"} THEN "no"
               ELSE IF method = "connect" THEN "connect" ELSE "socket",
   tls     |-> IF mode \in {"tls_sni", "http_proxy_tls_sni"} THEN "yes" ELSE "no",
   literal |-> literal, payload |-> payload,
   allow   |-> IF allow = {} THEN {101, 200, 204, 302} ELSE allow]

(* ------------------------------ dialling ------------------------------- *)

dialHost == IF prof.proxy = "no" THEN "ssh" ELSE "proxy"

\* mutant: a proxy falls back on its own addresses only
dialFallbackIPs_Own == IF dialHost = "ssh" THEN SshFallback ELSE ProxyFallback

dialFallbackIPs ==
  IF dialHost = "ssh" THEN SshFallback ELSE ProxyFallback \cup SshFallback

\* The next stage the profile asks for after stage s.
After(s) ==
  CASE s = "dial" /\ prof.proxy = "connect" -> "connect"
    [] s \in {"dial", "connect"} /\ prof.tls # "no" -> "tls"
    [] s # "payload" /\ prof.payload # "no" -> "payload"
    [] s # "payload" /\ caller = "probe" -> "probe"
    [] OTHER -> "auth"

\* The tunnel tries again; the probe command is over.
Ended == IF caller = "probe" THEN "exited" ELSE "idle"

Fresh == wire' = <<>> /\ due' = 0 /\ sent' = 0 /\ got' = <<>> /\ taken' = 0

\* Dial the addresses of S in rotation: any reachable one can be the first.
DialAny(S, elsewhere) ==
  /\ IF S \cap net.reach # {}
       THEN stage' = After("dial") /\ open' = open + 1 /\ Fresh
       ELSE stage' = elsewhere /\ UNCHANGED conn
  /\ UNCHANGED <<prof, caller, net, cache>>

\* dialEndpoint refuses a proxy mode without a proxy: such an attempt never dials.
StartAttempt ==
  /\ stage = "idle" /\ prof.proxy # "missing"
  /\ stage' = IF prof.literal THEN "literal" ELSE "system"
  /\ UNCHANGED <<prof, caller, net, cache, ips, conn>>

DialLiteral == stage = "literal" /\ DialAny(DnsIPs, Ended) /\ UNCHANGED ips

DialSystem ==
  /\ stage = "system"
  /\ DialAny(IF "system" \in net.works THEN DnsIPs ELSE {}, "resolve")
  /\ UNCHANGED ips

\* The server the carrier assigned, or the one read from the properties up to
\* 2 minutes ago.
AndroidCarrierDNS ==
  IF carrier # "none" THEN carrier
  ELSE IF "getprop" \in net.works THEN "current" ELSE "none"

resolveViaDirectDNS == AndroidCarrierDNS = "current" /\ "carrier" \in net.works
shellResolve        == "shell" \in net.works

ResolveCached ==
  /\ stage = "resolve" /\ cached[dialHost] # {}
  /\ ips' = cached[dialHost] /\ stage' = "dialIPs"
  /\ UNCHANGED <<prof, caller, net, cache, conn>>

\* ResolveHost past the cache: the carrier's server, else the shell tools.
ResolveHost ==
  /\ stage = "resolve" /\ cached[dialHost] = {}
  /\ carrier' = AndroidCarrierDNS
  /\ IF resolveViaDirectDNS \/ shellResolve
       THEN \E answer \in SUBSET DnsIPs \ {{}} :
              /\ cached' = [cached EXCEPT ![dialHost] = answer]
              /\ ips' = answer /\ stage' = "dialIPs"
       ELSE stage' = "dialFallback" /\ UNCHANGED <<cached, ips>>
  /\ UNCHANGED <<prof, caller, net, conn>>

DialIPs == stage = "dialIPs" /\ DialAny(ips, Ended) /\ ips' = {}

DialFallback == stage = "dialFallback" /\ DialAny(dialFallbackIPs, Ended) /\ UNCHANGED ips

(* ------------------------ preparing the connection ---------------------- *)

\* conn.Close() and an error, or, for the probe command, its deferred Close.
Close_Leaks == stage' = Ended /\ open' = open /\ Fresh   \* mutant: no conn.Close()

Close == stage' = Ended /\ open' = open - 1 /\ Fresh

\* After the last stage: the SSH handshake, or the end of a probe.
Proceed(s, prefix, rest, responses, dropped) ==
  IF s = "auth" /\ caller = "probe" THEN Close
  ELSE /\ stage' = s /\ got' = prefix /\ wire' = rest /\ due' = responses
       /\ taken' = dropped
       /\ UNCHANGED <<open, sent>>

\* The pieces thrown away when only the bytes of rest are left to read.
DroppedBut(rest) == IF Len(rest) < sent - taken THEN sent - Len(rest) ELSE taken

SendConnect ==
  /\ stage = "connect" /\ stage' = "connectRead" /\ due' = 1
  /\ UNCHANGED <<prof, caller, net, cache, ips, open, wire, sent, got, taken>>

httpStatuses(bytes) == SelectSeq(bytes, LAMBDA b : b \in Statuses)

\* Where the "SSH-" of the identification line stands in bytes, at one place at most.
sshIndex(bytes) ==
  {i \in DOMAIN bytes : /\ i + Len(Banner) <= Len(bytes) + 1
                        /\ SubSeq(bytes, i, i + Len(Banner) - 1) = Banner}

hasBanner(bytes) == sshIndex(bytes) # {}

\* readSome takes what one Read returns; whatever follows the status is dropped.
ReadConnect ==
  /\ stage = "connectRead" /\ wire # <<>>
  /\ \E n \in 1..Len(wire) :
       LET statuses == httpStatuses(SubSeq(wire, 1, n))
           rest     == SubSeq(wire, n + 1, Len(wire))
       IN
       IF statuses # <<>> /\ statuses[1] \in 200..299
         THEN Proceed(After("connect"), <<>>, rest, due, DroppedBut(rest))
         ELSE Close
  /\ UNCHANGED <<prof, caller, net, cache, ips>>

\* The handshake is bounded by the connect timeout; no configuration is an error.
Tls ==
  /\ stage = "tls"
  /\ \/ prof.tls = "yes" /\ Proceed(After("tls"), <<>>, wire, due, taken)
     \/ Close
  /\ UNCHANGED <<prof, caller, net, cache, ips>>

SendPayload ==
  /\ stage = "payload"
  /\ Proceed(IF prof.payload = "read" THEN "probe" ELSE "auth", <<>>, wire, MaxResponses, taken)
  /\ UNCHANGED <<prof, caller, net, cache, ips>>

\* readProbe goes on until the identification line, its deadline or the end of
\* the stream.
ReadProbe ==
  /\ stage = "probe" /\ wire # <<>> /\ ~hasBanner(got)
  /\ \E n \in 1..Len(wire) : /\ got' = got \o SubSeq(wire, 1, n)
                             /\ wire' = SubSeq(wire, n + 1, Len(wire))
  /\ UNCHANGED <<prof, caller, net, cache, stage, ips, open, due, sent, taken>>

RateLimit == {301, 302, 503}

EvictHost(h) == cached' = [cached EXCEPT ![h] = {}]

EvictBoth == cached' = [h \in Hosts |-> IF h = "ssh" \/ prof.proxy # "no" THEN {} ELSE cached[h]]

fromBanner_Dropped(bytes) == <<>>   \* mutant: prefixConn forgets what was read

\* From the "SSH-" on, if it was read whole.
fromBanner(bytes) ==
  IF hasBanner(bytes) THEN SubSeq(bytes, CHOOSE i \in sshIndex(bytes) : TRUE, Len(bytes)) ELSE <<>>

\* What readProbe returned decides: a status that is not allowed ends the
\* attempt; the line is kept for the handshake if it was read whole; statuses
\* alone leave it to the handshake to read (a piece read with them is gone), and
\* a rate-limiting one evicts the hosts. The probe command keeps no cache.
EndProbe ==
  LET statuses == Range(httpStatuses(got))
      bad      == statuses # {} /\ prof.allow # {} /\ ~(statuses \subseteq prof.allow)
      slowDown == caller = "tunnel" /\ statuses \cap RateLimit # {} /\ ~hasBanner(got)
  IN
  /\ stage = "probe"
  /\ \/ /\ ~bad /\ (hasBanner(got) \/ statuses # {})
        /\ Proceed("auth", fromBanner(got), wire, due,
                   IF hasBanner(got) THEN taken ELSE DroppedBut(wire))
        /\ IF slowDown THEN EvictBoth ELSE UNCHANGED cached
     \/ /\ bad \/ (~hasBanner(got) /\ statuses = {})
        /\ Close /\ UNCHANGED cached
  /\ UNCHANGED <<prof, caller, net, carrier, ips>>

ConnectTimesOut_NoDeadline == FALSE /\ UNCHANGED vars   \* mutant: readSome sets no deadline

ConnectTimesOut ==
  /\ stage = "connectRead" /\ Close
  /\ UNCHANGED <<prof, caller, net, cache, ips>>

\* A write or a read fails.
ConnectionFails ==
  /\ stage \in {"connect", "connectRead", "payload", "probe"}
  /\ Close
  /\ UNCHANGED <<prof, caller, net, cache, ips>>

\* NewClientConn reads the identification line and authenticates, without a
\* deadline, or the server refuses or closes.
AuthSucceeds ==
  /\ stage = "auth" /\ hasBanner(got \o wire)
  /\ stage' = "up"
  /\ UNCHANGED <<prof, caller, net, cache, ips, conn>>

AuthFails ==
  /\ stage = "auth" /\ Close
  /\ UNCHANGED <<prof, caller, net, cache, ips>>

\* The client of a running tunnel dies: its connection is closed, and tunnelLoop
\* blocks at engine.go:329, so that no further attempt is made.
ConnectionLost ==
  /\ stage = "up" /\ stage' = "lost"
  /\ open' = open - 1 /\ Fresh
  /\ UNCHANGED <<prof, caller, net, cache, ips>>

(* ----------------------------- surroundings ---------------------------- *)

\* Once the way to the SSH server is open there are no more HTTP answers.
ServerResponds ==
  /\ stage \in {"connectRead", "probe", "auth"} /\ due > 0 /\ sent = 0
  /\ \E s \in Statuses : wire' = Append(wire, s)
  /\ due' = due - 1
  /\ UNCHANGED <<prof, caller, net, cache, stage, ips, open, sent, got, taken>>

\* The SSH server speaks as soon as the way to it is open.
ServerIdentifies ==
  /\ \/ stage \in {"payload", "probe", "auth"}
     \/ MayCoalesce /\ stage = "connectRead" /\ due = 0 /\ prof.tls = "no"
  /\ sent < Len(Banner)
  /\ wire' = Append(wire, Banner[sent + 1]) /\ sent' = sent + 1 /\ due' = 0
  /\ UNCHANGED <<prof, caller, net, cache, stage, ips, open, got, taken>>

NetworkChanges ==
  /\ net' \in Networks
  /\ carrier' = IF carrier = "none" THEN "none" ELSE "old"
  /\ UNCHANGED <<prof, caller, cached, stage, ips, conn>>

HostExpires ==
  /\ \E h \in Hosts : cached[h] # {} /\ EvictHost(h)
  /\ UNCHANGED <<prof, caller, net, carrier, stage, ips, conn>>

PropsExpire ==
  /\ carrier # "none" /\ carrier' = "none"
  /\ UNCHANGED <<prof, caller, net, cached, stage, ips, conn>>

Dial    == StartAttempt \/ DialLiteral \/ DialSystem \/ ResolveCached \/ ResolveHost
           \/ DialIPs \/ DialFallback
Prepare == SendConnect \/ ReadConnect \/ Tls \/ SendPayload \/ ReadProbe \/ EndProbe
           \/ ConnectTimesOut
Peer    == ServerResponds \/ ServerIdentifies \/ ConnectionFails \/ NetworkChanges
Expire  == HostExpires \/ PropsExpire

Next == Dial \/ Prepare \/ AuthSucceeds \/ AuthFails \/ ConnectionLost \/ Peer \/ Expire

Spec == Init /\ [][Next]_vars

\* Every step up to the handshake has a timeout of its own, and entries expire.
FairSpec == Spec /\ WF_vars(Dial) /\ WF_vars(Prepare) /\ WF_vars(HostExpires)

(* ------------------------------ properties ----------------------------- *)

\* Whatever stage fails, the connection is closed, exactly once, before
\* attemptSSHAuth returns the error; a probe leaves none behind. (And TypeOK.)
ConnAccounted == TypeOK /\ open = IF stage \in Connected THEN 1 ELSE 0

\* bytes ends in the pieces of the line after number from, up to number to.
EndsInLine(bytes, from, to) ==
  /\ to - from <= Len(bytes)
  /\ \A i \in 1..(to - from) : bytes[Len(bytes) - (to - from) + i] = Banner[from + i]

\* The identification line is there for the SSH handshake to read, in order and to
\* its end, however many HTTP answers come before it and however the reads cut the
\* stream. Exactly the leading pieces that came in one read with the answer to
\* CONNECT (httpCONNECT drops what follows the status), or that readProbe read
\* without the end of the line, are missing; nothing else is ever lost or moved.
BannerKept == stage = "auth" => EndsInLine(got \o wire, taken, sent)

\* Without any help from the server an attempt ends or reaches the handshake.
PreparationEnds ==
  (stage \in Dialling \cup Preparing) ~> (stage \in {"idle", "exited", "auth", "up"})

\* When all DNS stays down and only the fallback addresses of the SSH server can
\* be reached, they are dialled, although cached answers are tried before them, and
\* again after every failed attempt (up to a loss of the connection, engine.go:329).
FallbackReached ==
  /\ caller = "tunnel" /\ prof.proxy # "missing" /\ ~prof.literal
  /\ <>[](/\ net.works \subseteq {"getprop"}
          /\ net.reach \cap SshFallback # {} /\ net.reach \cap DnsIPs = {})
  => []<>(stage \in Connected \cup {"lost"})
=============================================================================
