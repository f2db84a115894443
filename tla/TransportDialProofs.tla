------------------------ MODULE TransportDialProofs ------------------------
(***************************************************************************)
(* Proofs about TransportDial: for every set of profiles, callers,         *)
(* networks, addresses and statuses, and however the identification line   *)
(* is cut, each attempt closes exactly the connection it opened, and the   *)
(* handshake finds the line but for the pieces counted as thrown away.     *)
(***************************************************************************)
EXTENDS TransportDial, SequenceTheorems, TLAPS

OpenExact == open = IF stage \in Connected THEN 1 ELSE 0

Bytes == Seq(Statuses \cup Chunks)

IInv == TypeOK /\ OpenExact

-----------------------------------------------------------------------------
(* Where a connection can go *)

LEMMA AfterConnected ==
  /\ After("dial") \in Connected
  /\ After("connect") \in Connected
  /\ After("tls") \in Connected
BY Zenon DEF After, Connected, Preparing

LEMMA StagesApart ==
  /\ "idle" \notin Connected /\ "exited" \notin Connected /\ "lost" \notin Connected
  /\ \A s \in Dialling : s \notin Connected
  /\ "auth" \in Connected /\ "probe" \in Connected /\ "connectRead" \in Connected
  /\ "up" \in Connected
BY DEF Dialling, Connected, Preparing

LEMMA DroppedType ==
  ASSUME TypeOK, NEW rest \in Bytes
  PROVE  DroppedBut(rest) \in 0..Len(Banner)
<1>1. Len(rest) \in Nat /\ Len(Banner) \in Nat
  BY DialAssumption DEF Bytes, DialAssumption
<1> QED
  BY <1>1 DEF DroppedBut, TypeOK

\* What is kept of the bytes read is nothing, or the rest from some place on.
LEMMA FromBannerType ==
  ASSUME NEW bytes \in Bytes
  PROVE  /\ fromBanner(bytes) \in Bytes
         /\ hasBanner(bytes) => \E i \in 1..Len(bytes) : fromBanner(bytes) = SubSeq(bytes, i, Len(bytes))
<1>1. CASE ~hasBanner(bytes)
  BY <1>1 DEF fromBanner, Bytes
<1>2. CASE hasBanner(bytes)
  <2> DEFINE i == CHOOSE j \in sshIndex(bytes) : TRUE
  <2>1. i \in sshIndex(bytes)
    BY <1>2 DEF hasBanner
  <2>2. i \in 1..Len(bytes)
    <3> HIDE DEF i
    <3>1. i \in DOMAIN bytes
      BY <2>1 DEF sshIndex
    <3> QED
      BY <3>1 DEF Bytes
  <2>3. fromBanner(bytes) = SubSeq(bytes, i, Len(bytes))
    BY <1>2 DEF fromBanner
  <2> HIDE DEF i
  <2> QED
    BY <2>2, <2>3 DEF Bytes
<1> QED
  BY <1>1, <1>2

-----------------------------------------------------------------------------
(* The ways a step leaves the connection *)

\* An attempt that is about to dial holds no connection.
LEMMA DialAnyStep ==
  ASSUME TypeOK, OpenExact, stage \in Dialling, NEW S, NEW elsewhere,
         elsewhere \in {"idle", "exited"} \cup Dialling, DialAny(S, elsewhere)
  PROVE  /\ stage' \in {"idle", "exited"} \cup Dialling \cup Connected
         /\ open' \in Nat /\ OpenExact'
         /\ wire' \in Bytes /\ got' \in Bytes
         /\ due' \in 0..MaxResponses /\ sent' \in 0..Len(Banner) /\ taken' \in 0..Len(Banner)
         /\ UNCHANGED <<prof, caller, net, cached, carrier>>
<1>0. open = 0
  BY StagesApart DEF OpenExact
<1>1. CASE S \cap net.reach # {}
  <2>1. stage' = After("dial") /\ open' = open + 1 /\ Fresh
    BY <1>1 DEF DialAny
  <2>2. UNCHANGED <<prof, caller, net, cached, carrier>>
    BY DEF DialAny, cache
  <2>3. wire' \in Bytes /\ got' \in Bytes /\ due' \in 0..MaxResponses /\ sent' \in 0..Len(Banner) /\ taken' \in 0..Len(Banner)
    BY <2>1, DialAssumption DEF Fresh, Bytes, DialAssumption
  <2> QED
    BY <1>0, <2>1, <2>2, <2>3, AfterConnected DEF OpenExact
<1>2. CASE ~(S \cap net.reach # {})
  <2>1. stage' = elsewhere /\ UNCHANGED <<open, wire, due, sent, got, taken>>
    BY <1>2 DEF DialAny, conn
  <2>2. UNCHANGED <<prof, caller, net, cached, carrier>>
    BY DEF DialAny, cache
  <2>3. stage' \notin Connected
    BY <2>1, StagesApart
  <2> QED
    BY <1>0, <2>1, <2>2, <2>3 DEF OpenExact, TypeOK, Bytes
<1> QED
  BY <1>1, <1>2

LEMMA CloseStep ==
  ASSUME OpenExact, stage \in Connected, Close
  PROVE  /\ stage' \in {"idle", "exited"}
         /\ open' \in Nat /\ OpenExact'
         /\ wire' \in Bytes /\ got' \in Bytes
         /\ due' \in 0..MaxResponses /\ sent' \in 0..Len(Banner) /\ taken' \in 0..Len(Banner)
<1>1. stage' \in {"idle", "exited"} /\ open' = 0
  BY DEF Close, Ended, OpenExact
<1>2. stage' \notin Connected
  BY <1>1, StagesApart
<1>3. wire' \in Bytes /\ got' \in Bytes /\ due' \in 0..MaxResponses /\ sent' \in 0..Len(Banner) /\ taken' \in 0..Len(Banner)
  BY DialAssumption DEF Close, Fresh, Bytes, DialAssumption
<1> QED
  BY <1>1, <1>2, <1>3 DEF OpenExact

LEMMA ProceedStep ==
  ASSUME TypeOK, OpenExact, stage \in Connected, NEW s \in Connected,
         NEW prefix \in Bytes, NEW rest \in Bytes, NEW responses \in 0..MaxResponses,
         NEW dropped \in 0..Len(Banner), Proceed(s, prefix, rest, responses, dropped)
  PROVE  /\ stage' \in {"idle", "exited"} \cup Connected
         /\ open' \in Nat /\ OpenExact'
         /\ wire' \in Bytes /\ got' \in Bytes
         /\ due' \in 0..MaxResponses /\ sent' \in 0..Len(Banner) /\ taken' \in 0..Len(Banner)
<1>1. CASE s = "auth" /\ caller = "probe"
  BY <1>1, CloseStep DEF Proceed
<1>2. CASE ~(s = "auth" /\ caller = "probe")
  <2>1. /\ stage' = s /\ got' = prefix /\ wire' = rest /\ due' = responses
        /\ taken' = dropped /\ UNCHANGED <<open, sent>>
    BY <1>2 DEF Proceed
  <2> QED
    BY <2>1 DEF OpenExact, TypeOK
<1> QED
  BY <1>1, <1>2

-----------------------------------------------------------------------------
LEMMA InitInv == Init => IInv
<1> SUFFICES ASSUME Init PROVE IInv
  OBVIOUS
<1>1. wire \in Bytes /\ got \in Bytes /\ due \in 0..MaxResponses /\ sent \in 0..Len(Banner) /\ taken \in 0..Len(Banner)
  BY DialAssumption DEF Init, Bytes, DialAssumption
<1>2. TypeOK
  BY <1>1 DEF Init, TypeOK, Bytes
<1>3. OpenExact
  BY StagesApart DEF Init, OpenExact
<1> QED
  BY <1>2, <1>3 DEF Init, IInv

\* The part of TypeOK a step of the connection cannot disturb.
RestTypeOK ==
  /\ prof \in Profiles /\ caller \in Callers /\ net \in Networks
  /\ cached \in [Hosts -> SUBSET IPs]
  /\ carrier \in {"none", "current", "old"}
  /\ ips \in SUBSET IPs

ConnTypeOK ==
  /\ stage \in {"idle", "exited", "lost"} \cup Dialling \cup Connected
  /\ open \in Nat
  /\ wire \in Bytes /\ got \in Bytes
  /\ due \in 0..MaxResponses /\ sent \in 0..Len(Banner) /\ taken \in 0..Len(Banner)

LEMMA TypeParts == TypeOK <=> RestTypeOK /\ ConnTypeOK
BY DEF TypeOK, RestTypeOK, ConnTypeOK, Bytes

LEMMA DialStep ==
  ASSUME IInv, Dial
  PROVE  RestTypeOK' /\ ConnTypeOK' /\ OpenExact'
<1>0. TypeOK /\ RestTypeOK /\ ConnTypeOK /\ OpenExact
  BY TypeParts DEF IInv
<1>1. dialHost \in Hosts
  BY DEF dialHost, Hosts
<1>2. Ended \in {"idle", "exited"} \cup Dialling /\ "resolve" \in Dialling
  BY DEF Ended, Dialling
<1>3. ASSUME NEW S, NEW elsewhere \in {"idle", "exited"} \cup Dialling, stage \in Dialling,
             DialAny(S, elsewhere), ips' \in SUBSET IPs
      PROVE  RestTypeOK' /\ ConnTypeOK' /\ OpenExact'
  BY <1>0, <1>3, DialAnyStep DEF RestTypeOK, ConnTypeOK
<1>4. CASE DialLiteral \/ DialSystem \/ DialIPs \/ DialFallback
  <2>1. stage \in Dialling /\ ips' \in SUBSET IPs
    BY <1>0, <1>4 DEF DialLiteral, DialSystem, DialIPs, DialFallback, Dialling, RestTypeOK
  <2> QED
    BY <1>2, <1>3, <1>4, <2>1 DEF DialLiteral, DialSystem, DialIPs, DialFallback
<1>5. CASE StartAttempt
  <2>1. stage = "idle" /\ stage' \in Dialling
    BY <1>5 DEF StartAttempt, Dialling
  <2>2. UNCHANGED <<prof, caller, net, cached, carrier, ips, open, wire, due, sent, got, taken>>
    BY <1>5 DEF StartAttempt, cache, conn
  <2> QED
    BY <1>0, <2>1, <2>2, StagesApart DEF RestTypeOK, ConnTypeOK, OpenExact
<1>6. CASE ResolveCached
  <2>1. stage \in Dialling /\ stage' \in Dialling /\ ips' = cached[dialHost]
    BY <1>6 DEF ResolveCached, Dialling
  <2>2. UNCHANGED <<prof, caller, net, cached, carrier, open, wire, due, sent, got, taken>>
    BY <1>6 DEF ResolveCached, cache, conn
  <2> QED
    BY <1>0, <1>1, <2>1, <2>2, StagesApart DEF RestTypeOK, ConnTypeOK, OpenExact
<1>7. CASE ResolveHost
  <2>1. stage \in Dialling /\ stage' \in Dialling
    BY <1>7 DEF ResolveHost, Dialling
  <2>2. UNCHANGED <<prof, caller, net, open, wire, due, sent, got, taken>>
    BY <1>7 DEF ResolveHost, conn
  <2>3. carrier' \in {"none", "current", "old"}
    BY <1>0, <1>7 DEF ResolveHost, AndroidCarrierDNS, RestTypeOK
  <2>4. ConnTypeOK' /\ OpenExact'
    BY <1>0, <2>1, <2>2, StagesApart DEF ConnTypeOK, OpenExact
  <2>5. CASE UNCHANGED <<cached, ips>>
    BY <1>0, <2>2, <2>3, <2>4, <2>5 DEF RestTypeOK
  <2>6. ASSUME NEW answer \in SUBSET DnsIPs,
               cached' = [cached EXCEPT ![dialHost] = answer], ips' = answer
        PROVE  RestTypeOK'
    <3>1. answer \in SUBSET IPs
      BY DEF IPs
    <3> QED
      BY <1>0, <1>1, <2>2, <2>3, <2>6, <3>1 DEF RestTypeOK
  <2> QED
    BY <1>7, <2>4, <2>5, <2>6 DEF ResolveHost
<1> QED
  BY <1>4, <1>5, <1>6, <1>7 DEF Dial

\* Preparing a connection, and losing it.
LEMMA PrepareStep ==
  ASSUME IInv, Prepare \/ AuthSucceeds \/ AuthFails \/ ConnectionLost \/ ConnectionFails
  PROVE  RestTypeOK' /\ ConnTypeOK' /\ OpenExact'
<1>0. TypeOK /\ RestTypeOK /\ ConnTypeOK /\ OpenExact
  BY TypeParts DEF IInv
<1>1. stage \in Connected
  BY DEF Prepare, SendConnect, ReadConnect, Tls, SendPayload, ReadProbe, EndProbe,
     ConnectTimesOut, AuthSucceeds, AuthFails, ConnectionLost,
     ConnectionFails, Connected, Preparing
<1>r. ASSUME UNCHANGED <<prof, caller, net, cache, ips>> PROVE RestTypeOK'
  BY <1>0, <1>r DEF RestTypeOK, cache
<1>b. <<>> \in Bytes /\ wire \in Bytes /\ got \in Bytes /\ MaxResponses \in Nat \ {0}
      /\ due \in 0..MaxResponses /\ taken \in 0..Len(Banner)
  BY <1>0, DialAssumption DEF Bytes, ConnTypeOK, DialAssumption
<1>2. CASE ConnectTimesOut \/ AuthFails \/ ConnectionFails
  <2>1. Close /\ UNCHANGED <<prof, caller, net, cache, ips>>
    BY <1>2 DEF ConnectTimesOut, AuthFails, ConnectionFails
  <2> QED
    BY <1>0, <1>1, <1>r, <2>1, CloseStep DEF ConnTypeOK
<1>3. CASE SendConnect
  <2>1. /\ stage' = "connectRead" /\ due' = 1
        /\ UNCHANGED <<prof, caller, net, cache, ips>> /\ UNCHANGED <<open, wire, sent, got, taken>>
    BY <1>3 DEF SendConnect
  <2> QED
    BY <1>0, <1>1, <1>r, <1>b, <2>1, StagesApart DEF ConnTypeOK, OpenExact
<1>4. CASE ReadConnect
  <2>0. UNCHANGED <<prof, caller, net, cache, ips>>
    BY <1>4 DEF ReadConnect
  <2>1. PICK n \in 1..Len(wire) :
          \/ Proceed(After("connect"), <<>>, SubSeq(wire, n + 1, Len(wire)), due,
                     DroppedBut(SubSeq(wire, n + 1, Len(wire))))
          \/ Close
    BY <1>4 DEF ReadConnect
  <2>2. SubSeq(wire, n + 1, Len(wire)) \in Bytes
    BY <1>b DEF Bytes
  <2>3. CASE Close
    BY <1>0, <1>1, <1>r, <2>0, <2>3, CloseStep DEF ConnTypeOK
  <2>4. CASE Proceed(After("connect"), <<>>, SubSeq(wire, n + 1, Len(wire)), due,
                     DroppedBut(SubSeq(wire, n + 1, Len(wire))))
    BY <1>0, <1>1, <1>r, <1>b, <2>0, <2>2, <2>4, AfterConnected, DroppedType, ProceedStep
       DEF ConnTypeOK
  <2> QED
    BY <2>1, <2>3, <2>4
<1>5. CASE Tls
  <2>0. UNCHANGED <<prof, caller, net, cache, ips>>
    BY <1>5 DEF Tls
  <2>1. CASE Close
    BY <1>0, <1>1, <1>r, <2>0, <2>1, CloseStep DEF ConnTypeOK
  <2>2. CASE Proceed(After("tls"), <<>>, wire, due, taken)
    BY <1>0, <1>1, <1>r, <1>b, <2>0, <2>2, AfterConnected, ProceedStep DEF ConnTypeOK
  <2> QED
    BY <1>5, <2>1, <2>2 DEF Tls
<1>6. CASE SendPayload
  <2>1. PICK s \in {"probe", "auth"} : Proceed(s, <<>>, wire, MaxResponses, taken)
    BY <1>6 DEF SendPayload
  <2>2. UNCHANGED <<prof, caller, net, cache, ips>>
    BY <1>6 DEF SendPayload
  <2>3. s \in Connected /\ MaxResponses \in 0..MaxResponses
    BY <1>b, StagesApart
  <2> QED
    BY <1>0, <1>1, <1>r, <1>b, <2>1, <2>2, <2>3, ProceedStep DEF ConnTypeOK
<1>7. CASE ReadProbe
  <2>1. PICK n \in 1..Len(wire) : /\ got' = got \o SubSeq(wire, 1, n)
                                  /\ wire' = SubSeq(wire, n + 1, Len(wire))
    BY <1>7 DEF ReadProbe
  <2>2. got' \in Bytes /\ wire' \in Bytes
    BY <1>b, <2>1 DEF Bytes
  <2>3. UNCHANGED <<prof, caller, net, cache, ips>> /\ UNCHANGED <<stage, open, due, sent, taken>>
    BY <1>7 DEF ReadProbe
  <2> QED
    BY <1>0, <1>r, <2>2, <2>3 DEF ConnTypeOK, OpenExact
<1>8. CASE EndProbe
  <2>0. UNCHANGED <<prof, caller, net, carrier, ips>>
    BY <1>8 DEF EndProbe
  <2>1. \/ Close
        \/ \E d \in {taken, DroppedBut(wire)} : Proceed("auth", fromBanner(got), wire, due, d)
    BY <1>8 DEF EndProbe
  <2>2. ConnTypeOK' /\ OpenExact'
    <3>1. CASE Close
      BY <1>0, <1>1, <3>1, CloseStep DEF ConnTypeOK
    <3>2. ASSUME NEW d \in 0..Len(Banner), Proceed("auth", fromBanner(got), wire, due, d)
          PROVE  ConnTypeOK' /\ OpenExact'
      BY <1>0, <1>1, <1>b, <3>2, FromBannerType, StagesApart, ProceedStep DEF ConnTypeOK
    <3> QED
      BY <1>0, <1>b, <2>1, <3>1, <3>2, DroppedType
  <2>3. cached' = cached \/ EvictBoth
    BY <1>8 DEF EndProbe
  <2>4. CASE cached' = cached
    BY <1>0, <2>0, <2>2, <2>4 DEF RestTypeOK
  <2>5. CASE EvictBoth
    <3>1. cached' = [h \in Hosts |-> IF h = "ssh" \/ prof.proxy # "no" THEN {} ELSE cached[h]]
      BY <2>5 DEF EvictBoth
    <3>2. cached' \in [Hosts -> SUBSET IPs]
      BY <1>0, <3>1 DEF RestTypeOK
    <3> QED
      BY <1>0, <2>0, <2>2, <3>2 DEF RestTypeOK
  <2> QED
    BY <2>3, <2>4, <2>5
<1>9. CASE AuthSucceeds
  <2>1. stage' = "up" /\ UNCHANGED <<prof, caller, net, cache, ips>>
        /\ UNCHANGED <<open, wire, due, sent, got, taken>>
    BY <1>9 DEF AuthSucceeds, conn
  <2> QED
    BY <1>0, <1>1, <1>r, <2>1, StagesApart DEF ConnTypeOK, OpenExact
<1>10. CASE ConnectionLost
  <2>1. /\ stage' = "lost" /\ open' = 0 /\ Fresh
        /\ UNCHANGED <<prof, caller, net, cache, ips>>
    BY <1>0, <1>10 DEF ConnectionLost, OpenExact, Connected
  <2>2. wire' \in Bytes /\ got' \in Bytes /\ due' \in 0..MaxResponses
        /\ sent' \in 0..Len(Banner) /\ taken' \in 0..Len(Banner)
    BY <2>1, DialAssumption DEF Fresh, Bytes, DialAssumption
  <2> QED
    BY <1>r, <2>1, <2>2, StagesApart DEF ConnTypeOK, OpenExact
<1> QED
  BY <1>2, <1>3, <1>4, <1>5, <1>6, <1>7, <1>8, <1>9, <1>10 DEF Prepare

\* The server, the network and time.
LEMMA SurroundingsStep ==
  ASSUME IInv, ServerResponds \/ ServerIdentifies \/ NetworkChanges \/ Expire
  PROVE  RestTypeOK' /\ ConnTypeOK' /\ OpenExact'
<1>0. TypeOK /\ RestTypeOK /\ ConnTypeOK /\ OpenExact
  BY TypeParts DEF IInv
<1>1. CASE ServerResponds
  <2>1. PICK s \in Statuses : wire' = Append(wire, s)
    BY <1>1 DEF ServerResponds
  <2>2. wire' \in Bytes
    BY <1>0, <2>1 DEF ConnTypeOK, Bytes
  <2>3. due' \in 0..MaxResponses
    BY <1>0, <1>1, DialAssumption DEF ServerResponds, ConnTypeOK, DialAssumption
  <2>4. UNCHANGED <<prof, caller, net, cached, carrier, stage, ips, open, sent, got, taken>>
    BY <1>1 DEF ServerResponds, cache
  <2> QED
    BY <1>0, <2>2, <2>3, <2>4 DEF RestTypeOK, ConnTypeOK, OpenExact
<1>2. CASE ServerIdentifies
  <2>1. sent < Len(Banner) /\ wire' = Append(wire, Banner[sent + 1]) /\ sent' = sent + 1 /\ due' = 0
    BY <1>2 DEF ServerIdentifies
  <2>2. Banner \in Seq(Chunks) /\ MaxResponses \in Nat
    BY DialAssumption DEF DialAssumption
  <2>3. sent' \in 0..Len(Banner) /\ Banner[sent + 1] \in Chunks
    BY <1>0, <2>1, <2>2 DEF ConnTypeOK
  <2>4. wire' \in Bytes
    BY <1>0, <2>1, <2>3 DEF ConnTypeOK, Bytes
  <2>5. UNCHANGED <<prof, caller, net, cached, carrier, stage, ips, open, got, taken>>
    BY <1>2 DEF ServerIdentifies, cache
  <2> QED
    BY <1>0, <2>1, <2>2, <2>3, <2>4, <2>5 DEF RestTypeOK, ConnTypeOK, OpenExact
<1>3. CASE NetworkChanges \/ PropsExpire
  <2>1. net' \in Networks /\ carrier' \in {"none", "current", "old"}
    BY <1>0, <1>3 DEF NetworkChanges, PropsExpire, RestTypeOK
  <2>2. UNCHANGED <<prof, caller, cached, stage, ips, open, wire, due, sent, got, taken>>
    BY <1>3 DEF NetworkChanges, PropsExpire, conn
  <2> QED
    BY <1>0, <2>1, <2>2 DEF RestTypeOK, ConnTypeOK, OpenExact
<1>4. CASE HostExpires
  <2>1. PICK h \in Hosts : cached' = [cached EXCEPT ![h] = {}]
    BY <1>4 DEF HostExpires, EvictHost
  <2>2. UNCHANGED <<prof, caller, net, carrier, stage, ips, open, wire, due, sent, got, taken>>
    BY <1>4 DEF HostExpires, conn
  <2> QED
    BY <1>0, <2>1, <2>2 DEF RestTypeOK, ConnTypeOK, OpenExact
<1> QED
  BY <1>1, <1>2, <1>3, <1>4 DEF Expire

LEMMA InvStep == IInv /\ [Next]_vars => IInv'
<1> SUFFICES ASSUME IInv, [Next]_vars
             PROVE  RestTypeOK' /\ ConnTypeOK' /\ OpenExact'
  BY TypeParts, PTL DEF IInv
<1>1. CASE UNCHANGED vars
  BY <1>1, TypeParts DEF IInv, vars, cache, conn, RestTypeOK, ConnTypeOK, OpenExact
<1> QED
  BY <1>1, DialStep, PrepareStep, SurroundingsStep DEF Next, Peer

LEMMA Invariance == Spec => []IInv
BY InitInv, InvStep, PTL DEF Spec

-----------------------------------------------------------------------------
\* Whatever stage of openPreparedSSHConn fails, whoever called it and whatever
\* the profile asks for, the connection is closed, exactly once.
THEOREM ConnectionsClosed == Spec => []ConnAccounted
<1>1. IInv => ConnAccounted
  BY DEF IInv, OpenExact, ConnAccounted
<1> QED
  BY <1>1, Invariance, PTL

-----------------------------------------------------------------------------
(* The identification line *)

\* What is left to read ends in the pieces sent and not thrown away; only the
\* probe has read anything it still holds, and nothing is sent before it may be.
LineState ==
  /\ taken <= sent
  /\ EndsInLine(got \o wire, taken, sent)
  /\ stage \notin {"probe", "auth", "up"} => got = <<>>
  /\ stage \in {"idle"} \cup Dialling => sent = 0

\* Reading from the front: what is dropped is counted, the rest stands as it was.
LEMMA FrontDropped ==
  ASSUME TypeOK, taken <= sent, NEW bytes \in Bytes, EndsInLine(bytes, taken, sent),
         NEW n \in 0..Len(bytes)
  PROVE  LET rest == SubSeq(bytes, n + 1, Len(bytes))
         IN  DroppedBut(rest) <= sent /\ EndsInLine(rest, DroppedBut(rest), sent)
<1> DEFINE rest == SubSeq(bytes, n + 1, Len(bytes))
<1>1. Len(bytes) \in Nat /\ bytes \in Seq(Statuses \cup Chunks) /\ sent \in Nat /\ taken \in Nat
  BY DialAssumption DEF Bytes, TypeOK, DialAssumption
<1>2. Len(rest) = Len(bytes) - n /\ rest \in Bytes
  BY <1>1 DEF Bytes
<1>3. \A k \in 1..Len(rest) : rest[k] = bytes[n + k]
  BY <1>1, <1>2
<1> HIDE DEF rest
<1>4. CASE Len(rest) < sent - taken
  <2>1. DroppedBut(rest) = sent - Len(rest)
    BY <1>4 DEF DroppedBut
  <2>2. ASSUME NEW i \in 1..Len(rest)
        PROVE  rest[i] = Banner[sent - Len(rest) + i]
    <3>1. rest[i] = bytes[n + i]
      BY <1>3
    <3> DEFINE j == sent - taken - Len(rest) + i
    <3>2. j \in 1..(sent - taken) /\ Len(bytes) - (sent - taken) + j = n + i
          /\ taken + j = sent - Len(rest) + i
      BY <1>1, <1>2, <1>4
    <3> HIDE DEF j
    <3> QED
      BY <3>1, <3>2 DEF EndsInLine
  <2>3. sent - DroppedBut(rest) = Len(rest) /\ Len(rest) \in Nat
    BY <1>1, <1>2, <2>1
  <2>4. ASSUME NEW i \in 1..(sent - DroppedBut(rest))
        PROVE  rest[Len(rest) - (sent - DroppedBut(rest)) + i] = Banner[DroppedBut(rest) + i]
    <3>1. i \in 1..Len(rest) /\ Len(rest) - (sent - DroppedBut(rest)) + i = i
      BY <2>3
    <3> QED
      BY <2>1, <2>2, <3>1
  <2>5. EndsInLine(rest, DroppedBut(rest), sent)
    BY <2>3, <2>4 DEF EndsInLine
  <2>6. DroppedBut(rest) <= sent
    BY <1>1, <2>1, <2>3
  <2> QED
    BY <2>5, <2>6 DEF rest
<1>5. CASE ~(Len(rest) < sent - taken)
  <2>1. DroppedBut(rest) = taken
    BY <1>5 DEF DroppedBut
  <2>2. ASSUME NEW i \in 1..(sent - taken)
        PROVE  rest[Len(rest) - (sent - taken) + i] = Banner[taken + i]
    <3>1. Len(rest) - (sent - taken) + i \in 1..Len(rest)
          /\ n + (Len(rest) - (sent - taken) + i) = Len(bytes) - (sent - taken) + i
      BY <1>1, <1>2, <1>5
    <3>2. rest[Len(rest) - (sent - taken) + i] = bytes[Len(bytes) - (sent - taken) + i]
      BY <1>3, <3>1
    <3> QED
      BY <3>2 DEF EndsInLine
  <2>3. sent - taken <= Len(rest)
    BY <1>1, <1>2, <1>5
  <2> QED
    BY <2>1, <2>2, <2>3 DEF EndsInLine, rest
<1> QED
  BY <1>4, <1>5

LEMMA CloseForgets ==
  ASSUME Close \/ (Fresh /\ stage' = "lost")
  PROVE  LineState'
<1>1. sent' = 0 /\ taken' = 0 /\ got' = <<>> /\ wire' = <<>>
  BY DEF Close, Fresh
<1> QED
  BY <1>1 DEF LineState, EndsInLine

LEMMA LineDial ==
  ASSUME TypeOK, LineState, Dial
  PROVE  LineState'
<1>1. stage \in {"idle"} \cup Dialling
  BY DEF Dial, StartAttempt, DialLiteral, DialSystem, ResolveCached, ResolveHost, DialIPs,
         DialFallback, Dialling
<1>2. sent = 0 /\ taken = 0 /\ got = <<>> /\ got \o wire \in Bytes
  BY <1>1, DialAssumption DEF LineState, Dialling, TypeOK, DialAssumption, Bytes
<1>3. ASSUME sent' = 0, taken' = 0, got' = <<>>, wire' \in Bytes PROVE LineState'
  <2>1. Len(got' \o wire') \in Nat
    BY <1>3 DEF Bytes
  <2> QED
    BY <1>3, <2>1 DEF LineState, EndsInLine
<1>4. wire \in Bytes /\ <<>> \in Bytes
  BY DEF TypeOK, Bytes
<1>5. ASSUME NEW S, NEW elsewhere, DialAny(S, elsewhere)
      PROVE  LineState'
  BY <1>2, <1>3, <1>4, <1>5 DEF DialAny, Fresh, conn
<1>6. CASE DialLiteral \/ DialSystem \/ DialIPs \/ DialFallback
  BY <1>5, <1>6 DEF DialLiteral, DialSystem, DialIPs, DialFallback
<1>7. CASE StartAttempt \/ ResolveCached \/ ResolveHost
  BY <1>2, <1>3, <1>4, <1>7 DEF StartAttempt, ResolveCached, ResolveHost, conn
<1> QED
  BY <1>6, <1>7 DEF Dial

\* Going on with nothing held back and the wire from some byte on.
LEMMA LineProceeds ==
  ASSUME TypeOK, LineState, got = <<>>, NEW s \in Connected, NEW n \in 0..Len(wire), NEW responses,
         Proceed(s, <<>>, SubSeq(wire, n + 1, Len(wire)), responses,
                 DroppedBut(SubSeq(wire, n + 1, Len(wire))))
  PROVE  LineState'
<1> DEFINE rest == SubSeq(wire, n + 1, Len(wire))
<1>0. wire \in Bytes /\ got \o wire = wire
  BY DEF TypeOK, Bytes
<1>1. rest \in Bytes /\ <<>> \o rest = rest
  BY <1>0 DEF Bytes
<1>2. DroppedBut(rest) <= sent /\ EndsInLine(rest, DroppedBut(rest), sent)
  BY <1>0, FrontDropped DEF LineState
<1> HIDE DEF rest
<1>3. CASE Close
  BY <1>3, CloseForgets
<1>4. CASE /\ stage' = s /\ got' = <<>> /\ wire' = rest /\ taken' = DroppedBut(rest)
           /\ UNCHANGED <<open, sent>>
  <2>1. s \notin {"idle"} \cup Dialling
    BY StagesApart
  <2>2. EndsInLine(got' \o wire', taken', sent')
    BY <1>1, <1>2, <1>4 DEF EndsInLine
  <2> QED
    BY <1>2, <1>4, <2>1, <2>2 DEF LineState, EndsInLine
<1> QED
  BY <1>3, <1>4 DEF Proceed, rest

\* ... or with the whole wire.
LEMMA LineStays ==
  ASSUME TypeOK, LineState, got = <<>>, NEW s \in Connected, NEW responses,
         Proceed(s, <<>>, wire, responses, taken)
  PROVE  LineState'
<1>1. CASE Close
  BY <1>1, CloseForgets
<1>2. CASE /\ stage' = s /\ got' = <<>> /\ wire' = wire /\ taken' = taken
           /\ UNCHANGED <<open, sent>>
  <2>1. s \notin {"idle"} \cup Dialling
    BY StagesApart
  <2> QED
    BY <1>2, <2>1 DEF LineState, EndsInLine
<1> QED
  BY <1>1, <1>2 DEF Proceed

LEMMA Rejoined ==
  ASSUME NEW B, NEW g \in Seq(B), NEW w \in Seq(B), NEW n \in 1..Len(w)
  PROVE  (g \o SubSeq(w, 1, n)) \o SubSeq(w, n + 1, Len(w)) = g \o w
<1>0. SubSeq(w, 1, n) \in Seq(B) /\ SubSeq(w, n + 1, Len(w)) \in Seq(B)
  OBVIOUS
<1>1. PICK front \in Seq(B) : front = SubSeq(w, 1, n)
  BY <1>0, Zenon
<1>2. PICK back \in Seq(B) : back = SubSeq(w, n + 1, Len(w))
  BY <1>0, Zenon
<1>3. SubSeq(w, 1, n) \o SubSeq(w, n + 1, Len(w)) = w
  BY ConcatAdjacentSubSeq, SubSeqFull
<1>4. front \o back = w
  BY <1>1, <1>2, <1>3
<1>5. (g \o front) \o back = g \o (front \o back)
  OBVIOUS
<1>6. (g \o front) \o back = g \o w
  BY <1>4, <1>5
<1> QED
  BY <1>1, <1>2, <1>6

LEMMA LineProbe ==
  ASSUME TypeOK, LineState, ReadProbe \/ EndProbe
  PROVE  LineState'
<1>0. wire \in Bytes /\ got \in Bytes /\ sent \in 0..Len(Banner) /\ taken \in Nat
  BY DialAssumption DEF TypeOK, Bytes, DialAssumption
<1>1. got \o wire \in Bytes /\ Len(got \o wire) = Len(got) + Len(wire)
      /\ Len(got) \in Nat /\ Len(wire) \in Nat /\ Len(Banner) \in Nat
  BY <1>0, DialAssumption DEF Bytes, DialAssumption
<1>2. CASE ReadProbe
  <2>1. PICK n \in 1..Len(wire) : /\ got' = got \o SubSeq(wire, 1, n)
                                  /\ wire' = SubSeq(wire, n + 1, Len(wire))
    BY <1>2 DEF ReadProbe
  <2>2. got' \o wire' = got \o wire
    BY <1>0, <2>1, Rejoined DEF Bytes
  <2>3. stage = "probe" /\ UNCHANGED <<stage, sent, taken>>
    BY <1>2 DEF ReadProbe
  <2> QED
    BY <2>2, <2>3 DEF LineState, EndsInLine, Dialling
<1>3. CASE EndProbe
  <2>1. CASE Close
    BY <2>1, CloseForgets
  <2>2. CASE /\ hasBanner(got) /\ stage' = "auth" /\ got' = fromBanner(got) /\ wire' = wire
             /\ taken' = taken /\ UNCHANGED <<open, sent>>
    <3>1. PICK i \in sshIndex(got) : got' = SubSeq(got, i, Len(got))
      BY <2>2 DEF hasBanner, fromBanner
    <3>2. i \in 1..Len(got) /\ i + Len(Banner) <= Len(got) + 1
      BY <1>0, <3>1 DEF sshIndex, Bytes
    <3>3. got' \o wire' = SubSeq(got \o wire, i - 1 + 1, Len(got \o wire))
      BY <1>0, <1>1, <2>2, <3>1, <3>2 DEF Bytes
    <3>4. i - 1 \in 0..Len(got \o wire)
      BY <1>1, <3>2
    <3>5. LET rest == SubSeq(got \o wire, i - 1 + 1, Len(got \o wire))
          IN  EndsInLine(rest, DroppedBut(rest), sent)
      BY <1>1, <3>4, FrontDropped DEF LineState
    <3>6. Len(got' \o wire') = Len(got) + Len(wire) - i + 1
      BY <1>0, <1>1, <2>2, <3>1, <3>2 DEF Bytes
    <3>7. DroppedBut(got' \o wire') = taken
      BY <1>0, <1>1, <3>2, <3>6 DEF DroppedBut
    <3>8. EndsInLine(got' \o wire', taken, sent)
      BY <3>3, <3>5, <3>7
    <3> QED
      BY <2>2, <3>8 DEF LineState, EndsInLine, Dialling
  <2>3. CASE /\ ~hasBanner(got) /\ stage' = "auth" /\ got' = fromBanner(got) /\ wire' = wire
             /\ taken' = DroppedBut(wire) /\ UNCHANGED <<open, sent>>
    <3>1. got' = <<>> /\ got' \o wire' = wire
      BY <1>0, <2>3 DEF fromBanner, Bytes
    <3>2. wire = SubSeq(got \o wire, Len(got) + 1, Len(got \o wire)) /\ Len(got) \in 0..Len(got \o wire)
      BY <1>0, <1>1 DEF Bytes
    <3>3. DroppedBut(wire) <= sent /\ EndsInLine(wire, DroppedBut(wire), sent)
      BY <1>1, <3>2, FrontDropped DEF LineState
    <3> QED
      BY <2>3, <3>1, <3>3 DEF LineState, EndsInLine, Dialling
  <2> QED
    BY <1>3, <2>1, <2>2, <2>3 DEF EndProbe, Proceed
<1> QED
  BY <1>2, <1>3

LEMMA LinePrepare ==
  ASSUME TypeOK, LineState,
         Prepare \/ AuthSucceeds \/ AuthFails \/ ConnectionLost \/ ConnectionFails
  PROVE  LineState'
<1>1. CASE ConnectTimesOut \/ AuthFails \/ ConnectionLost \/ ConnectionFails
  BY <1>1, CloseForgets DEF ConnectTimesOut, AuthFails, ConnectionLost, ConnectionFails
<1>2. CASE SendConnect \/ AuthSucceeds
  BY <1>2 DEF SendConnect, AuthSucceeds, conn, LineState, EndsInLine, Dialling
<1>3. CASE ReadConnect
  <2>1. PICK n \in 1..Len(wire) :
          \/ Proceed(After("connect"), <<>>, SubSeq(wire, n + 1, Len(wire)), due,
                     DroppedBut(SubSeq(wire, n + 1, Len(wire))))
          \/ Close
    BY <1>3 DEF ReadConnect
  <2>2. got = <<>> /\ n \in 0..Len(wire)
    BY <1>3 DEF ReadConnect, LineState, TypeOK
  <2> QED
    BY <2>1, <2>2, AfterConnected, LineProceeds, CloseForgets
<1>4. CASE Tls
  BY <1>4, AfterConnected, LineStays, CloseForgets DEF Tls, LineState
<1>5. CASE SendPayload
  BY <1>5, StagesApart, LineStays DEF SendPayload, LineState
<1> QED
  BY <1>1, <1>2, <1>3, <1>4, <1>5, LineProbe DEF Prepare

\* One more piece arrives behind the ones that are there.
LEMMA LineGrows ==
  ASSUME NEW bytes \in Bytes, NEW from \in Nat, NEW to \in Nat, from <= to, to < Len(Banner),
         EndsInLine(bytes, from, to)
  PROVE  EndsInLine(Append(bytes, Banner[to + 1]), from, to + 1)
<1> DEFINE grown == Append(bytes, Banner[to + 1])
<1>1. /\ Len(bytes) \in Nat /\ Len(grown) = Len(bytes) + 1
      /\ grown[Len(bytes) + 1] = Banner[to + 1]
      /\ \A k \in 1..Len(bytes) : grown[k] = bytes[k]
  BY DEF Bytes
<1> HIDE DEF grown
<1>2. to - from <= Len(bytes) /\ to - from \in Nat
  BY DEF EndsInLine
<1>3. ASSUME NEW i \in 1..(to + 1 - from)
      PROVE  grown[Len(grown) - (to + 1 - from) + i] = Banner[from + i]
  <2>1. CASE i = to + 1 - from
    <3>1. Len(grown) - (to + 1 - from) + i = Len(bytes) + 1 /\ from + i = to + 1
      BY <1>1, <1>2, <2>1
    <3> QED
      BY <1>1, <3>1
  <2>2. CASE i # to + 1 - from
    <3>1. /\ i \in 1..(to - from)
          /\ Len(grown) - (to + 1 - from) + i = Len(bytes) - (to - from) + i
          /\ Len(bytes) - (to - from) + i \in 1..Len(bytes)
      BY <1>1, <1>2, <2>2
    <3>2. bytes[Len(bytes) - (to - from) + i] = Banner[from + i]
      BY <3>1 DEF EndsInLine
    <3> QED
      BY <1>1, <3>1, <3>2
  <2> QED
    BY <2>1, <2>2
<1>4. to + 1 - from <= Len(grown)
  BY <1>1, <1>2
<1>5. EndsInLine(grown, from, to + 1)
  BY <1>3, <1>4 DEF EndsInLine
<1> QED
  BY <1>5 DEF grown

LEMMA LineStep ==
  ASSUME IInv, LineState, [Next]_vars
  PROVE  LineState'
<1>0. /\ TypeOK /\ wire \in Bytes /\ got \in Bytes /\ sent \in Nat /\ taken \in Nat
      /\ Banner \in Seq(Chunks)
  BY DialAssumption DEF IInv, TypeOK, Bytes, DialAssumption
<1>1. CASE ServerResponds
  <2>1. PICK x \in Statuses : wire' = Append(wire, x)
    BY <1>1 DEF ServerResponds
  <2>2. sent = 0 /\ taken = 0 /\ UNCHANGED <<stage, sent, got, taken>>
    BY <1>0, <1>1 DEF ServerResponds, LineState
  <2>3. Len(got' \o wire') \in Nat
    BY <1>0, <2>1, <2>2 DEF Bytes
  <2> QED
    BY <2>2, <2>3 DEF LineState, EndsInLine
<1>2. CASE ServerIdentifies
  <2>1. /\ sent < Len(Banner) /\ sent' = sent + 1 /\ wire' = Append(wire, Banner[sent + 1])
        /\ UNCHANGED <<stage, got, taken>>
        /\ stage \notin {"idle"} \cup Dialling
    BY <1>2 DEF ServerIdentifies, Dialling
  <2>2. got' \o wire' = Append(got \o wire, Banner[sent + 1]) /\ got \o wire \in Bytes
    BY <1>0, <2>1 DEF Bytes
  <2>3. taken <= sent + 1 /\ EndsInLine(got' \o wire', taken, sent + 1)
    BY <1>0, <2>1, <2>2, LineGrows DEF LineState
  <2> QED
    BY <2>1, <2>3 DEF LineState, EndsInLine
<1>3. CASE NetworkChanges \/ Expire \/ UNCHANGED vars
  BY <1>3 DEF NetworkChanges, Expire, HostExpires, PropsExpire, vars, conn, LineState, EndsInLine
<1> QED
  BY <1>0, <1>1, <1>2, <1>3, LineDial, LinePrepare DEF Next, Peer

\* In however many pieces the identification line arrives, alone or with the answer
\* to CONNECT, whatever the profile sends and however many HTTP answers come before
\* it: but for the leading pieces that httpCONNECT and readProbe threw away, the
\* handshake finds it whole and in order.
THEOREM LineSurvives == Spec => []BannerKept
<1>1. Init => LineState
  <2> SUFFICES ASSUME Init PROVE LineState
    OBVIOUS
  <2> QED
    BY DEF Init, LineState, EndsInLine
<1>2. LineState => BannerKept
  BY DEF LineState, BannerKept
<1>3. IInv /\ LineState /\ [Next]_vars => LineState'
  BY LineStep
<1> QED
  BY <1>1, <1>2, <1>3, Invariance, PTL DEF Spec
=============================================================================
