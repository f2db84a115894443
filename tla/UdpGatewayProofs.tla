-------------------------- MODULE UdpGatewayProofs --------------------------
(***************************************************************************)
(* Proofs about UdpGateway, for any number of addresses, clients, gateway  *)
(* channels and flows, and any capacity of a reply channel. OneReader is   *)
(* not inductive: that a new channel meets no reader of an old one follows *)
(* from how dead, t.conn and the readers' deferred cleanups fit together   *)
(* (ReaderState). NoLeakedChannel needs that a reaper has the key under    *)
(* which its channel is registered (FlowState).                            *)
(***************************************************************************)
EXTENDS UdpGateway, TLAPS

Reader == {"top", "reading", "cleanup"}

\* A readLoop that has not ended belongs to the channel in use, until the receive
\* loop has closed the udpgwTunnel; a channel marked dead is forgotten already.
ReaderState ==
  /\ \A k \in Conns : rd[k] \in Reader => conn = k \/ (conn = Nil /\ rp = "closed")
  /\ \A k \in Conns : conn = k => rd[k] \in Reader
  /\ \A k \in Conns : rd[k] = "reading" => on[k] = k
  /\ dead => conn = Nil
  /\ rp = "dialing" => conn = Nil /\ conns < MaxConns

InSend == {"dial", "dialing", "write"}

\* A registered channel has a reaper that will remove just this key; the datagram
\* being sent has a flow and room for one more waiter.
FlowState ==
  /\ \A c \in Chans : c > chans => reaper[c] = "none" /\ waiters[c] = 0
  /\ \A a \in Addrs : flows[a] <= chans
  /\ \A a \in Addrs : respCh[a] # Nil =>
       respCh[a] <= chans /\ reaper[respCh[a]] \in {"armed", "deleted"} /\ key[respCh[a]] = a
  /\ rp \in InSend => /\ pkt \in [src : Addrs, dst : Addrs, ch : Chans]
                      /\ pkt.ch <= chans
                      /\ waiters[pkt.ch] < MaxWaiters

IInv == TypeOK /\ ReaderState /\ FlowState

-----------------------------------------------------------------------------
LEMMA Bounds ==
  /\ MaxClients \in Nat \ {0} /\ MaxConns \in Nat \ {0} /\ MaxChans \in Nat \ {0}
  /\ MaxWaiters \in Nat \ {0} /\ ChanCap \in Nat \ {0}
BY UdpGatewayAssumption DEF UdpGatewayAssumption

LEMMA InitInv == Init => IInv
<1> SUFFICES ASSUME Init PROVE IInv
  OBVIOUS
<1>1. LinkTypeOK
  BY Bounds DEF Init, LinkTypeOK, Nil
<1>2. ConnTypeOK
  BY Bounds DEF Init, ConnTypeOK, Nil
<1>3. FlowTypeOK
  BY Bounds DEF Init, FlowTypeOK, Nil
<1>4. FlagTypeOK
  BY DEF Init, FlagTypeOK
<1>5. ReaderState
  BY DEF Init, ReaderState, Reader, Conns, Nil
<1>6. FlowState
  BY DEF Init, FlowState, InSend, Nil
<1> QED
  BY <1>1, <1>2, <1>3, <1>4, <1>5, <1>6 DEF IInv, TypeOK

LEMMA FlagTypeStep == FlagTypeOK /\ [Next]_vars => FlagTypeOK'
<1> SUFFICES ASSUME FlagTypeOK, [Next]_vars PROVE FlagTypeOK'
  OBVIOUS
<1> USE DEF FlagTypeOK
<1>1. CASE UNCHANGED <<stalled, ctxDone, dead, failedOnce, recently>>
  BY <1>1
<1>2. CASE ClientUp \/ ClientStalls \/ ClientRecovers \/ ClientDies
  BY <1>2 DEF ClientUp, ClientStalls, ClientRecovers, ClientDies, connVars
<1>3. CASE Cancel \/ CloseTunnel \/ RetryWindowOver
  BY <1>3 DEF Cancel, CloseTunnel, RetryWindowOver, carrierVars, connVars
<1>4. CASE DialBegins \/ DialFails \/ DialOk
  BY <1>4 DEF DialBegins, DialFails, DialOk, SendReturns, carrierVars
<1>5. CASE \E src, dst \in Addrs : Receive(src, dst) \/ ReceiveNewFlow(src, dst)
  BY <1>1, <1>5 DEF Receive, ReceiveNewFlow, carrierVars, connVars
<1>6. CASE ReceiveFails \/ DialNotNeeded \/ DialRefused \/ WriteDrops \/ WriteOk \/ WriteFails
  BY <1>1, <1>6 DEF ReceiveFails, DialNotNeeded, DialRefused, WriteDrops, WriteOk, WriteFails,
     SendReturns, carrierVars, connVars
<1>7. ASSUME NEW k \in Conns, Reading(k) PROVE FlagTypeOK'
  <2>1. CASE ReadCleanup(k)
    BY <2>1 DEF ReadCleanup, carrierVars
  <2>2. CASE ReadTop(k) \/ ReadFails(k) \/ \E src, dst \in Addrs : ReadReply(k, src, dst)
    BY <1>1, <2>2 DEF ReadTop, ReadFails, ReadReply, carrierVars, connVars
  <2> QED
    BY <1>7, <2>1, <2>2 DEF Reading
<1>8. CASE \E c \in Chans : \/ ReaperDeletes(c) \/ ReaperReleases(c)
                            \/ WaiterDelivers(c) \/ WaiterGivesUp(c)
  BY <1>1, <1>8 DEF ReaperDeletes, ReaperReleases, WaiterDelivers, WaiterGivesUp, carrierVars, connVars
<1> QED
  BY <1>1, <1>2, <1>3, <1>4, <1>5, <1>6, <1>7, <1>8 DEF Next, Sending, vars, carrierVars, connVars

LEMMA LinkTypeStep == LinkTypeOK /\ [Next]_vars => LinkTypeOK'
<1> SUFFICES ASSUME LinkTypeOK, [Next]_vars PROVE LinkTypeOK'
  OBVIOUS
<1> USE Bounds DEF LinkTypeOK, Nil
<1>1. CASE UNCHANGED <<client, clients, dialOn>>
  BY <1>1
<1>2. CASE ClientUp \/ ClientDies
  BY <1>2 DEF ClientUp, ClientDies, recvVars
<1>3. CASE DialBegins \/ DialFails \/ DialOk
  BY <1>3 DEF DialBegins, DialFails, DialOk, SendReturns, carrierVars
<1>4. CASE ClientStalls \/ ClientRecovers \/ Cancel \/ CloseTunnel \/ RetryWindowOver
  BY <1>1, <1>4 DEF ClientStalls, ClientRecovers, Cancel, CloseTunnel, RetryWindowOver,
     carrierVars, recvVars
<1>5. CASE \E src, dst \in Addrs : Receive(src, dst) \/ ReceiveNewFlow(src, dst)
  BY <1>1, <1>5 DEF Receive, ReceiveNewFlow, carrierVars
<1>6. CASE ReceiveFails \/ DialNotNeeded \/ DialRefused \/ WriteDrops \/ WriteOk \/ WriteFails
  BY <1>1, <1>6 DEF ReceiveFails, DialNotNeeded, DialRefused, WriteDrops, WriteOk, WriteFails,
     SendReturns, carrierVars
<1>7. CASE \E k \in Conns : Reading(k)
  BY <1>1, <1>7 DEF Reading, ReadTop, ReadFails, ReadReply, ReadCleanup, carrierVars, recvVars
<1>8. CASE \E c \in Chans : \/ ReaperDeletes(c) \/ ReaperReleases(c)
                            \/ WaiterDelivers(c) \/ WaiterGivesUp(c)
  BY <1>1, <1>8 DEF ReaperDeletes, ReaperReleases, WaiterDelivers, WaiterGivesUp, carrierVars, recvVars
<1> QED
  BY <1>1, <1>2, <1>3, <1>4, <1>5, <1>6, <1>7, <1>8 DEF Next, Sending, vars, carrierVars, recvVars

LEMMA ConnTypeStep ==
  LinkTypeOK /\ ConnTypeOK /\ ReaderState /\ [Next]_vars => ConnTypeOK'
<1> SUFFICES ASSUME LinkTypeOK, ConnTypeOK, ReaderState, [Next]_vars PROVE ConnTypeOK'
  OBVIOUS
<1> USE Bounds DEF ConnTypeOK, Nil
<1>1. CASE UNCHANGED <<rp, conn, conns, carrier, rd, on>>
  BY <1>1
<1>2. CASE ClientDies
  BY <1>2 DEF ClientDies, recvVars, readVars
<1>3. CASE CloseTunnel
  BY <1>3 DEF CloseTunnel, readVars
<1>4. CASE DialOk
  <2>1. conns + 1 \in Conns /\ conns + 1 \in 0..MaxConns /\ dialOn \in 0..MaxClients
    BY <1>4 DEF DialOk, ReaderState, LinkTypeOK, Conns
  <2> QED
    BY <1>4, <2>1 DEF DialOk
<1>5. CASE \E src, dst \in Addrs : Receive(src, dst) \/ ReceiveNewFlow(src, dst)
  BY <1>5 DEF Receive, ReceiveNewFlow, connVars, readVars
<1>6. CASE ReceiveFails \/ DialNotNeeded \/ DialRefused \/ DialBegins \/ DialFails
           \/ WriteDrops \/ WriteOk \/ WriteFails
  BY <1>6 DEF ReceiveFails, DialNotNeeded, DialRefused, DialBegins, DialFails, WriteDrops, WriteOk,
     WriteFails, SendReturns, connVars, readVars
<1>7. ASSUME NEW k \in Conns, Reading(k) PROVE ConnTypeOK'
  <2>1. CASE ReadTop(k)
    BY <2>1 DEF ReadTop, recvVars, connVars
  <2>2. CASE ReadFails(k) \/ \E src, dst \in Addrs : ReadReply(k, src, dst)
    BY <2>2 DEF ReadFails, ReadReply, recvVars, connVars
  <2>3. CASE ReadCleanup(k)
    BY <2>3 DEF ReadCleanup, recvVars
  <2> QED
    BY <1>7, <2>1, <2>2, <2>3 DEF Reading
<1>8. CASE \E c \in Chans : \/ ReaperDeletes(c) \/ ReaperReleases(c)
                            \/ WaiterDelivers(c) \/ WaiterGivesUp(c)
  BY <1>1, <1>8 DEF ReaperDeletes, ReaperReleases, WaiterDelivers, WaiterGivesUp, recvVars, connVars, readVars
<1>9. CASE ClientUp \/ ClientStalls \/ ClientRecovers \/ Cancel \/ RetryWindowOver
  BY <1>1, <1>9 DEF ClientUp, ClientStalls, ClientRecovers, Cancel, RetryWindowOver,
     recvVars, connVars, readVars
<1> QED
  BY <1>1, <1>2, <1>3, <1>4, <1>5, <1>6, <1>7, <1>8, <1>9
     DEF Next, Sending, vars, recvVars, connVars, readVars

LEMMA FlowTypeStep == FlowTypeOK /\ FlowState /\ [Next]_vars => FlowTypeOK'
<1> SUFFICES ASSUME FlowTypeOK, FlowState, [Next]_vars PROVE FlowTypeOK'
  OBVIOUS
<1> USE Bounds DEF FlowTypeOK, Nil
<1>1. CASE UNCHANGED <<pkt, asked, flowVars, chanVars>>
  BY <1>1 DEF flowVars, chanVars
<1>2. CASE ClientDies \/ CloseTunnel
  BY <1>2 DEF ClientDies, CloseTunnel, recvVars, flowVars, chanVars
<1>3. ASSUME NEW src \in Addrs, NEW dst \in Addrs, Receive(src, dst) PROVE FlowTypeOK'
  <2>1. flows[src] \in Chans
    BY <1>3 DEF Receive, Chans
  <2> QED
    BY <1>3, <2>1 DEF Receive, flowVars, chanVars
<1>4. ASSUME NEW src \in Addrs, NEW dst \in Addrs, ReceiveNewFlow(src, dst) PROVE FlowTypeOK'
  <2>1. chans + 1 \in Chans /\ chans' = chans + 1
    BY <1>4 DEF ReceiveNewFlow, Chans
  <2> QED
    BY <1>4, <2>1 DEF ReceiveNewFlow, Chans, chanVars
<1>5. CASE DialOk
  BY <1>5 DEF DialOk, flowVars, chanVars
<1>6. CASE DialRefused \/ DialFails \/ WriteDrops \/ WriteFails \/ WriteOk
  <2>0. /\ pkt \in [src : Addrs, dst : Addrs, ch : Chans]
        /\ waiters[pkt.ch] < MaxWaiters
    BY <1>6 DEF DialRefused, DialFails, WriteDrops, WriteOk, WriteFails, FlowState, InSend
  <2>1. pkt.src \in Addrs /\ pkt.dst \in Addrs /\ pkt.ch \in Chans
    BY <2>0
  <2>2. pkt' = NoPkt /\ UNCHANGED flowVars /\ queue' = queue
    BY <1>6 DEF DialRefused, DialFails, WriteDrops, WriteOk, WriteFails, SendReturns
  <2>3. waiters' \in [Chans -> 0..MaxWaiters]
    <3>1. waiters' = waiters \/ waiters' = [waiters EXCEPT ![pkt.ch] = @ + 1]
      BY <1>6 DEF DialRefused, DialFails, WriteDrops, WriteOk, WriteFails, SendReturns
    <3>2. waiters[pkt.ch] + 1 \in 0..MaxWaiters
      BY <2>0, <2>1
    <3> QED
      BY <2>1, <3>1, <3>2
  <2>4. asked' \subseteq Addrs \X Addrs
    <3>1. asked' = asked \/ asked' = asked \cup {<<pkt.src, pkt.dst>>}
      BY <1>6 DEF DialRefused, DialFails, WriteDrops, WriteOk, WriteFails
    <3>2. <<pkt.src, pkt.dst>> \in Addrs \X Addrs
      BY <2>1
    <3> QED
      BY <3>1, <3>2
  <2> QED
    BY <2>2, <2>3, <2>4 DEF flowVars
<1>7. ASSUME NEW k \in Conns, Reading(k) PROVE FlowTypeOK'
  <2>1. CASE ReadCleanup(k)
    BY <2>1 DEF ReadCleanup, recvVars, flowVars, chanVars
  <2>2. ASSUME NEW src \in Addrs, NEW dst \in Addrs, ReadReply(k, src, dst) PROVE FlowTypeOK'
    <3>1. queue' \in [Chans -> 0..ChanCap]
      <4> DEFINE c == respCh[dst]
      <4>1. \/ queue' = queue
            \/ c # Nil /\ queue[c] < ChanCap /\ queue' = [queue EXCEPT ![c] = @ + 1]
        BY <2>2 DEF ReadReply
      <4>2. c # Nil => c \in Chans
        BY DEF Chans
      <4> QED
        BY <4>1, <4>2
    <3> QED
      BY <2>2, <3>1 DEF ReadReply, recvVars, flowVars
  <2>3. CASE ReadTop(k) \/ ReadFails(k)
    BY <1>1, <2>3 DEF ReadTop, ReadFails, recvVars
  <2> QED
    BY <1>7, <2>1, <2>2, <2>3 DEF Reading
<1>8. ASSUME NEW c \in Chans, ReaperDeletes(c) \/ ReaperReleases(c) PROVE FlowTypeOK'
  BY <1>8 DEF ReaperDeletes, ReaperReleases, recvVars, chanVars
<1>9. ASSUME NEW c \in Chans, WaiterDelivers(c) \/ WaiterGivesUp(c) PROVE FlowTypeOK'
  BY <1>9 DEF WaiterDelivers, WaiterGivesUp, recvVars, flowVars
<1>10. CASE ClientUp \/ ClientStalls \/ ClientRecovers \/ Cancel \/ RetryWindowOver
            \/ ReceiveFails \/ DialNotNeeded \/ DialBegins
  BY <1>1, <1>10 DEF ClientUp, ClientStalls, ClientRecovers, Cancel, RetryWindowOver,
     ReceiveFails, DialNotNeeded, DialBegins, recvVars
<1> QED
  BY <1>1, <1>2, <1>3, <1>4, <1>5, <1>6, <1>7, <1>8, <1>9, <1>10
     DEF Next, Sending, vars, recvVars

LEMMA ReaderStep ==
  ConnTypeOK /\ ReaderState /\ [Next]_vars => ReaderState'
<1> SUFFICES ASSUME ConnTypeOK, ReaderState, [Next]_vars PROVE ReaderState'
  OBVIOUS
<1> USE DEF ReaderState, Reader, Nil
<1>0. /\ conn \in 0..conns /\ conns \in 0..MaxConns /\ Conns = 1..MaxConns
      /\ MaxConns \in Nat
      /\ rd \in [Conns -> {"none", "top", "reading", "cleanup", "gone"}]
      /\ on \in [Conns -> 0..MaxConns]
  BY Bounds DEF ConnTypeOK, Conns
<1>1. CASE UNCHANGED <<rp, conn, conns, dead, rd, on>>
  BY <1>1
<1>2. CASE CloseTunnel
  BY <1>0, <1>2 DEF CloseTunnel, readVars
<1>3. CASE DialOk
  <2>1. rp = "dialing" /\ conn = Nil /\ conns + 1 \in Conns
    BY <1>0, <1>3 DEF DialOk
  <2>2. \A k \in Conns : rd[k] \notin Reader
    BY <1>0, <2>1
  <2>3. /\ rd' = [rd EXCEPT ![conns + 1] = "top"] /\ conn' = conns + 1 /\ ~dead' /\ on' = on
        /\ rp' = "write"
    BY <1>3 DEF DialOk
  <2> QED
    BY <1>0, <2>1, <2>2, <2>3
<1>4. CASE DialBegins
  BY <1>0, <1>4 DEF DialBegins, readVars
<1>5. CASE \E src, dst \in Addrs : Receive(src, dst) \/ ReceiveNewFlow(src, dst)
  BY <1>5 DEF Receive, ReceiveNewFlow, connVars, readVars
<1>6. CASE ReceiveFails \/ DialNotNeeded \/ DialRefused \/ DialFails
           \/ WriteDrops \/ WriteOk \/ WriteFails
  BY <1>6 DEF ReceiveFails, DialNotNeeded, DialRefused, DialFails, WriteDrops, WriteOk,
     WriteFails, SendReturns, connVars, readVars
<1>7. ASSUME NEW k \in Conns, Reading(k) PROVE ReaderState'
  <2>1. CASE ReadTop(k)
    BY <1>0, <2>1 DEF ReadTop, recvVars, connVars
  <2>2. CASE ReadFails(k) \/ \E src, dst \in Addrs : ReadReply(k, src, dst)
    <3>1. /\ rd[k] = "reading"
          /\ rd' = [rd EXCEPT ![k] = "cleanup"] \/ rd' = [rd EXCEPT ![k] = "top"]
          /\ UNCHANGED <<rp, conn, conns, dead, on>>
      BY <2>2 DEF ReadFails, ReadReply, recvVars, connVars
    <3> QED
      BY <1>0, <3>1
  <2>3. CASE ReadCleanup(k)
    BY <1>0, <2>3 DEF ReadCleanup, recvVars
  <2> QED
    BY <1>7, <2>1, <2>2, <2>3 DEF Reading
<1>8. CASE \E c \in Chans : \/ ReaperDeletes(c) \/ ReaperReleases(c)
                            \/ WaiterDelivers(c) \/ WaiterGivesUp(c)
  BY <1>1, <1>8 DEF ReaperDeletes, ReaperReleases, WaiterDelivers, WaiterGivesUp, recvVars, connVars, readVars
<1>9. CASE ClientUp \/ ClientStalls \/ ClientRecovers \/ ClientDies \/ Cancel \/ RetryWindowOver
  BY <1>1, <1>9 DEF ClientUp, ClientStalls, ClientRecovers, ClientDies, Cancel, RetryWindowOver,
     recvVars, connVars, readVars
<1> QED
  BY <1>1, <1>2, <1>3, <1>4, <1>5, <1>6, <1>7, <1>8, <1>9
     DEF Next, Sending, vars, recvVars, connVars, readVars

LEMMA FlowStep == FlowTypeOK /\ FlowState /\ [Next]_vars => FlowState'
<1> SUFFICES ASSUME FlowTypeOK, FlowState, [Next]_vars PROVE FlowState'
  OBVIOUS
<1> USE DEF FlowState, InSend, Nil
<1>0. /\ flows \in [Addrs -> 0..MaxChans] /\ respCh \in [Addrs -> 0..MaxChans]
      /\ chans \in 0..MaxChans /\ Chans = 1..MaxChans
      /\ MaxChans \in Nat /\ MaxWaiters \in Nat \ {0}
      /\ reaper \in [Chans -> {"none", "armed", "deleted", "gone"}]
      /\ key \in [Chans -> Addrs \cup {Nil}]
      /\ waiters \in [Chans -> 0..MaxWaiters]
  BY Bounds DEF FlowTypeOK, Chans
<1>1. CASE UNCHANGED <<rp, pkt, flowVars, waiters>>
  BY <1>1 DEF flowVars
<1>2. CASE CloseTunnel \/ ReceiveFails
  BY <1>2 DEF CloseTunnel, ReceiveFails, flowVars, chanVars
<1>3. ASSUME NEW src \in Addrs, NEW dst \in Addrs, Receive(src, dst) PROVE FlowState'
  BY <1>0, <1>3 DEF Receive, flowVars, chanVars
<1>4. ASSUME NEW src \in Addrs, NEW dst \in Addrs, ReceiveNewFlow(src, dst) PROVE FlowState'
  <2>1. chans + 1 \in Chans /\ chans' = chans + 1 /\ waiters[chans + 1] = 0
    BY <1>0, <1>4 DEF ReceiveNewFlow
  <2> QED
    BY <1>0, <1>4, <2>1 DEF ReceiveNewFlow, chanVars
<1>5. CASE DialOk \/ DialNotNeeded \/ DialBegins
  BY <1>5 DEF DialOk, DialNotNeeded, DialBegins, flowVars, chanVars
<1>6. CASE DialRefused \/ DialFails \/ WriteDrops \/ WriteFails \/ WriteOk
  <2>1. /\ pkt \in [src : Addrs, dst : Addrs, ch : Chans]
        /\ pkt.ch <= chans
    BY <1>6 DEF DialRefused, DialFails, WriteDrops, WriteOk, WriteFails
  <2>2. rp' = "recv" /\ UNCHANGED flowVars
    BY <1>6 DEF DialRefused, DialFails, WriteDrops, WriteOk, WriteFails, SendReturns
  <2>3. waiters' = waiters \/ waiters' = [waiters EXCEPT ![pkt.ch] = @ + 1]
    BY <1>6 DEF DialRefused, DialFails, WriteDrops, WriteOk, WriteFails, SendReturns
  <2> QED
    BY <1>0, <2>1, <2>2, <2>3 DEF flowVars
<1>7. CASE \E k \in Conns : Reading(k)
  BY <1>1, <1>7 DEF Reading, ReadTop, ReadFails, ReadReply, ReadCleanup, recvVars, chanVars
<1>8. ASSUME NEW c \in Chans, ReaperDeletes(c) PROVE FlowState'
  <2>1. /\ reaper[c] = "armed" /\ reaper' = [reaper EXCEPT ![c] = "deleted"]
        /\ UNCHANGED <<rp, pkt, respCh, chans, key, waiters>>
    BY <1>8 DEF ReaperDeletes, recvVars, chanVars
  <2>2. \A a \in Addrs : flows'[a] <= chans
    BY <1>0, <1>8 DEF ReaperDeletes
  <2> QED
    BY <1>0, <2>1, <2>2
<1>11. ASSUME NEW c \in Chans, ReaperReleases(c) PROVE FlowState'
  <2>1. /\ reaper[c] = "deleted" /\ reaper' = [reaper EXCEPT ![c] = "gone"]
        /\ respCh' = [respCh EXCEPT ![key[c]] = Nil]
        /\ UNCHANGED <<rp, pkt, flows, chans, key, waiters>>
    BY <1>11 DEF ReaperReleases, recvVars, chanVars
  <2>2. \A a \in Addrs : respCh'[a] # Nil => respCh'[a] = respCh[a] /\ respCh[a] # c
    BY <1>0, <2>1
  <2> QED
    BY <1>0, <2>1, <2>2
<1>9. ASSUME NEW c \in Chans, WaiterDelivers(c) \/ WaiterGivesUp(c) PROVE FlowState'
  <2>1. /\ waiters[c] > 0 /\ waiters' = [waiters EXCEPT ![c] = @ - 1]
        /\ UNCHANGED <<rp, pkt, flowVars>>
    BY <1>9 DEF WaiterDelivers, WaiterGivesUp, recvVars
  <2>2. \A d \in Chans : waiters'[d] <= waiters[d] /\ waiters'[d] \in Nat
    BY <1>0, <2>1
  <2>3. rp \in InSend => pkt.ch \in Chans
    OBVIOUS
  <2> QED
    BY <1>0, <2>1, <2>2, <2>3 DEF flowVars
<1>10. CASE ClientUp \/ ClientStalls \/ ClientRecovers \/ ClientDies \/ Cancel \/ RetryWindowOver
  BY <1>1, <1>10 DEF ClientUp, ClientStalls, ClientRecovers, ClientDies, Cancel, RetryWindowOver,
     recvVars, chanVars
<1> QED
  BY <1>1, <1>2, <1>3, <1>4, <1>5, <1>6, <1>7, <1>8, <1>9, <1>10, <1>11
     DEF Next, Sending, vars, recvVars, chanVars

LEMMA Invariance == Spec => []IInv
<1>1. IInv /\ [Next]_vars => IInv'
  BY FlagTypeStep, LinkTypeStep, ConnTypeStep, FlowTypeStep, ReaderStep, FlowStep DEF IInv, TypeOK
<1> QED
  BY InitInv, <1>1, PTL DEF Spec

-----------------------------------------------------------------------------
\* Exactly one readLoop reads the channel in use, and a late cleanup of an older
\* readLoop never closes a channel dialled since, after any number of reconnects.
THEOREM SingleReader == Spec => []OneReader
<1>1. IInv => OneReader
  BY DEF IInv, TypeOK, ConnTypeOK, ReaderState, Reader, OneReader, Nil
<1> QED
  BY <1>1, Invariance, PTL

\* Every reply channel in respCh has a reaper that will still remove it, however
\* the two deletions of a reaper interleave with new flows of the same key.
THEOREM ChannelsReaped == Spec => []NoLeakedChannel
<1>1. IInv => NoLeakedChannel
  BY DEF IInv, FlowState, NoLeakedChannel
<1> QED
  BY <1>1, Invariance, PTL
=============================================================================
