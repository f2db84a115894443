----------------------------- MODULE UdpGateway -----------------------------
(***************************************************************************)
(* UDP through the tunnel: the receive loop of serveTransparentUDP         *)
(* (cmd/sshcustomd/engine.go), its flow table with one reaper goroutine    *)
(* per flow and one waiter goroutine per datagram, and udpgwTunnel         *)
(* (cmd/sshcustomd/udpgw.go): one channel to the UDPGW server that the     *)
(* receive loop dials and a readLoop goroutine reads. The SSH client is    *)
(* the one TunnelEngine publishes; here it appears, stalls and disappears. *)
(***************************************************************************)
EXTENDS Naturals

CONSTANTS
  Addrs,        \* ip:port strings; an app's and a server's may be the same one
  MaxClients, MaxConns, MaxChans,   \* bounds: clients, dials and flows
  MaxWaiters,   \* bound: datagrams of one flow waiting for a reply
  ChanCap       \* replies a flow's channel holds: 16 in the code

ASSUME UdpGatewayAssumption ==
  {MaxClients, MaxConns, MaxChans, MaxWaiters, ChanCap} \subseteq Nat \ {0}

VARIABLES
  client,      \* the current SSH client, or Nil
  clients,     \* clients so far
  stalled,     \* is the current client's link stalled?
  ctxDone,     \* the listeners' context is cancelled
  rp,          \* where the receive loop is
  pkt,         \* its datagram: source, destination and the flow's channel
  dialOn,      \* the client dial() uses
  conn,        \* udpgwTunnel.conn: Nil or a channel to the gateway
  conns,       \* channels opened so far
  carrier,     \* carrier[k]: the client of channel k if k is open, else Nil
  dead, failedOnce,
  recently,    \* less than 30 s since lastDialTry
  rd,          \* rd[k]: the readLoop goroutine started with channel k
  on,          \* on[k]: the channel it reads
  asked,       \* <<source, destination>> of datagrams sent on the open channel
  flows,       \* flows[a]: the channel of the flow from a, or Nil
  respCh,      \* udpgwTunnel.respCh
  chans,       \* channels made so far
  reaper,      \* reaper[c]: the goroutine that ends the flow of channel c
  key,         \* key[c]: the flow key that goroutine was given
  queue,       \* replies in channel c
  waiters      \* waiter goroutines of channel c

carrierVars == <<client, clients, stalled, ctxDone>>
recvVars == <<rp, pkt, dialOn>>
connVars == <<conn, conns, carrier, dead, failedOnce, recently>>
readVars == <<rd, on>>
flowVars == <<flows, respCh, chans, reaper, key>>
chanVars == <<queue, waiters>>
vars == <<carrierVars, recvVars, connVars, readVars, asked, flowVars, chanVars>>

Nil == 0
Clients == 1..MaxClients
Conns == 1..MaxConns
Chans == 1..MaxChans
NoPkt == [src |-> Nil, dst |-> Nil, ch |-> Nil]

LinkTypeOK ==
  /\ client \in 0..clients /\ clients \in 0..MaxClients
  /\ dialOn \in 0..MaxClients

ConnTypeOK ==
  /\ rp \in {"recv", "dial", "dialing", "write", "closing", "closed"}
  /\ conn \in 0..conns /\ conns \in 0..MaxConns
  /\ carrier \in [Conns -> 0..MaxClients]
  /\ rd \in [Conns -> {"none", "top", "reading", "cleanup", "gone"}]
  /\ on \in [Conns -> 0..MaxConns]

FlowTypeOK ==
  /\ pkt \in {NoPkt} \cup [src : Addrs, dst : Addrs, ch : Chans]
  /\ asked \subseteq Addrs \X Addrs
  /\ flows \in [Addrs -> 0..MaxChans] /\ respCh \in [Addrs -> 0..MaxChans]
  /\ chans \in 0..MaxChans
  /\ reaper \in [Chans -> {"none", "armed", "deleted", "gone"}]
  /\ key \in [Chans -> Addrs \cup {Nil}]
  /\ queue \in [Chans -> 0..ChanCap] /\ waiters \in [Chans -> 0..MaxWaiters]

FlagTypeOK == {stalled, ctxDone, dead, failedOnce, recently} \subseteq BOOLEAN

\* The type invariant: in particular no reply channel holds more than its capacity.
TypeOK == LinkTypeOK /\ ConnTypeOK /\ FlowTypeOK /\ FlagTypeOK

Init ==
  /\ client = Nil /\ clients = 0 /\ stalled = FALSE /\ ctxDone = FALSE
  /\ rp = "recv"
  /\ pkt = NoPkt
  /\ dialOn = Nil
  /\ conn = Nil /\ conns = 0 /\ carrier = [k \in Conns |-> Nil]
  /\ dead = FALSE /\ failedOnce = FALSE /\ recently = FALSE
  /\ rd = [k \in Conns |-> "none"] /\ on = [k \in Conns |-> Nil]
  /\ asked = {}
  /\ flows = [a \in Addrs |-> Nil] /\ respCh = [a \in Addrs |-> Nil]
  /\ chans = 0
  /\ reaper = [c \in Chans |-> "none"]
  /\ key = [c \in Chans |-> Nil]
  /\ queue = [c \in Chans |-> 0] /\ waiters = [c \in Chans |-> 0]

-----------------------------------------------------------------------------
(* The SSH client *)

ClientUp ==
  /\ client = Nil /\ clients < MaxClients
  /\ clients' = clients + 1
  /\ client' = clients'
  /\ stalled' = FALSE
  /\ UNCHANGED <<ctxDone, recvVars, connVars, readVars, asked, flowVars, chanVars>>

ClientStalls ==
  /\ client # Nil /\ ~stalled
  /\ stalled' = TRUE
  /\ UNCHANGED <<client, clients, ctxDone, recvVars, connVars, readVars, asked, flowVars, chanVars>>

ClientRecovers ==
  /\ stalled
  /\ stalled' = FALSE
  /\ UNCHANGED <<client, clients, ctxDone, recvVars, connVars, readVars, asked, flowVars, chanVars>>

\* The session is closed, and with it every channel it carries.
ClientDies ==
  /\ client # Nil
  /\ client' = Nil
  /\ stalled' = FALSE
  /\ carrier' = [k \in Conns |-> IF carrier[k] = client THEN Nil ELSE carrier[k]]
  /\ asked' = {}
  /\ UNCHANGED <<clients, ctxDone, recvVars, conn, conns, dead, failedOnce, recently,
                 readVars, flowVars, chanVars>>

Cancel ==
  /\ ~ctxDone
  /\ ctxDone' = TRUE
  /\ UNCHANGED <<client, clients, stalled, recvVars, connVars, readVars, asked, flowVars, chanVars>>

-----------------------------------------------------------------------------
(* serveTransparentUDP: the receive loop *)

\* A datagram of a known flow.
Receive(src, dst) ==
  /\ rp = "recv" /\ flows[src] # Nil /\ waiters[flows[src]] < MaxWaiters
  /\ rp' = "dial"
  /\ pkt' = [src |-> src, dst |-> dst, ch |-> flows[src]]
  /\ UNCHANGED <<carrierVars, dialOn, connVars, readVars, asked, flowVars, chanVars>>

\* A datagram of a new flow: ResponseChan registers its channel under the source
\* address, and a reaper goroutine starts.
ReceiveNewFlow(src, dst) ==
  /\ rp = "recv" /\ flows[src] = Nil /\ chans < MaxChans
  /\ rp' = "dial"
  /\ chans' = chans + 1
  /\ pkt' = [src |-> src, dst |-> dst, ch |-> chans']
  /\ flows' = [flows EXCEPT ![src] = chans']
  /\ respCh' = [respCh EXCEPT ![src] = chans']
  /\ reaper' = [reaper EXCEPT ![chans'] = "armed"]
  /\ key' = [key EXCEPT ![chans'] = src]
  /\ UNCHANGED <<carrierVars, dialOn, connVars, readVars, asked, chanVars>>

\* recvFrom fails: the loop ends. (A timeout is simply tried again.)
ReceiveFails ==
  /\ rp = "recv"
  /\ rp' = "closing"
  /\ UNCHANGED <<carrierVars, pkt, dialOn, connVars, readVars, asked, flowVars, chanVars>>

\* The deferred Close of the udpgwTunnel, which cancels its own context.
CloseTunnel ==
  /\ rp = "closing"
  /\ rp' = "closed"
  /\ ctxDone' = TRUE
  /\ carrier' = [k \in Conns |-> IF k = conn THEN Nil ELSE carrier[k]]
  /\ asked' = {}
  /\ conn' = Nil
  /\ UNCHANGED <<client, clients, stalled, pkt, dialOn, conns, dead, failedOnce, recently,
                 readVars, flowVars, chanVars>>

-----------------------------------------------------------------------------
(* Send: dial, then write *)

\* Send returned: with nil (a silent drop too) one more goroutine waits for a reply.
SendReturns(ok) ==
  /\ rp' = "recv"
  /\ waiters' = IF ok THEN [waiters EXCEPT ![pkt.ch] = @ + 1] ELSE waiters
  /\ pkt' = NoPkt
  /\ UNCHANGED <<carrierVars, conns, carrier, readVars, flowVars, queue>>

DialNotNeeded ==
  /\ rp = "dial" /\ conn # Nil /\ ~dead
  /\ rp' = "write"
  /\ UNCHANGED <<carrierVars, pkt, dialOn, connVars, readVars, asked, flowVars, chanVars>>

\* Within 30 s of a failed dial, or without a usable client.
DialRefused ==
  /\ rp = "dial" /\ (conn = Nil \/ dead)
  /\ (failedOnce /\ recently) \/ client = Nil
  /\ SendReturns(failedOnce)
  /\ UNCHANGED <<dialOn, conn, dead, failedOnce, recently, asked>>

\* The channel is opened with t.mu held and no time limit.
DialBegins ==
  /\ rp = "dial" /\ (conn = Nil \/ dead)
  /\ ~(failedOnce /\ recently) /\ client # Nil /\ conns < MaxConns
  /\ rp' = "dialing"
  /\ dialOn' = client
  /\ recently' = TRUE
  /\ UNCHANGED <<carrierVars, pkt, conn, conns, carrier, dead, failedOnce, readVars, asked,
                 flowVars, chanVars>>

\* Mutant: only a refusal ends the dial, not the end of the session.
DialFails_NotOnDeath ==
  /\ rp = "dialing" /\ dialOn = client /\ ~stalled
  /\ failedOnce' = TRUE
  /\ dialOn' = Nil
  /\ SendReturns(TRUE)
  /\ UNCHANGED <<conn, dead, recently, asked>>

\* UDPGW is not there, the session ended, or the context is done. dial sets
\* failedOnce before Send looks at it, so Send returns nil.
DialFails ==
  /\ rp = "dialing" /\ (dialOn # client \/ ~stalled \/ ctxDone)
  /\ failedOnce' = TRUE
  /\ dialOn' = Nil
  /\ SendReturns(TRUE)
  /\ UNCHANGED <<conn, dead, recently, asked>>

DialOk ==
  /\ rp = "dialing" /\ dialOn = client /\ ~stalled
  /\ rp' = "write"
  /\ conns' = conns + 1
  /\ conn' = conns'
  /\ carrier' = [carrier EXCEPT ![conns'] = dialOn]
  /\ dialOn' = Nil
  /\ dead' = FALSE /\ failedOnce' = FALSE
  /\ rd' = [rd EXCEPT ![conns'] = "top"]
  /\ asked' = {}
  /\ UNCHANGED <<carrierVars, pkt, recently, on, flowVars, chanVars>>

\* Send finds t.conn nil: the datagram is dropped.
WriteDrops ==
  /\ rp = "write" /\ conn = Nil
  /\ SendReturns(TRUE)
  /\ UNCHANGED <<dialOn, conn, dead, failedOnce, recently, asked>>

\* conn.Write blocks while the link is stalled.
WriteOk ==
  /\ rp = "write" /\ conn # Nil /\ carrier[conn] # Nil /\ ~stalled
  /\ asked' = asked \cup {<<pkt.src, pkt.dst>>}
  /\ SendReturns(TRUE)
  /\ UNCHANGED <<dialOn, conn, dead, failedOnce, recently>>

\* Mutant: a failed write forgets the channel.
WriteFails_ForgetsConn ==
  /\ rp = "write" /\ conn # Nil /\ carrier[conn] = Nil
  /\ conn' = Nil
  /\ SendReturns(FALSE)
  /\ UNCHANGED <<dialOn, dead, failedOnce, recently, asked>>

\* The channel Send read from t.conn is closed, and t.conn perhaps nil by now;
\* Send leaves dropping it to the readLoop.
WriteFails ==
  /\ rp = "write" /\ (conn # Nil => carrier[conn] = Nil)
  /\ SendReturns(FALSE)
  /\ UNCHANGED <<dialOn, conn, dead, failedOnce, recently, asked>>

-----------------------------------------------------------------------------
(* readLoop *)

ReadTop(k) ==
  /\ rd[k] = "top" /\ rp # "dialing"
  /\ rd' = [rd EXCEPT ![k] = IF ctxDone \/ conn = Nil THEN "cleanup" ELSE "reading"]
  /\ on' = [on EXCEPT ![k] = conn]
  /\ UNCHANGED <<carrierVars, recvVars, connVars, asked, flowVars, chanVars>>

\* A reply to the datagram src sent to dst. The frame only carries dst, and the
\* channel is looked up under it; the reply is dropped if there is none or it is full.
ReadReply(k, src, dst) ==
  /\ rd[k] = "reading" /\ on[k] # Nil /\ carrier[on[k]] # Nil /\ ~stalled
  /\ <<src, dst>> \in asked
  /\ LET c == respCh[dst]
     IN  queue' = IF c # Nil /\ queue[c] < ChanCap THEN [queue EXCEPT ![c] = @ + 1] ELSE queue
  /\ rd' = [rd EXCEPT ![k] = "top"]
  /\ UNCHANGED <<carrierVars, recvVars, connVars, on, asked, flowVars, waiters>>

\* The channel was closed, or the frame is malformed.
ReadFails(k) ==
  /\ rd[k] = "reading"
  /\ rd' = [rd EXCEPT ![k] = "cleanup"]
  /\ UNCHANGED <<carrierVars, recvVars, connVars, on, asked, flowVars, chanVars>>

\* Mutant: the deferred function sets the flag only.
ReadCleanup_FlagOnly(k) ==
  /\ rd[k] = "cleanup" /\ rp # "dialing"
  /\ rd' = [rd EXCEPT ![k] = "gone"]
  /\ on' = [on EXCEPT ![k] = Nil]
  /\ dead' = TRUE
  /\ UNCHANGED <<carrierVars, recvVars, asked, conn, conns, carrier, failedOnce, recently,
                 flowVars, chanVars>>

\* The deferred function (t.mu must be free) closes whatever t.conn is then.
ReadCleanup(k) ==
  /\ rd[k] = "cleanup" /\ rp # "dialing"
  /\ rd' = [rd EXCEPT ![k] = "gone"]
  /\ on' = [on EXCEPT ![k] = Nil]
  /\ carrier' = [j \in Conns |-> IF j = conn THEN Nil ELSE carrier[j]]
  /\ asked' = {}
  /\ conn' = Nil
  /\ dead' = TRUE
  /\ UNCHANGED <<carrierVars, recvVars, conns, failedOnce, recently, flowVars, chanVars>>

RetryWindowOver ==
  /\ recently
  /\ recently' = FALSE
  /\ UNCHANGED <<carrierVars, recvVars, conn, conns, carrier, dead, failedOnce, readVars, asked,
                 flowVars, chanVars>>

-----------------------------------------------------------------------------
(* Reapers and waiters *)

\* 30 s after the flow began, or the context is done: flows loses the key ...
ReaperDeletes(c) ==
  /\ reaper[c] = "armed"
  /\ reaper' = [reaper EXCEPT ![c] = "deleted"]
  /\ flows' = [flows EXCEPT ![key[c]] = Nil]
  /\ UNCHANGED <<carrierVars, recvVars, connVars, readVars, asked, respCh, chans, key, chanVars>>

\* Mutant: ReleaseResponse is forgotten.
ReaperReleases_Forgets(c) ==
  /\ reaper[c] = "deleted"
  /\ reaper' = [reaper EXCEPT ![c] = "gone"]
  /\ UNCHANGED <<carrierVars, recvVars, connVars, readVars, asked, flows, respCh, chans, key,
                 chanVars>>

\* ... and then, after flowsMu is released, respCh does.
ReaperReleases(c) ==
  /\ reaper[c] = "deleted"
  /\ reaper' = [reaper EXCEPT ![c] = "gone"]
  /\ respCh' = [respCh EXCEPT ![key[c]] = Nil]
  /\ UNCHANGED <<carrierVars, recvVars, connVars, readVars, asked, flows, chans, key, chanVars>>

WaiterDelivers(c) ==
  /\ waiters[c] > 0 /\ queue[c] > 0
  /\ waiters' = [waiters EXCEPT ![c] = @ - 1]
  /\ queue' = [queue EXCEPT ![c] = @ - 1]
  /\ UNCHANGED <<carrierVars, recvVars, connVars, readVars, asked, flowVars>>

\* 30 s without a reply, or the context is done.
WaiterGivesUp(c) ==
  /\ waiters[c] > 0
  /\ waiters' = [waiters EXCEPT ![c] = @ - 1]
  /\ UNCHANGED <<carrierVars, recvVars, connVars, readVars, asked, flowVars, queue>>

-----------------------------------------------------------------------------
Sending ==
  \/ DialNotNeeded \/ DialRefused \/ DialBegins \/ DialFails \/ DialOk
  \/ WriteDrops \/ WriteOk \/ WriteFails

Reading(k) ==
  \/ ReadTop(k) \/ ReadFails(k) \/ ReadCleanup(k)
  \/ \E src, dst \in Addrs : ReadReply(k, src, dst)

Next ==
  \/ ClientUp \/ ClientStalls \/ ClientRecovers \/ ClientDies \/ Cancel
  \/ \E src, dst \in Addrs : Receive(src, dst) \/ ReceiveNewFlow(src, dst)
  \/ ReceiveFails \/ CloseTunnel \/ Sending \/ RetryWindowOver
  \/ \E k \in Conns : Reading(k)
  \/ \E c \in Chans : ReaperDeletes(c) \/ ReaperReleases(c) \/ WaiterDelivers(c) \/ WaiterGivesUp(c)

Spec == Init /\ [][Next]_vars

\* The receive loop waits for an answer of the gateway's side of a live session.
AwaitsServer ==
  \/ rp = "dialing" /\ dialOn = client
  \/ rp = "write" /\ conn # Nil /\ carrier[conn] # Nil

(* The goroutines run on whenever they wait for nobody. Nothing is assumed of *)
(* the server of a live session: it need not answer the opening of a channel, *)
(* nor take what is written to one.                                           *)
FairSpec ==
  /\ Spec
  /\ WF_vars(~AwaitsServer /\ Sending) /\ WF_vars(CloseTunnel)
  /\ \A k \in Conns : WF_vars(ReadTop(k)) /\ WF_vars(ReadCleanup(k))
                      /\ WF_vars(carrier[k] = Nil /\ ReadFails(k))

-----------------------------------------------------------------------------
(* Properties *)

\* Exactly one goroutine reads the channel in use: none is read by nobody (its
\* replies would be lost) or by two readLoops (frames would be torn apart). And a
\* readLoop's deferred cleanup, which closes whatever t.conn is by then, never closes
\* a channel dialled after its own was lost: a reconnect is not undone. (And TypeOK.)
OneReader ==
  /\ TypeOK
  /\ \A k \in Conns : /\ conn = k => rd[k] \in {"top", "reading", "cleanup"}
                      /\ rd[k] = "reading" /\ conn # Nil => on[k] = conn /\ conn = k
                      /\ rd[k] = "cleanup" => conn \in {Nil, k}

\* The table does not grow for ever: a registered reply channel has a reaper that
\* will still remove it.
NoLeakedChannel ==
  \A a \in Addrs : respCh[a] # Nil => reaper[respCh[a]] \in {"armed", "deleted"}

\* The one receive loop serves every app, and dial and Write have no time limit of
\* their own. It comes back to its socket unless it waits for the server of one
\* live session for ever: the end of that session, at whatever moment, releases it.
LoopNotStuck ==
  rp \in {"dial", "dialing", "write"} ~> rp = "recv" \/ conns = MaxConns \/ []AwaitsServer

\* A lost gateway channel is dropped without waiting for the next datagram.
LostConnDropped == \A k \in Conns :
  conn = k /\ carrier[k] = Nil ~> conn # k

\* udpgw.go:206: ResponseChan "receives UDP responses for the given key". The reply to
\* a datagram of an open flow with room in its channel goes into that channel.
ReplyReachesFlow ==
  [][\A k \in Conns, src, dst \in Addrs :
       ReadReply(k, src, dst) /\ flows[src] # Nil /\ queue[flows[src]] < ChanCap
         => queue'[flows[src]] = queue[flows[src]] + 1]_vars
=============================================================================
