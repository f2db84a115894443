---------------------------- MODULE TunnelStreams ---------------------------
(***************************************************************************)
(* The goroutines that use the tunnel while TunnelEngine's loop replaces   *)
(* the client under them: the SOCKS5 and transparent handlers              *)
(* (handleSOCKSClient, handleTransparentClient, which do the same with the *)
(* shared state) around dialStreamWithRetry, and the DNS forwarder's       *)
(* forwardOneDNSQuery. Each handler reads clientPtr several times; the     *)
(* client may be another one each time.                                    *)
(***************************************************************************)
EXTENDS TunnelEngine, FiniteSets

CONSTANTS
  Streams,    \* handler goroutines
  Queries,    \* DNS query goroutines
  Present,    \* bound: the goroutines served beside each other in one behaviour
  MaxPolls    \* how often a query polls for a client: 4 in the code

ASSUME StreamsAssumption ==
  /\ IsFiniteSet(Streams)
  /\ IsFiniteSet(Queries)
  /\ Present \subseteq SUBSET (Streams \cup Queries)
  /\ MaxPolls \in Nat

VARIABLES
  hpc,       \* where handler s is
  cl,        \* its local cl
  ncl,       \* dialStreamWithRetry's local ncl
  remote,    \* the client that carries its channel
  qpc,       \* where query q is
  polls,     \* polls it made
  qcl        \* its client

streamVars == <<hpc, cl, ncl, remote>>
queryVars  == <<qpc, polls, qcl>>
allVars    == <<vars, streamVars, queryVars>>

ClientOrNil == 0..MaxClients

\* The type invariant of the handlers' state, a part of StreamsCounted.
StreamTypeOK ==
  /\ hpc \in [Streams -> {"absent", "idle", "start", "dial", "retry", "redial", "reread", "piping"}]
  /\ cl \in [Streams -> ClientOrNil]
  /\ ncl \in [Streams -> ClientOrNil]
  /\ remote \in [Streams -> ClientOrNil]
  /\ qpc \in [Queries -> {"absent", "idle", "start", "poll", "dial", "exchange"}]
  /\ polls \in [Queries -> 0..MaxPolls]
  /\ qcl \in [Queries -> ClientOrNil]

StreamInit ==
  /\ Init
  /\ \E present \in Present :
       /\ hpc = [s \in Streams |-> IF s \in present THEN "idle" ELSE "absent"]
       /\ qpc = [q \in Queries |-> IF q \in present THEN "idle" ELSE "absent"]
  /\ cl = [s \in Streams |-> Nil]
  /\ ncl = [s \in Streams |-> Nil]
  /\ remote = [s \in Streams |-> Nil]
  /\ polls = [q \in Queries |-> 0]
  /\ qcl = [q \in Queries |-> Nil]

-----------------------------------------------------------------------------
(* handleSOCKSClient / handleTransparentClient *)

Go(s, from, to) == hpc[s] = from /\ hpc' = [hpc EXCEPT ![s] = to]

\* The test the code writes as: cl == nil || cl.IsDead().
Usable(p) == p # Nil /\ ~dead[p]

\* What a handler may do to the engine: nothing, or mark clients dead.
EngineUntouched == UNCHANGED vars
OnlyMarksDead(G) ==
  /\ MarkDead(G)
  /\ UNCHANGED <<loopVars, gen, missed, alive, waiter, active, clientPtr, ctxDone,
                 stop, rules, st>>

\* Give up: the reply is written, deferred closes run, locals are gone.
GiveUp(s, from) ==
  /\ Go(s, from, "idle")
  /\ cl' = [cl EXCEPT ![s] = Nil]
  /\ ncl' = [ncl EXCEPT ![s] = Nil]
  /\ remote' = [remote EXCEPT ![s] = Nil]
  /\ UNCHANGED queryVars

\* The listener accepts while its context is not done.
Accept(s) ==
  /\ listening = "up" /\ ~ctxDone
  /\ Go(s, "idle", "start")
  /\ UNCHANGED <<cl, ncl, remote, queryVars>> /\ EngineUntouched

\* The SOCKS5 request is malformed, asks for something else than a connection or
\* takes 30 s; or the destination is unknown, local or the daemon's own port.
RejectRequest(s) == GiveUp(s, "start") /\ EngineUntouched

\* cl := curClient(): nil or dead is refused (fail-closed) ...
RefuseNoClient(s) ==
  /\ ~Usable(clientPtr)
  /\ GiveUp(s, "start") /\ EngineUntouched

\* ... any other client is dialled.
TakeClient(s) ==
  /\ Usable(clientPtr)
  /\ Go(s, "start", "dial")
  /\ cl' = [cl EXCEPT ![s] = clientPtr]
  /\ UNCHANGED <<ncl, remote, queryVars>> /\ EngineUntouched

\* dialStreamWithRetry, first dial: a channel is opened.
DialOk(s) ==
  /\ Go(s, "dial", "reread")
  /\ ~dead[cl[s]] /\ conn[cl[s]] = "up"
  /\ remote' = [remote EXCEPT ![s] = cl[s]]
  /\ UNCHANGED <<cl, ncl, queryVars>> /\ EngineUntouched

\* The client died meanwhile (IsDead), the target is refused for good, 8 s (or the
\* tunnel's context, which the dial watches) are over, or the session is gone with
\* an error whose text isTransportDeath does not know, such as a broken pipe.
DialFails(s) == GiveUp(s, "dial") /\ EngineUntouched

\* isTransportDeath knows the error: the session is gone, the client is marked dead.
DialFindsDeath(s) ==
  /\ GiveUp(s, "dial")
  /\ ~dead[cl[s]] /\ conn[cl[s]] = "closed"
  /\ OnlyMarksDead({cl[s]})

\* isStreamRetryable: the server could not reach the target; the handler looks
\* at the current client again and sleeps 300 ms, or gives up.
DialRetryable(s) ==
  /\ Go(s, "dial", "retry")
  /\ ~dead[cl[s]] /\ conn[cl[s]] = "up"
  /\ UNCHANGED <<cl, ncl, remote, queryVars>> /\ EngineUntouched

RetryTakesClient(s) ==
  /\ Usable(clientPtr)
  /\ Go(s, "retry", "redial")
  /\ ncl' = [ncl EXCEPT ![s] = clientPtr]
  /\ UNCHANGED <<cl, remote, queryVars>> /\ EngineUntouched

RetryRefused(s) ==
  /\ ~Usable(clientPtr)
  /\ GiveUp(s, "retry") /\ EngineUntouched

RedialOk(s) ==
  /\ Go(s, "redial", "reread")
  /\ conn[ncl[s]] = "up"
  /\ remote' = [remote EXCEPT ![s] = ncl[s]]
  /\ UNCHANGED <<cl, ncl, queryVars>> /\ EngineUntouched

\* As DialFails: refused, too late, or gone with an error that is not recognised.
RedialFails(s) == GiveUp(s, "redial") /\ EngineUntouched

\* Mutant: the handler blames whatever client is current by then.
RedialFindsDeath_BlamesCurrent(s) ==
  /\ GiveUp(s, "redial")
  /\ conn[ncl[s]] = "closed"
  /\ OnlyMarksDead({clientPtr, cl[s]} \ {Nil})

\* dialStreamWithRetry marks ncl, and then its caller marks cl, which may be an
\* older client than the one whose death was seen.
RedialFindsDeath(s) ==
  /\ GiveUp(s, "redial")
  /\ conn[ncl[s]] = "closed"
  /\ OnlyMarksDead({ncl[s], cl[s]})

\* Mutant: the stream is not counted when the client was replaced since the dial.
CountStream_SameClientOnly(s) ==
  /\ clientPtr # Nil
  /\ Go(s, "reread", "piping")
  /\ cl' = [cl EXCEPT ![s] = clientPtr]
  /\ active' = IF remote[s] = clientPtr THEN [active EXCEPT ![clientPtr] = @ + 1] ELSE active
  /\ UNCHANGED <<ncl, remote, queryVars>>
  /\ UNCHANGED <<loopVars, gen, clientVars, clientPtr, ctxDone, stop, rules, st>>

\* cl = curClient() once more, and cl.add(): the client counted on is the current
\* one, not necessarily the one that carries the channel.
CountStream(s) ==
  /\ clientPtr # Nil
  /\ Go(s, "reread", "piping")
  /\ cl' = [cl EXCEPT ![s] = clientPtr]
  /\ active' = [active EXCEPT ![clientPtr] = @ + 1]
  /\ UNCHANGED <<ncl, remote, queryVars>>
  /\ UNCHANGED <<loopVars, gen, clientVars, clientPtr, ctxDone, stop, rules, st>>

\* Mutant: waits for the next client with the channel open.
RereadFindsNone_Waits(s) ==
  /\ clientPtr = Nil /\ hpc[s] = "reread"
  /\ UNCHANGED allVars

RereadFindsNone(s) ==
  /\ clientPtr = Nil
  /\ GiveUp(s, "reread") /\ EngineUntouched

\* pipeBoth returned; the deferred cl.remove() runs on the client counted.
StreamEnds(s) ==
  /\ GiveUp(s, "piping")
  /\ active' = [active EXCEPT ![cl[s]] = @ - 1]
  /\ UNCHANGED <<loopVars, gen, clientVars, clientPtr, ctxDone, stop, rules, st>>

-----------------------------------------------------------------------------
(* dnsForwardLoop / forwardOneDNSQuery *)

QGo(q, from, to) == qpc[q] = from /\ qpc' = [qpc EXCEPT ![q] = to]

QueryArrives(q) ==
  /\ listening = "up" /\ ~ctxDone
  /\ QGo(q, "idle", "start")
  /\ UNCHANGED <<polls, qcl, streamVars>> /\ EngineUntouched

QueryTakesClient(q) ==
  /\ clientPtr # Nil
  /\ qpc[q] \in {"start", "poll"} /\ qpc' = [qpc EXCEPT ![q] = "dial"]
  /\ qcl' = [qcl EXCEPT ![q] = clientPtr]
  /\ UNCHANGED <<polls, streamVars>> /\ EngineUntouched

\* Mutant: polls for a client without counting the polls.
QueryPolls_Forever(q) ==
  /\ clientPtr = Nil
  /\ qpc[q] \in {"start", "poll"} /\ qpc' = [qpc EXCEPT ![q] = "poll"]
  /\ UNCHANGED <<qcl, polls, streamVars>> /\ EngineUntouched

\* No client: poll again after 500 ms, at most MaxPolls times.
QueryPolls(q) ==
  /\ clientPtr = Nil /\ polls[q] < MaxPolls
  /\ qpc[q] \in {"start", "poll"} /\ qpc' = [qpc EXCEPT ![q] = "poll"]
  /\ polls' = [polls EXCEPT ![q] = @ + 1]
  /\ UNCHANGED <<qcl, streamVars>> /\ EngineUntouched

QueryEnds(q, from) ==
  /\ QGo(q, from, "idle")
  /\ polls' = [polls EXCEPT ![q] = 0]
  /\ qcl' = [qcl EXCEPT ![q] = Nil]
  /\ UNCHANGED streamVars /\ EngineUntouched

\* Dropped: still no client, or the tunnel is cancelled while waiting.
QueryDropped(q) ==
  /\ ctxDone \/ (clientPtr = Nil /\ polls[q] = MaxPolls)
  /\ QueryEnds(q, "poll")

QueryDialOk(q) ==
  /\ QGo(q, "dial", "exchange")
  /\ conn[qcl[q]] = "up"
  /\ UNCHANGED <<polls, qcl, streamVars>> /\ EngineUntouched

\* The dial fails or takes 5 s; a death seen here marks nobody dead.
QueryDialFails(q) == QueryEnds(q, "dial")

\* The answer came back, was malformed, or 5 s are over.
QueryExchange(q) == QueryEnds(q, "exchange")

-----------------------------------------------------------------------------
Handler(s) ==
  \/ RejectRequest(s) \/ RefuseNoClient(s) \/ TakeClient(s)
  \/ DialOk(s) \/ DialFails(s) \/ DialFindsDeath(s) \/ DialRetryable(s)
  \/ RetryTakesClient(s) \/ RetryRefused(s)
  \/ RedialOk(s) \/ RedialFails(s) \/ RedialFindsDeath(s)
  \/ CountStream(s) \/ RereadFindsNone(s)

Query(q) ==
  \/ QueryTakesClient(q) \/ QueryPolls(q) \/ QueryDropped(q)
  \/ QueryDialOk(q) \/ QueryDialFails(q) \/ QueryExchange(q)

EngineStep == Next /\ UNCHANGED <<streamVars, queryVars>>

StreamNext ==
  \/ EngineStep
  \/ \E s \in Streams : Accept(s) \/ Handler(s) \/ StreamEnds(s)
  \/ \E q \in Queries : QueryArrives(q) \/ Query(q)

StreamSpec == StreamInit /\ [][StreamNext]_allVars

(* A handler's and a query's own steps are never postponed for ever. *)
StreamFairSpec ==
  /\ StreamSpec
  /\ \A s \in Streams : WF_allVars(Handler(s))
  /\ \A q \in Queries : WF_allVars(Query(q))

-----------------------------------------------------------------------------
(* Properties *)

\* Marking a client dead closes its session, so nobody may blame a healthy one:
\* whoever marks a client dead (keepAlive, a first dial, a retry, or the caller
\* of a retry that failed on another client) does so when its session is not up.
NoHealthyClientKilled ==
  [][\A g \in Gens : ~dead[g] /\ dead'[g] => conn[g] # "up"]_allVars

\* tunClient.active is exact: the streams being piped that were counted on the
\* client, although the client is read anew between the dial and the count. (And
\* StreamTypeOK.)
StreamsCounted ==
  StreamTypeOK /\ \A g \in Gens :
    active[g] = Cardinality({s \in Streams : hpc[s] = "piping" /\ cl[s] = g})

\* A connection accepted from an app is always answered: it is piped or refused,
\* also when the client disappears between two reads of it.
HandlersProgress == \A s \in Streams :
  hpc[s] \in {"start", "dial", "retry", "redial", "reread"} ~> hpc[s] \in {"idle", "piping"}

\* A DNS query that finds no client is dropped after its polls, never kept.
QueriesEnd == \A q \in Queries : qpc[q] \in {"start", "poll", "dial", "exchange"} ~> qpc[q] = "idle"
=============================================================================
