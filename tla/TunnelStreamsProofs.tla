------------------------ MODULE TunnelStreamsProofs ------------------------
(***************************************************************************)
(* Proofs about TunnelStreams, for any finite set of handlers and queries. *)
(* The engine's own invariant IInv (TunnelEngineProofs) is kept by every   *)
(* handler; on top of it, StreamOrder relates the clients a handler        *)
(* remembers to the clients the loop has created, which is what makes a    *)
(* late blame harmless.                                                    *)
(***************************************************************************)
EXTENDS TunnelStreams, TunnelEngineProofs, FiniteSetTheorems

\* The clients a handler remembers exist, and a retry never goes back to an
\* older client than the one it tried first.
StreamOrder ==
  \A s \in Streams :
    /\ cl[s] <= gen /\ ncl[s] <= gen
    /\ hpc[s] \in {"dial", "retry", "redial", "piping"} => cl[s] # Nil
    /\ hpc[s] = "redial" => ncl[s] # Nil /\ cl[s] <= ncl[s]

SInv == IInv /\ StreamsCounted /\ StreamOrder

\* The streams counted on client g.
Piped(g) == {s \in Streams : hpc[s] = "piping" /\ cl[s] = g}

-----------------------------------------------------------------------------
(* What a handler may do to the engine keeps the engine's invariant *)

LEMMA CountsKeepEngine ==
  ASSUME IInv, active' \in [Gens -> Nat],
         UNCHANGED <<loopVars, gen, clientVars, clientPtr, ctxDone, stop, rules, st>>
  PROVE  IInv'
<1> USE DEF IInv, TypeOK, loopVars, clientVars
<1>1. (LoopTypeOK /\ FlagTypeOK)'
  BY DEF LoopTypeOK, FlagTypeOK
<1>2. ClientTypeOK' /\ SharedTypeOK'
  BY DEF ClientTypeOK, SharedTypeOK
<1>3. MissesBelowLimit' /\ SessionOrder'
  BY DEF MissesBelowLimit, SessionOrder
<1>4. LoopState' /\ HookState'
  BY DEF LoopState, HookState, GenClosed
<1> QED
  BY <1>1, <1>2, <1>3, <1>4

LEMMA MarksKeepEngine ==
  ASSUME IInv, NEW G \in SUBSET Gens, \A g \in G : g <= gen, OnlyMarksDead(G)
  PROVE  IInv'
<1> USE DEF IInv, TypeOK
<1>1. UNCHANGED <<loopVars, gen, missed, alive, waiter, active, clientPtr, ctxDone,
                  stop, rules, st>>
  BY DEF OnlyMarksDead
<1>2. /\ dead' \in [Gens -> BOOLEAN] /\ cancelled' \in [Gens -> BOOLEAN]
      /\ conn' = [g \in Gens |-> IF g \in G THEN "closed" ELSE conn[g]]
  BY DEF OnlyMarksDead, MarkDead, Close, ClientTypeOK
<1>3. (LoopTypeOK /\ FlagTypeOK /\ SharedTypeOK)'
  BY <1>1 DEF LoopTypeOK, FlagTypeOK, SharedTypeOK, loopVars
<1>4. ClientTypeOK'
  BY <1>1, <1>2 DEF ClientTypeOK
<1>5. MissesBelowLimit'
  BY <1>1 DEF MissesBelowLimit
<1>6. gen \in Nat
  BY DEF SharedTypeOK
<1>7. SessionOrder'
  BY <1>1, <1>2, <1>6 DEF SessionOrder, Gens
<1>8. GenClosed => GenClosed'
  BY <1>1, <1>2, EngineBounds DEF GenClosed, SharedTypeOK, Gens, EngineBounds
<1>9. LoopState' /\ HookState'
  BY <1>1, <1>8 DEF LoopState, HookState, loopVars
<1> QED
  BY <1>3, <1>4, <1>5, <1>7, <1>9

\* No step of the engine touches the counts, and clients are only added.
LEMMA EngineKeepsCounts ==
  ASSUME TypeOK, Next
  PROVE  active' = active /\ gen <= gen'
<1>1. gen \in Nat
  BY DEF TypeOK, SharedTypeOK
<1>2. CASE AuthSucceeds
  BY <1>1, <1>2 DEF AuthSucceeds
<1>3. CASE DelayElapsed \/ DelayCancelled \/ RouteOffline \/ RouteOnline \/ AuthFails
           \/ PublishClient \/ StartListeners \/ InstallRules \/ StartWait \/ HealthTick
           \/ WaitCancelled \/ WaitReceives \/ Reconnect \/ Teardown \/ Panic
  BY <1>1, <1>3 DEF DelayElapsed, DelayCancelled, RouteOffline, RouteOnline, AuthFails,
     PublishClient, StartListeners, InstallRules, StartWait, HealthTick, WaitCancelled,
     WaitReceives, Reconnect, Teardown, Panic
<1>4. CASE Environment
  BY <1>1, <1>4 DEF Environment, StopCancel, StopDropsClient, StopAfterExit, StopTimesOut,
     CleanAndIdle, Shutdown, Stall, Recover, Lose, CarrierChange
<1>5. CASE \E g \in Gens : Client(g)
  BY <1>1, <1>5 DEF Client, KeepAliveOk, KeepAliveMiss, KeepAliveExit, WaitReturns
<1> QED
  BY <1>2, <1>3, <1>4, <1>5 DEF Next, Loop

-----------------------------------------------------------------------------
(* The handlers' own part *)

LEMMA SInit == StreamInit => SInv
<1> SUFFICES ASSUME StreamInit PROVE SInv
  OBVIOUS
<1>1. IInv
  BY InitInv DEF StreamInit
<1>2. StreamTypeOK
  BY StreamsAssumption, EngineBounds
     DEF StreamsAssumption, EngineBounds, StreamInit, StreamTypeOK, ClientOrNil, Nil
<1>3. ASSUME NEW g \in Gens PROVE active[g] = Cardinality(Piped(g))
  <2>1. Piped(g) = {}
    BY DEF StreamInit, Piped
  <2> QED
    BY <2>1, FS_EmptySet DEF StreamInit, Init
<1>4. StreamOrder
  BY DEF StreamInit, Init, StreamOrder, Nil
<1> QED
  BY <1>1, <1>2, <1>3, <1>4 DEF SInv, StreamsCounted, Piped

LEMMA StreamTypeStep ==
  StreamTypeOK /\ SharedTypeOK /\ [StreamNext]_allVars => StreamTypeOK'
<1> SUFFICES ASSUME StreamTypeOK, SharedTypeOK, [StreamNext]_allVars PROVE StreamTypeOK'
  OBVIOUS
<1> USE DEF StreamTypeOK, ClientOrNil
<1>0. clientPtr \in 0..MaxClients /\ Nil \in 0..MaxClients /\ MaxPolls \in Nat
  BY EngineBounds, StreamsAssumption DEF SharedTypeOK, Nil, EngineBounds, StreamsAssumption
<1>1. CASE UNCHANGED <<streamVars, queryVars>>
  BY <1>1 DEF streamVars, queryVars
<1>2. ASSUME NEW s \in Streams, Accept(s) \/ Handler(s) \/ StreamEnds(s)
      PROVE  StreamTypeOK'
  <2> USE DEF Go, queryVars
  <2>1. CASE GiveUp(s, "start") \/ GiveUp(s, "dial") \/ GiveUp(s, "retry")
             \/ GiveUp(s, "redial") \/ GiveUp(s, "reread") \/ GiveUp(s, "piping")
    BY <1>0, <2>1 DEF GiveUp
  <2>2. CASE Accept(s) \/ DialRetryable(s)
    BY <2>2 DEF Accept, DialRetryable
  <2>3. CASE TakeClient(s) \/ RetryTakesClient(s) \/ CountStream(s)
    BY <1>0, <2>3 DEF TakeClient, RetryTakesClient, CountStream
  <2>4. CASE DialOk(s) \/ RedialOk(s)
    BY <2>4 DEF DialOk, RedialOk
  <2> QED
    BY <1>2, <2>1, <2>2, <2>3, <2>4 DEF Handler, RejectRequest, RefuseNoClient, DialFails,
       DialFindsDeath, RetryRefused, RedialFails, RedialFindsDeath, RereadFindsNone, StreamEnds
<1>3. ASSUME NEW q \in Queries, QueryArrives(q) \/ Query(q)
      PROVE  StreamTypeOK'
  <2> USE DEF QGo, streamVars
  <2>1. CASE QueryEnds(q, "poll") \/ QueryEnds(q, "dial") \/ QueryEnds(q, "exchange")
    BY <1>0, <2>1 DEF QueryEnds
  <2>2. CASE QueryArrives(q) \/ QueryTakesClient(q) \/ QueryDialOk(q)
    BY <1>0, <2>2 DEF QueryArrives, QueryTakesClient, QueryDialOk
  <2>3. CASE QueryPolls(q)
    BY <1>0, <2>3 DEF QueryPolls
  <2> QED
    BY <1>3, <2>1, <2>2, <2>3 DEF Query, QueryDropped, QueryDialFails, QueryExchange
<1> QED
  BY <1>1, <1>2, <1>3 DEF StreamNext, EngineStep, allVars

\* A handler that moves without entering or leaving "piping" changes no count.
LEMMA SamePiped ==
  ASSUME StreamTypeOK, NEW s \in Streams, hpc[s] # "piping", NEW to, to # "piping",
         hpc' = [hpc EXCEPT ![s] = to], NEW c,
         cl' = cl \/ cl' = [cl EXCEPT ![s] = c]
  PROVE  \A g \in Gens : Piped(g)' = Piped(g)
<1>1. \A t \in Streams : t # s => hpc'[t] = hpc[t] /\ cl'[t] = cl[t]
  BY DEF StreamTypeOK
<1>2. hpc'[s] # "piping"
  BY DEF StreamTypeOK
<1> QED
  BY <1>1, <1>2 DEF Piped

LEMMA PipedFinite ==
  \A g \in Gens : IsFiniteSet(Piped(g)) /\ Cardinality(Piped(g)) \in Nat
<1> TAKE g \in Gens
<1>1. IsFiniteSet(Piped(g))
  BY StreamsAssumption, FS_Subset DEF StreamsAssumption, Piped
<1> QED
  BY <1>1, FS_CardinalityType

\* The handler's steps, apart from those that count or uncount a stream.
LEMMA UncountedStep ==
  ASSUME SInv, NEW s \in Streams, Accept(s) \/ Handler(s), ~CountStream(s)
  PROVE  IInv' /\ active' = active /\ gen' = gen /\ StreamOrder'
         /\ \A g \in Gens : Piped(g)' = Piped(g)
<1>0. /\ StreamTypeOK /\ StreamOrder /\ IInv /\ TypeOK
      /\ gen \in 0..MaxClients /\ clientPtr \in {Nil, gen}
      /\ MaxClients \in Nat
  BY EngineBounds DEF SInv, StreamsCounted, IInv, TypeOK, SharedTypeOK, LoopState, EngineBounds
<1>u. ASSUME EngineUntouched PROVE IInv' /\ active' = active /\ gen' = gen
  <2>1. UNCHANGED vars
    BY <1>u DEF EngineUntouched
  <2>2. IInv'
    BY <2>1, <1>0, InvStep
  <2> QED
    BY <2>1, <2>2 DEF vars
<1>g. ASSUME NEW from \in {"start", "dial", "retry", "redial", "reread"}, GiveUp(s, from),
             gen' = gen
      PROVE  StreamOrder' /\ \A g \in Gens : Piped(g)' = Piped(g)
  <2>1. /\ hpc[s] = from /\ hpc' = [hpc EXCEPT ![s] = "idle"]
        /\ cl' = [cl EXCEPT ![s] = Nil] /\ ncl' = [ncl EXCEPT ![s] = Nil]
    BY <1>g DEF GiveUp, Go
  <2>2. StreamOrder'
    BY <1>0, <1>g, <2>1 DEF StreamOrder, StreamTypeOK, Nil
  <2> QED
    BY <1>0, <2>1, <2>2, SamePiped
<1>1. CASE RejectRequest(s) \/ RefuseNoClient(s) \/ DialFails(s) \/ RetryRefused(s)
           \/ RedialFails(s) \/ RereadFindsNone(s)
  BY <1>u, <1>g, <1>1 DEF RejectRequest, RefuseNoClient, DialFails, RetryRefused,
     RedialFails, RereadFindsNone
<1>2. CASE Accept(s) \/ TakeClient(s) \/ DialOk(s) \/ DialRetryable(s)
           \/ RetryTakesClient(s) \/ RedialOk(s)
  <2>1. EngineUntouched /\ gen' = gen
    BY <1>2, <1>u DEF Accept, TakeClient, DialOk, DialRetryable, RetryTakesClient, RedialOk
  <2>2. PICK to \in {"start", "dial", "retry", "redial", "reread"} :
          hpc[s] # "piping" /\ hpc' = [hpc EXCEPT ![s] = to]
    BY <1>2 DEF Accept, TakeClient, DialOk, DialRetryable, RetryTakesClient, RedialOk, Go
  <2>3. cl' = cl \/ cl' = [cl EXCEPT ![s] = clientPtr]
    BY <1>2 DEF Accept, TakeClient, DialOk, DialRetryable, RetryTakesClient, RedialOk
  <2>4. \A g \in Gens : Piped(g)' = Piped(g)
    BY <1>0, <2>2, <2>3, SamePiped
  <2>5. ASSUME Accept(s) \/ DialOk(s) \/ DialRetryable(s) \/ RedialOk(s) PROVE StreamOrder'
    <3>1. UNCHANGED <<cl, ncl, gen>>
      BY <2>1, <2>5 DEF Accept, DialOk, DialRetryable, RedialOk
    <3>2. \A t \in Streams : /\ hpc'[t] # "redial" \/ hpc'[t] = hpc[t]
                             /\ hpc'[t] \in {"dial", "retry", "redial", "piping"}
                                => hpc[t] \in {"dial", "retry", "redial", "piping"}
      BY <1>0, <2>5 DEF Accept, DialOk, DialRetryable, RedialOk, Go, StreamTypeOK
    <3> QED
      BY <1>0, <3>1, <3>2 DEF StreamOrder
  <2>6. ASSUME TakeClient(s) PROVE StreamOrder'
    <3>1. /\ cl' = [cl EXCEPT ![s] = gen] /\ ncl' = ncl /\ gen # Nil
          /\ hpc' = [hpc EXCEPT ![s] = "dial"]
      BY <1>0, <2>6 DEF TakeClient, Usable, Go
    <3> QED
      BY <1>0, <2>1, <3>1 DEF StreamOrder, StreamTypeOK
  <2>7. ASSUME RetryTakesClient(s) PROVE StreamOrder'
    <3>1. /\ ncl' = [ncl EXCEPT ![s] = gen] /\ cl' = cl /\ gen # Nil
          /\ hpc[s] = "retry" /\ hpc' = [hpc EXCEPT ![s] = "redial"]
      BY <1>0, <2>7 DEF RetryTakesClient, Usable, Go
    <3> QED
      BY <1>0, <2>1, <3>1 DEF StreamOrder, StreamTypeOK
  <2> QED
    BY <1>2, <1>u, <2>1, <2>4, <2>5, <2>6, <2>7
<1>3. CASE DialFindsDeath(s)
  <2>1. GiveUp(s, "dial") /\ OnlyMarksDead({cl[s]}) /\ hpc[s] = "dial"
    BY <1>3 DEF DialFindsDeath, GiveUp, Go
  <2>2. cl[s] \in Gens /\ cl[s] <= gen
    BY <1>0, <2>1 DEF StreamOrder, StreamTypeOK, ClientOrNil, Nil, Gens
  <2>3. IInv' /\ active' = active /\ gen' = gen
    BY <1>0, <2>1, <2>2, MarksKeepEngine DEF OnlyMarksDead
  <2> QED
    BY <1>g, <2>1, <2>3
<1>4. CASE RedialFindsDeath(s)
  <2>1. GiveUp(s, "redial") /\ OnlyMarksDead({ncl[s], cl[s]}) /\ hpc[s] = "redial"
    BY <1>4 DEF RedialFindsDeath, GiveUp, Go
  <2>2. /\ cl[s] \in Gens /\ cl[s] <= gen
        /\ ncl[s] \in Gens /\ ncl[s] <= gen
    BY <1>0, <2>1 DEF StreamOrder, StreamTypeOK, ClientOrNil, Nil, Gens
  <2>3. IInv' /\ active' = active /\ gen' = gen
    BY <1>0, <2>1, <2>2, MarksKeepEngine DEF OnlyMarksDead
  <2> QED
    BY <1>g, <2>1, <2>3
<1> QED
  BY <1>1, <1>2, <1>3, <1>4 DEF Handler

\* cl.add(): one stream more on the client that is current by then.
LEMMA CountStep ==
  ASSUME SInv, NEW s \in Streams, CountStream(s)
  PROVE  IInv' /\ StreamOrder' /\ \A g \in Gens : active'[g] = Cardinality(Piped(g)')
<1>0. /\ StreamTypeOK /\ StreamOrder /\ IInv
      /\ gen \in 0..MaxClients /\ clientPtr \in {Nil, gen}
      /\ active \in [Gens -> Nat]
      /\ MaxClients \in Nat
      /\ \A g \in Gens : active[g] = Cardinality(Piped(g))
  BY EngineBounds
     DEF SInv, StreamsCounted, Piped, IInv, TypeOK, SharedTypeOK, LoopState, EngineBounds
<1>1. /\ clientPtr # Nil /\ hpc[s] = "reread" /\ hpc' = [hpc EXCEPT ![s] = "piping"]
      /\ cl' = [cl EXCEPT ![s] = clientPtr] /\ ncl' = ncl /\ gen' = gen
      /\ active' = [active EXCEPT ![clientPtr] = @ + 1]
  BY DEF CountStream, Go
<1>2. clientPtr \in Gens
  BY <1>0, <1>1 DEF Gens, Nil
<1>3. IInv'
  <2>1. active' \in [Gens -> Nat]
    BY <1>0, <1>1, <1>2
  <2> QED
    BY <1>0, <2>1, CountsKeepEngine DEF CountStream
<1>4. StreamOrder'
  BY <1>0, <1>1, <1>2 DEF StreamOrder, StreamTypeOK, Nil
<1>5. ASSUME NEW g \in Gens PROVE active'[g] = Cardinality(Piped(g)')
  <2>1. \A t \in Streams : t # s => hpc'[t] = hpc[t] /\ cl'[t] = cl[t]
    BY <1>0, <1>1 DEF StreamTypeOK
  <2>2. hpc'[s] = "piping" /\ cl'[s] = clientPtr
    BY <1>0, <1>1 DEF StreamTypeOK
  <2>3. CASE g = clientPtr
    <3>1. Piped(g)' = Piped(g) \cup {s} /\ s \notin Piped(g)
      BY <1>1, <2>1, <2>2, <2>3 DEF Piped
    <3>2. Cardinality(Piped(g)') = Cardinality(Piped(g)) + 1
      BY <3>1, PipedFinite, FS_AddElement
    <3> QED
      BY <1>0, <1>1, <1>2, <2>3, <3>2
  <2>4. CASE g # clientPtr
    <3>1. Piped(g)' = Piped(g)
      BY <1>1, <2>1, <2>2, <2>4 DEF Piped
    <3> QED
      BY <1>0, <1>1, <2>4, <3>1
  <2> QED
    BY <2>3, <2>4
<1> QED
  BY <1>3, <1>4, <1>5

\* The deferred cl.remove(): on the client the stream was counted on.
LEMMA EndStep ==
  ASSUME SInv, NEW s \in Streams, StreamEnds(s)
  PROVE  IInv' /\ StreamOrder' /\ \A g \in Gens : active'[g] = Cardinality(Piped(g)')
<1>0. /\ StreamTypeOK /\ StreamOrder /\ IInv
      /\ active \in [Gens -> Nat] /\ gen \in Nat
      /\ \A g \in Gens : active[g] = Cardinality(Piped(g))
  BY DEF SInv, StreamsCounted, Piped, IInv, TypeOK, SharedTypeOK
<1>1. /\ hpc[s] = "piping" /\ hpc' = [hpc EXCEPT ![s] = "idle"]
      /\ cl' = [cl EXCEPT ![s] = Nil] /\ ncl' = [ncl EXCEPT ![s] = Nil] /\ gen' = gen
      /\ active' = [active EXCEPT ![cl[s]] = @ - 1]
  BY DEF StreamEnds, GiveUp, Go
<1>2. cl[s] \in Gens
  BY <1>0, <1>1 DEF StreamOrder, StreamTypeOK, ClientOrNil, Nil, Gens
<1>3. \A t \in Streams : t # s => hpc'[t] = hpc[t] /\ cl'[t] = cl[t]
  BY <1>0, <1>1 DEF StreamTypeOK
<1>4. hpc'[s] # "piping"
  BY <1>0, <1>1 DEF StreamTypeOK
<1>5. ASSUME NEW g \in Gens
      PROVE  /\ active[g] \in Nat /\ active'[g] \in Nat
             /\ active'[g] = Cardinality(Piped(g)')
  <2>1. CASE g = cl[s]
    <3>1. s \in Piped(g) /\ Piped(g)' = Piped(g) \ {s}
      BY <1>1, <1>3, <1>4, <2>1 DEF Piped
    <3>2. /\ Cardinality(Piped(g)') \in Nat
          /\ Cardinality(Piped(g)') = Cardinality(Piped(g)) - 1
      BY <3>1, PipedFinite, FS_RemoveElement, FS_CardinalityType
    <3> QED
      BY <1>0, <1>1, <1>2, <2>1, <3>2
  <2>2. CASE g # cl[s]
    <3>1. Piped(g)' = Piped(g)
      BY <1>1, <1>3, <1>4, <2>2 DEF Piped
    <3> QED
      BY <1>0, <1>1, <2>2, <3>1
  <2> QED
    BY <2>1, <2>2
<1>6. IInv'
  <2>1. active' \in [Gens -> Nat]
    BY <1>0, <1>1, <1>5
  <2> QED
    BY <1>0, <2>1, CountsKeepEngine DEF StreamEnds
<1>7. StreamOrder'
  BY <1>0, <1>1 DEF StreamOrder, StreamTypeOK, Nil
<1> QED
  BY <1>5, <1>6, <1>7

LEMMA SInvStep == SInv /\ [StreamNext]_allVars => SInv'
<1> SUFFICES ASSUME SInv, [StreamNext]_allVars PROVE SInv'
  OBVIOUS
<1>0. /\ IInv /\ StreamTypeOK /\ StreamOrder /\ TypeOK /\ SharedTypeOK
      /\ gen \in Nat
      /\ \A g \in Gens : active[g] = Cardinality(Piped(g))
  BY DEF SInv, StreamsCounted, Piped, IInv, TypeOK, SharedTypeOK
<1>1. StreamTypeOK'
  BY <1>0, StreamTypeStep
<1> SUFFICES IInv' /\ StreamOrder' /\ \A g \in Gens : active'[g] = Cardinality(Piped(g)')
  BY <1>1 DEF SInv, StreamsCounted, Piped
<1>2. ASSUME UNCHANGED streamVars, active' = active
      PROVE  \A g \in Gens : active'[g] = Cardinality(Piped(g)')
  BY <1>0, <1>2 DEF Piped, streamVars
<1>3. ASSUME UNCHANGED streamVars, gen <= gen', gen' \in Nat
      PROVE  StreamOrder'
  <2>1. cl \in [Streams -> Nat] /\ ncl \in [Streams -> Nat]
    BY <1>0, EngineBounds DEF StreamTypeOK, ClientOrNil, EngineBounds
  <2> QED
    BY <1>0, <1>3, <2>1 DEF StreamOrder, streamVars
<1>4. CASE EngineStep
  <2>1. IInv'
    BY <1>0, <1>4, InvStep DEF EngineStep
  <2>2. active' = active /\ gen <= gen' /\ gen' \in Nat
    BY <1>0, <1>4, <2>1, EngineKeepsCounts DEF EngineStep, IInv, TypeOK, SharedTypeOK
  <2> QED
    BY <1>2, <1>3, <1>4, <2>1, <2>2 DEF EngineStep
<1>5. CASE UNCHANGED vars /\ UNCHANGED streamVars
  <2>1. IInv'
    BY <1>0, <1>5, InvStep
  <2>2. active' = active /\ gen' = gen
    BY <1>5 DEF vars
  <2> QED
    BY <1>0, <1>2, <1>3, <1>5, <2>1, <2>2
<1>6. ASSUME NEW q \in Queries, QueryArrives(q) \/ Query(q)
      PROVE  UNCHANGED vars /\ UNCHANGED streamVars
  BY <1>6 DEF QueryArrives, Query, QueryTakesClient, QueryPolls, QueryDropped, QueryDialOk,
     QueryDialFails, QueryExchange, QueryEnds, EngineUntouched
<1>7. ASSUME NEW s \in Streams, Accept(s) \/ Handler(s) \/ StreamEnds(s)
      PROVE  IInv' /\ StreamOrder' /\ \A g \in Gens : active'[g] = Cardinality(Piped(g)')
  <2>1. CASE StreamEnds(s)
    BY <2>1, EndStep
  <2>2. CASE CountStream(s)
    BY <2>2, CountStep
  <2>3. CASE (Accept(s) \/ Handler(s)) /\ ~CountStream(s)
    BY <1>0, <2>3, UncountedStep
  <2> QED
    BY <1>7, <2>1, <2>2, <2>3
<1> QED
  BY <1>4, <1>5, <1>6, <1>7 DEF StreamNext, allVars

LEMMA StreamInvariance == StreamSpec => []SInv
BY SInit, SInvStep, PTL DEF StreamSpec

-----------------------------------------------------------------------------
\* tunClient.active is exact for every set of handlers, although the client is
\* read anew between the dial and the count.
THEOREM StreamCountExact == StreamSpec => []StreamsCounted
<1>1. SInv => StreamsCounted
  BY DEF SInv
<1> QED
  BY <1>1, StreamInvariance, PTL

\* The engine's promises hold with any number of handlers marking clients dead
\* under it: one session at a time, nothing left when the loop has returned, and
\* no old client published.
THEOREM EngineUnderStreams ==
  StreamSpec => [](SingleSession /\ NothingOutlivesLoop /\ PublishedIsNewest)
<1>1. SInv => SingleSession
  BY DEF SInv, IInv, TypeOK, SharedTypeOK, SessionOrder, SingleSession, Open, Gens
<1>2. SInv => NothingOutlivesLoop
  BY DEF SInv, IInv, TypeOK, SharedTypeOK, SessionOrder, LoopState, GenClosed, Leaving,
         NothingOutlivesLoop, Open, Gens
<1>3. SInv => PublishedIsNewest
  BY DEF SInv, IInv, LoopState, PublishedIsNewest
<1> QED
  BY <1>1, <1>2, <1>3, StreamInvariance, PTL

\* A step of the engine that marks a client dead is keepAlive's second miss.
LEMMA EngineKills ==
  ASSUME TypeOK, Next, NEW g \in Gens, ~dead[g], dead'[g]
  PROVE  conn[g] # "up"
<1>1. CASE dead' = dead
  BY <1>1
<1>2. ASSUME NEW h \in Gens, Client(h) PROVE conn[g] # "up"
  <2>1. CASE KeepAliveMiss(h)
    <3>1. CASE dead' = [k \in Gens |-> dead[k] \/ k \in {h}]
      BY <2>1, <3>1 DEF KeepAliveMiss
    <3> QED
      BY <1>1, <2>1, <3>1 DEF KeepAliveMiss, MarkDead
  <2> QED
    BY <1>1, <1>2, <2>1 DEF Client, KeepAliveOk, KeepAliveExit, WaitReturns
<1>3. CASE Loop \/ Panic
  BY <1>1, <1>3 DEF Loop, DelayElapsed, DelayCancelled, RouteOffline, RouteOnline, AuthFails,
     AuthSucceeds, PublishClient, StartListeners, InstallRules, StartWait, HealthTick,
     WaitCancelled, WaitReceives, Reconnect, Teardown, Panic, clientVars
<1>4. CASE Environment
  BY <1>1, <1>4 DEF Environment, StopCancel, StopDropsClient, StopAfterExit, StopTimesOut,
     CleanAndIdle, Shutdown, Stall, Recover, Lose, CarrierChange, clientVars
<1> QED
  BY <1>2, <1>3, <1>4 DEF Next

\* Nobody blames a healthy client: the retry that marks both the client it saw
\* die and the one it had tried first is right about the second as well, because
\* that one is either the same or was replaced, and the loop closes a session
\* before it opens the next.
THEOREM OnlyDeadAreKilled == StreamSpec => NoHealthyClientKilled
<1>1. SInv /\ [StreamNext]_allVars
        => [\A g \in Gens : ~dead[g] /\ dead'[g] => conn[g] # "up"]_allVars
  <2> SUFFICES ASSUME SInv, StreamNext, NEW g \in Gens, ~dead[g], dead'[g]
               PROVE  conn[g] # "up"
    OBVIOUS
  <2>0. /\ TypeOK /\ StreamTypeOK /\ StreamOrder /\ SessionOrder
        /\ gen \in Nat /\ MaxClients \in Nat
    BY EngineBounds
       DEF SInv, StreamsCounted, IInv, TypeOK, SharedTypeOK, EngineBounds
  <2>1. dead' # dead
    OBVIOUS
  <2>2. CASE EngineStep
    BY <2>0, <2>2, EngineKills DEF EngineStep
  <2>3. ASSUME NEW q \in Queries, QueryArrives(q) \/ Query(q) PROVE FALSE
    BY <2>1, <2>3 DEF QueryArrives, Query, QueryTakesClient, QueryPolls, QueryDropped,
       QueryDialOk, QueryDialFails, QueryExchange, QueryEnds, EngineUntouched, vars, clientVars
  <2>4. ASSUME NEW s \in Streams, Accept(s) \/ Handler(s) \/ StreamEnds(s)
        PROVE  conn[g] # "up"
    <3>1. CASE DialFindsDeath(s)
      <4>1. conn[cl[s]] = "closed" /\ dead' = [k \in Gens |-> dead[k] \/ k \in {cl[s]}]
        BY <3>1 DEF DialFindsDeath, OnlyMarksDead, MarkDead
      <4> QED
        BY <4>1
    <3>2. CASE RedialFindsDeath(s)
      <4>1. /\ conn[ncl[s]] = "closed" /\ hpc[s] = "redial"
            /\ dead' = [k \in Gens |-> dead[k] \/ k \in {ncl[s], cl[s]}]
        BY <3>2 DEF RedialFindsDeath, GiveUp, Go, OnlyMarksDead, MarkDead
      <4>2. g \in {ncl[s], cl[s]}
        BY <4>1
      <4>3. cl[s] <= ncl[s] /\ ncl[s] <= gen /\ cl[s] \in Nat /\ ncl[s] \in Nat
        BY <2>0, <4>1 DEF StreamOrder, StreamTypeOK, ClientOrNil
      <4>4. CASE g = ncl[s]
        BY <4>1, <4>4
      <4>5. CASE g # ncl[s]
        <5>1. g = cl[s] /\ g < gen
          BY <2>0, <4>2, <4>3, <4>5
        <5> QED
          BY <2>0, <5>1 DEF SessionOrder
      <4> QED
        BY <4>4, <4>5
    <3>3. CASE CountStream(s) \/ StreamEnds(s)
      BY <2>1, <3>3 DEF CountStream, StreamEnds, clientVars
    <3>4. CASE Accept(s) \/ RejectRequest(s) \/ RefuseNoClient(s) \/ TakeClient(s) \/ DialOk(s)
               \/ DialFails(s) \/ DialRetryable(s) \/ RetryTakesClient(s) \/ RetryRefused(s)
               \/ RedialOk(s) \/ RedialFails(s) \/ RereadFindsNone(s)
      <4>1. UNCHANGED vars
        BY <3>4 DEF Accept, RejectRequest, RefuseNoClient, TakeClient, DialOk, DialFails,
           DialRetryable, RetryTakesClient, RetryRefused, RedialOk, RedialFails,
           RereadFindsNone, EngineUntouched
      <4> QED
        BY <2>1, <4>1 DEF vars, clientVars
    <3> QED
      BY <2>4, <3>1, <3>2, <3>3, <3>4 DEF Handler
  <2> QED
    BY <2>2, <2>3, <2>4 DEF StreamNext
<1> QED
  BY <1>1, StreamInvariance, PTL DEF StreamSpec, NoHealthyClientKilled
=============================================================================
