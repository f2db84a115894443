------------------------- MODULE TunnelEngineProofs -------------------------
(***************************************************************************)
(* Proofs about TunnelEngine, for every number of clients, every delay and *)
(* both forms of line 329. The safety invariants are not inductive as such; *)
(* they follow from IInv, which says for each place of the loop which      *)
(* session may be open, what clientPtr may hold, and how many hooks exist. *)
(***************************************************************************)
EXTENDS TunnelEngine, TLAPS

\* keepAlive returns with its second miss; it runs only for clients that exist.
MissesBelowLimit ==
  \A g \in Gens : /\ alive[g] => missed[g] < 2
                  /\ g > gen => missed[g] = 0 /\ ~alive[g]

\* Only client gen can have an open session.
SessionOrder ==
  \A g \in Gens : /\ g > gen => conn[g] = "none"
                  /\ g < gen => conn[g] = "closed"

Between == {"delay", "route", "auth"}
Holding == {"store", "listeners", "rules", "wait", "waiting", "drain"}
Leaving == {"teardown", "done"}

GenClosed == gen # 0 => conn[gen] = "closed"

\* Which session and which pointer go with each place of the loop.
LoopState ==
  /\ pc \in Between => GenClosed /\ clientPtr = Nil
  /\ pc \in Holding => gen # 0
  /\ pc \in Leaving => panicked \/ (ctxDone /\ GenClosed)
  /\ pc = "done" => clientPtr = Nil
  /\ clientPtr \in {Nil, gen}
  /\ stop # "none" => ctxDone

\* The loop inserts its hook once, into a table without one.
HookState ==
  /\ pc = "listeners" => listening = "never"
  /\ pc = "rules" => listening = "up"
  /\ listening = "never" \/ pc = "rules" => rules.udp = 0
  /\ listening = "cancelled" => pc = "done"
  /\ rules.udp <= 2

IInv == TypeOK /\ MissesBelowLimit /\ SessionOrder /\ LoopState /\ HookState

-----------------------------------------------------------------------------
LEMMA NextDelayBounded ==
  ASSUME NEW d \in 0..MaxDelay
  PROVE  nextDelay(d) \in 0..MaxDelay
BY EngineBounds DEF EngineBounds, nextDelay

Rules == [script : BOOLEAN, udp : Nat]
States == [state : Statuses, connected : BOOLEAN, applied : BOOLEAN, streams : Nat]

LEMMA ScriptDisableType ==
  ASSUME NEW r \in Rules
  PROVE  /\ ScriptDisable(r) \in Rules
         /\ ScriptDisable(r).script = FALSE
         /\ ScriptDisable(r).udp = IF r.udp > 0 THEN r.udp - 1 ELSE 0
BY DEF ScriptDisable, Rules

LEMMA NetCleanType ==
  ASSUME NEW r \in Rules
  PROVE  /\ NetClean(r) \in Rules
         /\ r.udp <= 2 => NetClean(r) = NoRules
         /\ NetClean(r).udp <= r.udp
<1>1. ScriptDisable(r) \in Rules
  BY ScriptDisableType
<1>2. ScriptDisable(ScriptDisable(r)) \in Rules
  BY <1>1, ScriptDisableType
<1>3. r.udp \in Nat
  BY DEF Rules
<1>4. ScriptDisable(r).udp = IF r.udp > 0 THEN r.udp - 1 ELSE 0
  BY ScriptDisableType
<1>6. NetClean(r) = [script |-> FALSE, udp |-> NetClean(r).udp]
  BY DEF NetClean, ScriptDisable
<1>5. ScriptDisable(ScriptDisable(r)).udp
        = IF ScriptDisable(r).udp > 0 THEN ScriptDisable(r).udp - 1 ELSE 0
  BY <1>1, ScriptDisableType
<1> QED
  BY <1>2, <1>3, <1>4, <1>5, <1>6 DEF NetClean, NoRules

LEMMA OfflineType ==
  ASSUME st \in States, NEW x \in Statuses
  PROVE  Offline(x) \in States
BY DEF Offline, States

LEMMA InitInv == Init => IInv
<1> SUFFICES ASSUME Init PROVE IInv
  OBVIOUS
<1>1. LoopTypeOK
  BY EngineBounds DEF EngineBounds, Init, LoopTypeOK, LoopPc
<1>2. ClientTypeOK
  BY DEF Init, ClientTypeOK
<1>6. FlagTypeOK
  BY DEF Init, FlagTypeOK
<1>3. SharedTypeOK
  BY EngineBounds DEF EngineBounds, Init, SharedTypeOK, NoRules, Statuses, Nil
<1>4. MissesBelowLimit /\ SessionOrder
  BY DEF Init, MissesBelowLimit, SessionOrder, Gens
<1>5. LoopState /\ HookState
  BY DEF Init, LoopState, HookState, GenClosed, Between, Holding, Leaving, NoRules, Nil
<1> QED
  BY <1>1, <1>2, <1>3, <1>4, <1>5, <1>6 DEF IInv, TypeOK

\* The loop's own variables keep their ranges.
LEMMA LoopTypeStep == LoopTypeOK /\ [Next]_vars => LoopTypeOK'
<1> SUFFICES ASSUME LoopTypeOK, [Next]_vars PROVE LoopTypeOK'
  OBVIOUS
<1> USE DEF LoopTypeOK, LoopPc
<1>1. CASE UNCHANGED loopVars
  BY <1>1 DEF loopVars
<1>2. CASE DelayElapsed \/ DelayCancelled \/ RouteOnline \/ PublishClient \/ StartWait
           \/ WaitCancelled \/ WaitReceives
  BY <1>2 DEF DelayElapsed, DelayCancelled, RouteOnline, PublishClient, StartWait,
              WaitCancelled, WaitReceives
<1>3. CASE RouteOffline \/ AuthSucceeds \/ Reconnect
  BY <1>3, EngineBounds DEF EngineBounds, RouteOffline, AuthSucceeds, Reconnect
<1>4. CASE AuthFails
  BY <1>4, NextDelayBounded DEF AuthFails
<1>5. CASE StartListeners \/ InstallRules \/ Teardown \/ Panic
  BY <1>5 DEF StartListeners, InstallRules, Teardown, Panic
<1>6. CASE HealthTick \/ Environment
  BY <1>6, <1>1 DEF HealthTick, Environment, StopCancel, StopDropsClient, StopAfterExit,
     StopTimesOut, CleanAndIdle, Shutdown, Stall, Recover, Lose, CarrierChange
<1>7. CASE \E g \in Gens : Client(g)
  BY <1>7, <1>1 DEF Client, KeepAliveOk, KeepAliveMiss, KeepAliveExit, WaitReturns
<1> QED
  BY <1>1, <1>2, <1>3, <1>4, <1>5, <1>6, <1>7 DEF Next, Loop, vars

LEMMA FlagTypeStep == FlagTypeOK /\ [Next]_vars => FlagTypeOK'
<1> SUFFICES ASSUME FlagTypeOK, [Next]_vars PROVE FlagTypeOK'
  OBVIOUS
<1> USE DEF FlagTypeOK
<1>1. CASE UNCHANGED <<iptablesUp, panicked, ctxDone>>
  BY <1>1
<1>2. CASE InstallRules
  BY <1>2 DEF InstallRules
<1>3. CASE Teardown
  BY <1>3 DEF Teardown
<1>4. CASE Panic \/ StopCancel \/ Shutdown
  BY <1>4 DEF Panic, StopCancel, Shutdown, loopVars
<1>5. CASE DelayElapsed \/ DelayCancelled \/ RouteOffline \/ RouteOnline \/ AuthFails
           \/ AuthSucceeds \/ PublishClient \/ StartListeners \/ StartWait \/ HealthTick
           \/ WaitCancelled \/ WaitReceives \/ Reconnect
  BY <1>5, <1>1 DEF DelayElapsed, DelayCancelled, RouteOffline, RouteOnline, AuthFails,
     AuthSucceeds, PublishClient, StartListeners, StartWait, HealthTick, WaitCancelled,
     WaitReceives, Reconnect, loopVars
<1>6. CASE StopDropsClient \/ StopAfterExit \/ StopTimesOut
           \/ \E g \in Gens : Stall(g) \/ Recover(g) \/ Lose(g)
  BY <1>6, <1>1 DEF StopDropsClient, StopAfterExit, StopTimesOut, CleanAndIdle, Stall,
     Recover, Lose, CarrierChange, loopVars
<1>7. CASE \E g \in Gens : Client(g)
  BY <1>7, <1>1 DEF Client, KeepAliveOk, KeepAliveMiss, KeepAliveExit, WaitReturns, loopVars
<1> QED
  BY <1>1, <1>2, <1>3, <1>4, <1>5, <1>6, <1>7 DEF Next, Loop, Environment, vars, loopVars

\* The clients keep their ranges; missed stays below its limit because keepAlive
\* returns when it reaches it.
LEMMA ClientTypeStep ==
  ClientTypeOK /\ MissesBelowLimit /\ [Next]_vars => ClientTypeOK'
<1> SUFFICES ASSUME ClientTypeOK, MissesBelowLimit, [Next]_vars PROVE ClientTypeOK'
  OBVIOUS
<1> USE DEF ClientTypeOK
<1>1. CASE UNCHANGED clientVars
  BY <1>1 DEF clientVars
<1>2. CASE AuthSucceeds
  BY <1>2 DEF AuthSucceeds
<1>3. CASE StartWait \/ WaitReceives
  BY <1>3 DEF StartWait, WaitReceives
<1>4. CASE WaitCancelled \/ Reconnect
  BY <1>4 DEF WaitCancelled, Reconnect, Close
<1>5. CASE \E g \in Gens : Stall(g) \/ Recover(g) \/ Lose(g)
  BY <1>5 DEF Stall, Recover, Lose, CarrierChange
<1>6. ASSUME NEW g \in Gens, Client(g) PROVE ClientTypeOK'
  <2>1. CASE KeepAliveMiss(g)
    <3>1. missed' \in [Gens -> 0..2]
      BY <2>1 DEF KeepAliveMiss, MissesBelowLimit
    <3>2. CASE missed[g] + 1 >= 2
      <4>1. MarkDead({g}) /\ alive' = [alive EXCEPT ![g] = FALSE] /\ waiter' = waiter
        BY <2>1, <3>2 DEF KeepAliveMiss
      <4>2. conn' \in [Gens -> {"none", "up", "stalled", "closed"}]
        BY <4>1 DEF MarkDead, Close
      <4>3. dead' \in [Gens -> BOOLEAN] /\ cancelled' \in [Gens -> BOOLEAN]
        BY <4>1 DEF MarkDead, Close
      <4>4. alive' \in [Gens -> BOOLEAN]
        BY <4>1
      <4> QED
        BY <3>1, <4>1, <4>2, <4>3, <4>4
    <3>3. CASE ~(missed[g] + 1 >= 2)
      BY <2>1, <3>1, <3>3 DEF KeepAliveMiss
    <3> QED
      BY <3>2, <3>3
  <2>2. CASE KeepAliveOk(g)
    BY <2>2 DEF KeepAliveOk
  <2>3. CASE KeepAliveExit(g)
    BY <2>3 DEF KeepAliveExit
  <2>4. CASE WaitReturns(g)
    BY <2>4 DEF WaitReturns
  <2> QED
    BY <1>6, <2>1, <2>2, <2>3, <2>4 DEF Client
<1>7. CASE DelayElapsed \/ DelayCancelled \/ RouteOffline \/ RouteOnline \/ AuthFails
           \/ PublishClient \/ StartListeners \/ InstallRules \/ HealthTick \/ Teardown \/ Panic
  BY <1>7, <1>1 DEF DelayElapsed, DelayCancelled, RouteOffline, RouteOnline, AuthFails,
     PublishClient, StartListeners, InstallRules, HealthTick, Teardown, Panic
<1>8. CASE StopCancel \/ StopDropsClient \/ StopAfterExit \/ StopTimesOut \/ Shutdown
  BY <1>8, <1>1 DEF StopCancel, StopDropsClient, StopAfterExit, StopTimesOut,
     CleanAndIdle, Shutdown
<1> QED
  BY <1>1, <1>2, <1>3, <1>4, <1>5, <1>6, <1>7, <1>8 DEF Next, Loop, Environment, vars

\* So do the pointer, the context, stopTunnel's progress, the rules and State.
LEMMA SharedTypeStep ==
  SharedTypeOK /\ LoopState /\ [Next]_vars => SharedTypeOK'
<1> SUFFICES ASSUME SharedTypeOK, LoopState, [Next]_vars PROVE SharedTypeOK'
  OBVIOUS
<1> DEFINE unchanged == UNCHANGED <<gen, clientPtr, active, stop, rules, st>>
<1> USE DEF SharedTypeOK
<1>1. CASE unchanged
  BY <1>1
<1>2. CASE DelayElapsed \/ DelayCancelled \/ StartListeners \/ StartWait \/ WaitReceives \/ Panic
  BY <1>2, <1>1 DEF DelayElapsed, DelayCancelled, StartListeners, StartWait, WaitReceives, Panic
<1>3. CASE RouteOffline \/ AuthFails
  BY <1>3 DEF RouteOffline, AuthFails, Offline, Statuses
<1>4. CASE RouteOnline
  BY <1>4 DEF RouteOnline, Statuses
<1>5. CASE AuthSucceeds
  BY <1>5, EngineBounds DEF EngineBounds, AuthSucceeds
<1>6. CASE PublishClient
  BY <1>6 DEF PublishClient, Statuses
<1>7. CASE InstallRules
  <2>1. PICK tproxy \in {0, 1}, outcome \in {"notConfigured", "notRun", "exitsNonZero", "ok"} :
          LET r == IF outcome \in {"exitsNonZero", "ok"} THEN ScriptEnable(tproxy) ELSE rules
          IN  /\ rules' = [r EXCEPT !.udp = @ + 1]
              /\ st' = [st EXCEPT !.applied = IF outcome = "notConfigured" THEN @
                                              ELSE outcome = "ok"]
    BY <1>7 DEF InstallRules
  <2>2. ScriptEnable(tproxy) \in Rules
    <3>1. rules \in Rules
      BY DEF Rules
    <3>2. ScriptDisable(rules).udp \in Nat
      BY <3>1, ScriptDisableType DEF Rules
    <3> QED
      BY <3>2 DEF ScriptEnable, Rules
  <2>3. rules' \in Rules
    BY <2>1, <2>2 DEF Rules
  <2>4. st' \in States
    BY <2>1 DEF States
  <2> QED
    BY <1>7, <2>3, <2>4 DEF InstallRules, Rules, States
<1>8. CASE HealthTick
  <2>1. gen \in Gens
    BY <1>8, EngineBounds DEF EngineBounds, HealthTick, LoopState, Holding, Gens
  <2> QED
    BY <1>8, <2>1 DEF HealthTick
<1>9. CASE WaitCancelled
  BY <1>9, EngineBounds DEF EngineBounds, WaitCancelled, Nil
<1>15. CASE Teardown
  <2>1. rules' \in Rules
    BY <1>15, ScriptDisableType DEF Teardown, Rules
  <2> QED
    BY <1>15, <2>1, EngineBounds DEF EngineBounds, Teardown, Nil, Rules
<1>10. CASE Reconnect
  <2>1. Offline("RECONNECTING") \in States
    BY OfflineType DEF States, Statuses
  <2>2. st' \in States
    BY <1>10, <2>1 DEF Reconnect, States
  <2> QED
    BY <1>10, <2>2, EngineBounds DEF EngineBounds, Reconnect, Nil, States
<1>11. CASE StopCancel \/ StopDropsClient \/ Shutdown
  BY <1>11, EngineBounds DEF EngineBounds, StopCancel, StopDropsClient, Shutdown, Nil
<1>12. CASE StopAfterExit \/ StopTimesOut
  <2>1. CleanAndIdle
    BY <1>12 DEF StopAfterExit, StopTimesOut
  <2>2. rules' \in Rules
    BY <2>1, NetCleanType DEF CleanAndIdle, Rules
  <2>3. Offline("IDLE") \in States
    BY OfflineType DEF States, Statuses
  <2>4. st' \in States
    BY <2>1, <2>3 DEF CleanAndIdle, States
  <2> QED
    BY <2>1, <2>2, <2>4 DEF CleanAndIdle, Rules, States
<1>13. CASE \E g \in Gens : Stall(g) \/ Recover(g) \/ Lose(g)
  BY <1>13, <1>1 DEF Stall, Recover, Lose, CarrierChange
<1>14. CASE \E g \in Gens : Client(g)
  BY <1>14, <1>1 DEF Client, KeepAliveOk, KeepAliveMiss, KeepAliveExit, WaitReturns
<1> QED
  BY <1>1, <1>2, <1>3, <1>4, <1>5, <1>6, <1>7, <1>8, <1>9, <1>10, <1>11, <1>12,
     <1>13, <1>14, <1>15 DEF Next, Loop, Environment, vars

\* The rest of the inductive invariant, one lemma for each of its parts.
LEMMA MissesStep ==
  TypeOK /\ MissesBelowLimit /\ [Next]_vars => MissesBelowLimit'
<1> SUFFICES ASSUME TypeOK, MissesBelowLimit, [Next]_vars
             PROVE  MissesBelowLimit'
  OBVIOUS
<1> USE DEF MissesBelowLimit
<1>0. /\ missed \in [Gens -> 0..2] /\ alive \in [Gens -> BOOLEAN]
      /\ gen \in 0..MaxClients
  BY DEF TypeOK, ClientTypeOK, SharedTypeOK
<1>1. CASE UNCHANGED <<alive, missed, gen>>
  BY <1>1
<1>2. CASE AuthSucceeds
  BY <1>0, <1>2, EngineBounds DEF EngineBounds, AuthSucceeds, Gens
<1>3. ASSUME NEW g \in Gens, Client(g) PROVE MissesBelowLimit'
  <2>1. CASE KeepAliveMiss(g)
    BY <1>0, <2>1 DEF KeepAliveMiss
  <2>2. CASE KeepAliveOk(g)
    BY <1>0, <2>2 DEF KeepAliveOk
  <2>3. CASE KeepAliveExit(g)
    BY <1>0, <2>3 DEF KeepAliveExit
  <2>4. CASE WaitReturns(g)
    BY <1>1, <2>4 DEF WaitReturns
  <2> QED
    BY <1>3, <2>1, <2>2, <2>3, <2>4 DEF Client
<1>4. CASE DelayElapsed \/ DelayCancelled \/ RouteOffline \/ RouteOnline \/ AuthFails
           \/ PublishClient \/ StartListeners \/ InstallRules \/ HealthTick \/ Teardown
           \/ Panic \/ StartWait \/ WaitReceives \/ WaitCancelled \/ Reconnect
  BY <1>4, <1>1 DEF DelayElapsed, DelayCancelled, RouteOffline, RouteOnline, AuthFails,
     PublishClient, StartListeners, InstallRules, HealthTick, Teardown, Panic, StartWait,
     WaitReceives, WaitCancelled, Reconnect, clientVars
<1>5. CASE Environment
  BY <1>5, <1>1 DEF Environment, StopCancel, StopDropsClient, StopAfterExit, StopTimesOut,
     CleanAndIdle, Shutdown, Stall, Recover, Lose, CarrierChange, clientVars
<1> QED
  BY <1>1, <1>2, <1>3, <1>4, <1>5 DEF Next, Loop, vars, clientVars

LEMMA SessionStep ==
  TypeOK /\ SessionOrder /\ LoopState /\ [Next]_vars => SessionOrder'
<1> SUFFICES ASSUME TypeOK, SessionOrder, LoopState, [Next]_vars PROVE SessionOrder'
  OBVIOUS
<1> USE DEF SessionOrder
<1>0. /\ conn \in [Gens -> {"none", "up", "stalled", "closed"}]
      /\ gen \in 0..MaxClients
  BY DEF TypeOK, ClientTypeOK, SharedTypeOK
<1>1. CASE UNCHANGED <<conn, gen>>
  BY <1>1
<1>2. CASE AuthSucceeds
  BY <1>0, <1>2, EngineBounds DEF EngineBounds, AuthSucceeds, LoopState, GenClosed, Between, Gens
<1>3. CASE WaitCancelled \/ Reconnect
  BY <1>0, <1>3 DEF WaitCancelled, Reconnect, Close, Gens
<1>4. ASSUME NEW g \in Gens, Client(g) PROVE SessionOrder'
  <2>1. CASE KeepAliveMiss(g)
    BY <1>0, <2>1 DEF KeepAliveMiss, MarkDead, Close, Gens
  <2>2. CASE KeepAliveOk(g) \/ KeepAliveExit(g) \/ WaitReturns(g)
    BY <1>1, <2>2 DEF KeepAliveOk, KeepAliveExit, WaitReturns
  <2> QED
    BY <1>4, <2>1, <2>2 DEF Client
<1>5. ASSUME NEW g \in Gens, Stall(g) \/ Recover(g) \/ Lose(g) PROVE SessionOrder'
  BY <1>0, <1>5 DEF Stall, Recover, Lose, CarrierChange, Gens
<1>6. CASE DelayElapsed \/ DelayCancelled \/ RouteOffline \/ RouteOnline \/ AuthFails
           \/ PublishClient \/ StartListeners \/ InstallRules \/ HealthTick \/ Teardown
           \/ Panic \/ StartWait \/ WaitReceives
  BY <1>6, <1>1 DEF DelayElapsed, DelayCancelled, RouteOffline, RouteOnline, AuthFails,
     PublishClient, StartListeners, InstallRules, HealthTick, Teardown, Panic, StartWait,
     WaitReceives, clientVars
<1>7. CASE StopCancel \/ StopDropsClient \/ StopAfterExit \/ StopTimesOut \/ Shutdown
  BY <1>7, <1>1 DEF StopCancel, StopDropsClient, StopAfterExit, StopTimesOut,
     CleanAndIdle, Shutdown, clientVars
<1> QED
  BY <1>1, <1>2, <1>3, <1>4, <1>5, <1>6, <1>7 DEF Next, Loop, Environment, vars, clientVars

LEMMA LoopStateStep ==
  TypeOK /\ LoopState /\ [Next]_vars => LoopState'
<1> SUFFICES ASSUME TypeOK, LoopState, [Next]_vars PROVE LoopState'
  OBVIOUS
<1> USE DEF LoopState, GenClosed, Between, Holding, Leaving, Nil
<1>0. /\ conn \in [Gens -> {"none", "up", "stalled", "closed"}]
      /\ gen \in 0..MaxClients
  BY DEF TypeOK, ClientTypeOK, SharedTypeOK
<1>1. CASE UNCHANGED <<pc, panicked, gen, conn, clientPtr, ctxDone, stop>>
  BY <1>1
<1>2. CASE DelayElapsed \/ DelayCancelled \/ RouteOffline \/ RouteOnline \/ AuthFails
           \/ PublishClient \/ StartListeners \/ InstallRules \/ Teardown
           \/ Panic \/ StartWait \/ WaitReceives
  BY <1>2 DEF DelayElapsed, DelayCancelled, RouteOffline, RouteOnline, AuthFails,
     PublishClient, StartListeners, InstallRules, Teardown, Panic, StartWait,
     WaitReceives, clientVars
<1>3. CASE AuthSucceeds
  BY <1>0, <1>3 DEF AuthSucceeds
<1>4. CASE WaitCancelled \/ Reconnect
  <2>1. gen \in Gens
    BY <1>0, <1>4 DEF WaitCancelled, Reconnect, Gens
  <2>2. conn'[gen] = "closed"
    BY <1>4, <2>1 DEF WaitCancelled, Reconnect, Close
  <2> QED
    BY <1>4, <2>2 DEF WaitCancelled, Reconnect
<1>5. ASSUME NEW g \in Gens, Client(g) PROVE LoopState'
  <2>1. CASE KeepAliveMiss(g)
    <3>1. \A h \in Gens : conn[h] = "closed" => conn'[h] = "closed"
      BY <1>0, <2>1 DEF KeepAliveMiss, MarkDead, Close
    <3>2. GenClosed => GenClosed'
      BY <1>0, <2>1, <3>1 DEF KeepAliveMiss, Gens
    <3>3. UNCHANGED <<pc, panicked, gen, clientPtr, ctxDone, stop>>
      BY <2>1 DEF KeepAliveMiss, loopVars
    <3> QED
      BY <3>2, <3>3
  <2>2. CASE KeepAliveOk(g) \/ KeepAliveExit(g) \/ WaitReturns(g)
    BY <1>1, <2>2 DEF KeepAliveOk, KeepAliveExit, WaitReturns, loopVars
  <2> QED
    BY <1>5, <2>1, <2>2 DEF Client
<1>6. ASSUME NEW g \in Gens, Stall(g) \/ Recover(g) \/ Lose(g) PROVE LoopState'
  <2>1. \A h \in Gens : conn[h] = "closed" => conn'[h] = "closed"
    BY <1>0, <1>6 DEF Stall, Recover, Lose, CarrierChange
  <2>2. UNCHANGED <<pc, panicked, gen, clientPtr, ctxDone, stop>>
    BY <1>6 DEF Stall, Recover, Lose, CarrierChange, loopVars
  <2>3. GenClosed => GenClosed'
    BY <1>0, <2>1, <2>2 DEF Gens
  <2> QED
    BY <2>2, <2>3
<1>7. CASE StopCancel \/ StopDropsClient \/ StopAfterExit \/ StopTimesOut \/ Shutdown
  BY <1>7 DEF StopCancel, StopDropsClient, StopAfterExit, StopTimesOut,
     CleanAndIdle, Shutdown, clientVars, loopVars
<1>8. CASE HealthTick
  BY <1>1, <1>8 DEF HealthTick, clientVars, loopVars
<1> QED
  BY <1>1, <1>2, <1>3, <1>4, <1>5, <1>6, <1>7, <1>8
     DEF Next, Loop, Environment, vars, loopVars, clientVars

LEMMA HookStep ==
  TypeOK /\ HookState /\ [Next]_vars => HookState'
<1> SUFFICES ASSUME TypeOK, HookState, [Next]_vars PROVE HookState'
  OBVIOUS
<1> USE DEF HookState
<1>0. rules \in Rules
  BY DEF TypeOK, SharedTypeOK, Rules
<1>n. pc = "rules" => listening # "never"
  BY DEF HookState
<1>1. CASE UNCHANGED <<pc, listening, rules>>
  BY <1>1
<1>2. CASE DelayElapsed \/ DelayCancelled \/ RouteOffline \/ RouteOnline \/ AuthFails
           \/ AuthSucceeds \/ StartWait \/ WaitReceives \/ WaitCancelled \/ Reconnect \/ Panic
  BY <1>2 DEF DelayElapsed, DelayCancelled, RouteOffline, RouteOnline, AuthFails,
     AuthSucceeds, StartWait, WaitReceives, WaitCancelled, Reconnect, Panic
<1>3. CASE PublishClient
  BY <1>3 DEF PublishClient, TypeOK, LoopTypeOK
<1>4. CASE StartListeners
  BY <1>4 DEF StartListeners
<1>5. CASE InstallRules
  <2>1. PICK tproxy \in {0, 1}, outcome \in {"notConfigured", "notRun", "exitsNonZero", "ok"} :
          LET r == IF outcome \in {"exitsNonZero", "ok"} THEN ScriptEnable(tproxy) ELSE rules
          IN  rules' = [r EXCEPT !.udp = @ + 1]
    BY <1>5 DEF InstallRules
  <2>2. rules.udp = 0 /\ ScriptDisable(rules).udp = 0
    <3>1. rules.udp = 0
      BY <1>5 DEF InstallRules
    <3>2. ScriptDisable(rules).udp = IF rules.udp > 0 THEN rules.udp - 1 ELSE 0
      BY DEF ScriptDisable
    <3> QED
      BY <3>1, <3>2
  <2>3. ScriptEnable(tproxy) \in Rules /\ ScriptEnable(tproxy).udp <= 1
    BY <2>2 DEF ScriptEnable, Rules
  <2>4. rules'.udp <= 2
    BY <1>0, <2>1, <2>2, <2>3 DEF Rules
  <2>5. listening' = listening /\ pc' = "wait" /\ pc = "rules"
    BY <1>5 DEF InstallRules
  <2>6. listening # "never"
    BY <2>5, <1>5, <1>n DEF InstallRules
  <2> QED
    BY <2>4, <2>5, <2>6
<1>6. CASE Teardown
  <2>1. rules'.udp \in Nat /\ rules'.udp <= rules.udp
    <3>1. CASE rules' = rules
      BY <1>0, <3>1 DEF Rules
    <3>2. CASE rules' = ScriptDisable(rules)
      <4>1. rules.udp \in Nat
        BY <1>0 DEF Rules
      <4>2. ScriptDisable(rules).udp = IF rules.udp > 0 THEN rules.udp - 1 ELSE 0
        BY DEF ScriptDisable
      <4>3. rules'.udp = IF rules.udp > 0 THEN rules.udp - 1 ELSE 0
        BY <3>2, <4>2
      <4> QED
        BY <4>1, <4>3
    <3> QED
      BY <1>6, <3>1, <3>2 DEF Teardown
  <2> QED
    BY <1>0, <1>6, <2>1 DEF Teardown, Rules
<1>7. CASE StopAfterExit \/ StopTimesOut
  <2>1. rules'.udp \in Nat /\ rules'.udp <= rules.udp
    BY <1>0, <1>7, NetCleanType DEF StopAfterExit, StopTimesOut, CleanAndIdle, Rules
  <2> QED
    BY <1>0, <1>7, <2>1 DEF StopAfterExit, StopTimesOut, CleanAndIdle, loopVars, Rules
<1>8. CASE HealthTick \/ StopCancel \/ StopDropsClient \/ Shutdown
           \/ \E g \in Gens : Stall(g) \/ Recover(g) \/ Lose(g)
  BY <1>8, <1>1 DEF HealthTick, StopCancel, StopDropsClient, Shutdown, Stall, Recover, Lose,
     CarrierChange, loopVars
<1>9. CASE \E g \in Gens : Client(g)
  BY <1>9, <1>1 DEF Client, KeepAliveOk, KeepAliveMiss, KeepAliveExit, WaitReturns, loopVars
<1> QED
  BY <1>1, <1>2, <1>3, <1>4, <1>5, <1>6, <1>7, <1>8, <1>9
     DEF Next, Loop, Environment, vars, loopVars

LEMMA InvStep == IInv /\ [Next]_vars => IInv'
BY LoopTypeStep, FlagTypeStep, ClientTypeStep, SharedTypeStep, MissesStep, SessionStep, LoopStateStep,
   HookStep DEF IInv, TypeOK

-----------------------------------------------------------------------------
LEMMA Invariance == Spec => []IInv
BY InitInv, InvStep, PTL DEF Spec

\* Every variable keeps the range of its Go counterpart; in particular the
\* back-off of nextDelay never exceeds maxDelay.
THEOREM TypeCorrect == Spec => []TypeOK
<1>1. IInv => TypeOK
  BY DEF IInv
<1> QED
  BY <1>1, Invariance, PTL

\* No two SSH sessions of the loop are ever open at once.
THEOREM OneSession == Spec => []SingleSession
<1>1. IInv => SingleSession
  BY DEF IInv, TypeOK, SharedTypeOK, SessionOrder, SingleSession, Open, Gens
<1> QED
  BY <1>1, Invariance, PTL

\* When tunnelLoop has returned without a panic, no session and no published
\* client is left.
THEOREM CleanExit == Spec => []NothingOutlivesLoop
<1>1. IInv => NothingOutlivesLoop
  BY DEF IInv, TypeOK, SharedTypeOK, SessionOrder, LoopState, GenClosed, Leaving,
         NothingOutlivesLoop, Open, Gens
<1> QED
  BY <1>1, Invariance, PTL

\* curClient never returns a client the loop has replaced.
THEOREM NewestPublished == Spec => []PublishedIsNewest
<1>1. IInv => PublishedIsNewest
  BY DEF IInv, LoopState, PublishedIsNewest
<1> QED
  BY <1>1, Invariance, PTL

\* One net_clean.sh always removes every SSHC_UDP hook, however many reconnects
\* there were.
THEOREM AllHooksRemovable == Spec => []HooksRemovable
<1>1. IInv => HooksRemovable
  BY NetCleanType DEF IInv, TypeOK, SharedTypeOK, HookState, HooksRemovable, Rules
<1> QED
  BY <1>1, Invariance, PTL

\* The script's rules are only removed after a cancel or a panic.
THEOREM RoutingFailsClosed == Spec => FailClosed
<1>1. IInv /\ [Next]_vars => [rules.script /\ ~rules'.script => ctxDone \/ panicked]_vars
  <2> SUFFICES ASSUME IInv, Next, rules.script, ~rules'.script
               PROVE  ctxDone \/ panicked
    OBVIOUS
  <2>0. rules \in Rules /\ LoopState
    BY DEF IInv, TypeOK, SharedTypeOK, Rules
  <2>1. CASE rules' = rules
    BY <2>1
  <2>2. CASE InstallRules
    <3>1. PICK tproxy \in {0, 1}, outcome \in {"notConfigured", "notRun", "exitsNonZero", "ok"} :
            LET r == IF outcome \in {"exitsNonZero", "ok"} THEN ScriptEnable(tproxy) ELSE rules
            IN  rules' = [r EXCEPT !.udp = @ + 1]
      BY <2>2 DEF InstallRules
    <3>2. rules'.script
      BY <2>0, <3>1 DEF ScriptEnable, Rules
    <3> QED
      BY <3>2
  <2>3. CASE Teardown
    BY <2>0, <2>3 DEF Teardown, LoopState, Leaving
  <2>4. CASE StopAfterExit \/ StopTimesOut
    BY <2>0, <2>4 DEF StopAfterExit, StopTimesOut, LoopState
  <2>5. CASE DelayElapsed \/ DelayCancelled \/ RouteOffline \/ RouteOnline \/ AuthFails
             \/ AuthSucceeds \/ PublishClient \/ StartListeners \/ StartWait \/ HealthTick
             \/ WaitReceives \/ WaitCancelled \/ Reconnect \/ Panic
    BY <2>5, <2>1 DEF DelayElapsed, DelayCancelled, RouteOffline, RouteOnline, AuthFails,
       AuthSucceeds, PublishClient, StartListeners, StartWait, HealthTick, WaitReceives,
       WaitCancelled, Reconnect, Panic
  <2>6. CASE StopCancel \/ StopDropsClient \/ Shutdown
             \/ \E g \in Gens : Stall(g) \/ Recover(g) \/ Lose(g)
    BY <2>6, <2>1 DEF StopCancel, StopDropsClient, Shutdown, Stall, Recover, Lose, CarrierChange
  <2>7. CASE \E g \in Gens : Client(g)
    BY <2>7, <2>1 DEF Client, KeepAliveOk, KeepAliveMiss, KeepAliveExit, WaitReturns
  <2> QED
    BY <2>2, <2>3, <2>4, <2>5, <2>6, <2>7 DEF Next, Loop, Environment
<1> QED
  BY <1>1, Invariance, PTL DEF Spec, FailClosed

-----------------------------------------------------------------------------
(* TunnelEngine implements TunnelContract *)

\* A step that leaves phase, context and rules alone and opens no session.
LEMMA ShrinkStep ==
  ASSUME LoopPhase' = LoopPhase, ctxDone' = ctxDone, Routed' = Routed, AnyOpen' => AnyOpen
  PROVE  [Contract!Next]_(Contract!contractVars)
<1>1. CASE AnyOpen' = AnyOpen
  BY <1>1 DEF Contract!contractVars
<1>2. CASE AnyOpen' = FALSE
  BY <1>2 DEF Contract!Next, Contract!Disconnect
<1>3. AnyOpen \in BOOLEAN /\ AnyOpen' \in BOOLEAN
  BY DEF AnyOpen
<1> QED
  BY <1>1, <1>2, <1>3

LEMMA SamePhase ==
  ASSUME \/ pc # "done" /\ pc' # "done"
         \/ pc' = pc /\ panicked' = panicked
  PROVE  LoopPhase' = LoopPhase
BY DEF LoopPhase

\* Sessions that are not touched, or only closed.
LEMMA OpensNothing ==
  ASSUME TypeOK, \A g \in Gens : Open(g)' => Open(g)
  PROVE  AnyOpen' => AnyOpen
BY DEF AnyOpen

LEMMA RefinesStep ==
  IInv /\ [Next]_vars => [Contract!Next]_(Contract!contractVars)
<1> SUFFICES ASSUME IInv, [Next]_vars
             PROVE  [Contract!Next]_(Contract!contractVars)
  OBVIOUS
<1>0. TypeOK /\ SessionOrder /\ LoopState
  BY DEF IInv
<1>a. conn' = conn => (AnyOpen' => AnyOpen)
  BY DEF AnyOpen, Open
<1>b. rules' = rules => Routed' = Routed
  BY DEF Routed
<1>c. gen \in 0..MaxClients /\ conn \in [Gens -> {"none", "up", "stalled", "closed"}] /\ MaxClients \in Nat
  BY <1>0, EngineBounds DEF TypeOK, SharedTypeOK, ClientTypeOK, EngineBounds
<1>d. GenClosed => ~AnyOpen
  BY <1>0, <1>c DEF SessionOrder, GenClosed, AnyOpen, Open, Gens
<1>1. CASE UNCHANGED vars
  BY <1>1, <1>a, <1>b, SamePhase, ShrinkStep DEF vars, loopVars, clientVars
<1>2. CASE DelayElapsed \/ DelayCancelled \/ RouteOffline \/ RouteOnline \/ AuthFails
           \/ PublishClient \/ StartListeners \/ StartWait \/ WaitReceives \/ Panic
  <2>1. pc # "done" /\ pc' # "done" /\ conn' = conn /\ ctxDone' = ctxDone /\ rules' = rules
    BY <1>2 DEF DelayElapsed, DelayCancelled, RouteOffline, RouteOnline, AuthFails,
       PublishClient, StartListeners, StartWait, WaitReceives, Panic, clientVars
  <2> QED
    BY <1>a, <1>b, <2>1, SamePhase, ShrinkStep
<1>3. CASE HealthTick \/ StopDropsClient
  <2>1. pc' = pc /\ panicked' = panicked /\ conn' = conn /\ ctxDone' = ctxDone /\ rules' = rules
    BY <1>3 DEF HealthTick, StopDropsClient, loopVars, clientVars
  <2> QED
    BY <1>a, <1>b, <2>1, SamePhase, ShrinkStep
<1>4. CASE AuthSucceeds
  <2>1. pc = "auth" /\ pc' = "store" /\ ctxDone' = ctxDone /\ rules' = rules
    BY <1>4 DEF AuthSucceeds
  <2>2. ~AnyOpen
    BY <1>0, <1>d, <2>1 DEF LoopState, Between
  <2>3. gen + 1 \in Gens /\ conn' = [conn EXCEPT ![gen + 1] = "up"]
    BY <1>4, <1>c DEF AuthSucceeds, Gens
  <2>4. AnyOpen'
    BY <1>c, <2>3 DEF AnyOpen, Open
  <2>5. LoopPhase = "running" /\ LoopPhase' = "running"
    BY <2>1 DEF LoopPhase
  <2>6. AnyOpen' = TRUE
    BY <2>4 DEF AnyOpen
  <2> QED
    BY <1>b, <2>1, <2>2, <2>5, <2>6 DEF Contract!Next, Contract!Connect
<1>5. CASE WaitCancelled \/ Reconnect
  <2>1. pc # "done" /\ pc' # "done" /\ ctxDone' = ctxDone /\ rules' = rules /\ Close({gen})
    BY <1>5 DEF WaitCancelled, Reconnect
  <2>2. \A g \in Gens : Open(g)' => Open(g)
    BY <1>c, <2>1 DEF Close, Open
  <2> QED
    BY <1>0, <1>b, <2>1, <2>2, OpensNothing, SamePhase, ShrinkStep
<1>6. CASE InstallRules
  <2>1. pc = "rules" /\ pc' = "wait" /\ ctxDone' = ctxDone /\ conn' = conn
    BY <1>6 DEF InstallRules, clientVars
  <2>2. LoopPhase = "running" /\ LoopPhase' = "running"
    BY <2>1 DEF LoopPhase
  <2>3. PICK tproxy \in {0, 1}, outcome \in {"notConfigured", "notRun", "exitsNonZero", "ok"} :
          LET r == IF outcome \in {"exitsNonZero", "ok"} THEN ScriptEnable(tproxy) ELSE rules
          IN  rules' = [r EXCEPT !.udp = @ + 1]
    BY <1>6 DEF InstallRules
  <2>4. rules \in Rules
    BY <1>0 DEF TypeOK, SharedTypeOK, Rules
  <2>5. Routed' = Routed \/ Routed' = TRUE
    BY <2>3, <2>4 DEF ScriptEnable, Routed, Rules
  <2>6. AnyOpen' = AnyOpen
    BY <2>1 DEF AnyOpen, Open
  <2>7. CASE Routed' = Routed
    BY <2>1, <2>2, <2>6, <2>7 DEF Contract!contractVars
  <2>8. CASE Routed' = TRUE
    BY <2>1, <2>2, <2>6, <2>8 DEF Contract!Next, Contract!Route
  <2> QED
    BY <2>5, <2>7, <2>8
<1>7. CASE Teardown
  <2>1. pc = "teardown" /\ pc' = "done" /\ panicked' = panicked /\ ctxDone' = ctxDone /\ conn' = conn
    BY <1>7 DEF Teardown, clientVars
  <2>2. AnyOpen' = AnyOpen
    BY <2>1 DEF AnyOpen, Open
  <2>3. rules' = rules \/ (~ctxDone /\ Routed' = FALSE)
    BY <1>7 DEF Teardown, ScriptDisable, Routed
  <2>4. CASE panicked
    <3>1. LoopPhase = "running" /\ LoopPhase' = "crashed"
      BY <2>1, <2>4 DEF LoopPhase
    <3>2. Routed' \in IF ctxDone THEN {Routed} ELSE {Routed, FALSE}
      BY <1>b, <2>3
    <3> QED
      BY <2>1, <2>2, <3>1, <3>2 DEF Contract!Next, Contract!Crash
  <2>5. CASE ~panicked
    <3>1. LoopPhase = "running" /\ LoopPhase' = "returned"
      BY <2>1, <2>5 DEF LoopPhase
    <3>2. ctxDone /\ ~AnyOpen
      BY <1>0, <1>d, <2>1, <2>5 DEF LoopState, Leaving
    <3> QED
      BY <1>b, <2>1, <2>2, <2>3, <3>1, <3>2 DEF Contract!Next, Contract!Return
  <2> QED
    BY <2>4, <2>5
<1>8. CASE StopAfterExit \/ StopTimesOut
  <2>1. /\ pc' = pc /\ panicked' = panicked /\ ctxDone' = ctxDone /\ conn' = conn
        /\ stop = "waiting" /\ rules' = NetClean(rules)
    BY <1>8 DEF StopAfterExit, StopTimesOut, CleanAndIdle, loopVars, clientVars
  <2>2. Routed' = FALSE
    BY <2>1 DEF NetClean, ScriptDisable, Routed
  <2>3. ctxDone /\ AnyOpen' = AnyOpen
    BY <1>0, <2>1 DEF LoopState, AnyOpen, Open
  <2> QED
    BY <2>1, <2>2, <2>3, SamePhase DEF Contract!Next, Contract!Clean
<1>9. CASE StopCancel \/ Shutdown
  <2>1. pc' = pc /\ panicked' = panicked /\ ctxDone' = TRUE /\ conn' = conn /\ rules' = rules
    BY <1>9 DEF StopCancel, Shutdown, loopVars, clientVars
  <2>2. AnyOpen' = AnyOpen
    BY <2>1 DEF AnyOpen, Open
  <2> QED
    BY <1>b, <2>1, <2>2, SamePhase DEF Contract!Next, Contract!Cancel
<1>10. ASSUME NEW g \in Gens, Stall(g) \/ Recover(g) \/ Lose(g) \/ Client(g)
       PROVE  [Contract!Next]_(Contract!contractVars)
  <2>1. pc' = pc /\ panicked' = panicked /\ ctxDone' = ctxDone /\ rules' = rules
    BY <1>10 DEF Stall, Recover, Lose, CarrierChange, Client, KeepAliveOk, KeepAliveMiss,
       KeepAliveExit, WaitReturns, loopVars
  <2>2. CASE conn' = conn
    BY <1>a, <1>b, <2>1, <2>2, SamePhase, ShrinkStep
  <2>3. CASE Close({g})
    <3>1. \A h \in Gens : Open(h)' => Open(h)
      BY <1>c, <2>3 DEF Close, Open
    <3> QED
      BY <1>0, <1>b, <2>1, <3>1, OpensNothing, SamePhase, ShrinkStep
  <2>4. CASE Stall(g) \/ Recover(g) \/ Lose(g)
    <3>1. \A h \in Gens : Open(h)' => Open(h)
      BY <1>c, <2>4 DEF Stall, Recover, Lose, CarrierChange, Open
    <3> QED
      BY <1>0, <1>b, <2>1, <3>1, OpensNothing, SamePhase, ShrinkStep
  <2> QED
    BY <1>10, <2>2, <2>3, <2>4 DEF Client, KeepAliveOk, KeepAliveMiss, KeepAliveExit,
       WaitReturns, MarkDead
<1> QED
  BY <1>1, <1>2, <1>3, <1>4, <1>5, <1>6, <1>7, <1>8, <1>9, <1>10 DEF Next, Loop, Environment

\* The detailed loop is a TunnelContract: whatever the interleaving, it returns only
\* when cancelled and with its session closed, and opens no session beside another.
THEOREM Refinement == Spec => ImplementsContract
<1>1. Init => Contract!Init
  BY DEF Init, Contract!Init, LoopPhase, AnyOpen, Open, Routed, NoRules
<1> QED
  BY <1>1, RefinesStep, Invariance, PTL DEF Spec, ImplementsContract, Contract!Spec
=============================================================================
