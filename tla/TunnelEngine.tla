---------------------------- MODULE TunnelEngine ----------------------------
(***************************************************************************)
(* The connection manager of sshcustomd (cmd/sshcustomd/engine.go): one    *)
(* tunnelLoop goroutine, the SSH clients (tunClient) it creates one after  *)
(* the other, the keepAlive goroutine of each client, the goroutine that   *)
(* forwards tc.Wait() into waitDone, and the parts of stopTunnel           *)
(* (cmd/sshcustomd/main.go) that act on the same state from another        *)
(* goroutine.                                                              *)
(*                                                                         *)
(* A step of the model is the code between two accesses of the loop to     *)
(* state that another goroutine, the carrier or the user can change.       *)
(* Texts, addresses and counters that are only displayed are left out.     *)
(***************************************************************************)
EXTENDS Naturals

CONSTANTS
  MaxClients,    \* bound: how many SSH clients the loop may create
  DrainAgain,    \* TRUE: line 329 receives from waitDone a second time, as the
                 \* code does; FALSE: it may also go on, as if it used the value
                 \* the select received (every behaviour of TRUE is one of FALSE)
  Transparent,   \* the values cfg.TransparentProxy.Enabled may have
  MayPanic,      \* may the loop's goroutine panic (main.go recovers)?
  BaseDelay, MaxDelay, OfflineDelay   \* seconds: 1, 30 and 5 in the code

ASSUME EngineFlags ==
  DrainAgain \in BOOLEAN /\ Transparent \in SUBSET BOOLEAN /\ MayPanic \in BOOLEAN

ASSUME EngineBounds ==
  /\ MaxClients \in Nat \ {0}
  /\ BaseDelay \in Nat \ {0} /\ MaxDelay \in Nat /\ OfflineDelay \in Nat
  /\ BaseDelay <= MaxDelay /\ OfflineDelay <= MaxDelay

VARIABLES
  pc,          \* where tunnelLoop is
  delay,       \* its local: seconds before the next attempt
  listening,   \* listenerCancel: "never" (nil), "up", "cancelled"
  iptablesUp,  \* its local iptablesUp
  panicked,    \* did the goroutine panic?
  gen,         \* clients created so far; client gen is the loop's tc
  conn,        \* conn[g]: the SSH session of client g
  dead,        \* tunClient.dead
  cancelled,   \* was tunClient.cancel called?
  missed,      \* keepAlive's local missed
  alive,       \* is client g's keepAlive goroutine running?
  waiter,      \* waitDone of client g and the goroutine that fills it
  active,      \* tunClient.active
  clientPtr,   \* the shared atomic pointer; Nil or a client
  ctxDone,     \* tunnelCtx is cancelled
  stop,        \* progress of stopTunnel
  rules,       \* kernel rules: the script's, and SSHC_UDP hooks put by the loop
  st           \* the fields of State that carry decisions

loopVars   == <<pc, delay, listening, iptablesUp, panicked>>
clientVars == <<conn, dead, cancelled, missed, alive, waiter>>
vars == <<loopVars, gen, clientVars, active, clientPtr, ctxDone, stop, rules, st>>

Nil  == 0
Gens == 1..MaxClients

LoopPc == {"delay", "route", "auth", "store", "listeners", "rules", "wait",
           "waiting", "drain", "teardown", "done"}
Statuses == {"STARTING", "PAUSED_NO_NETWORK", "CONNECTING_SSH", "RETRY_BACKOFF",
             "CONNECTED", "RECONNECTING", "IDLE"}

LoopTypeOK ==
  /\ pc \in LoopPc
  /\ delay \in 0..MaxDelay
  /\ listening \in {"never", "up", "cancelled"}

FlagTypeOK == iptablesUp \in BOOLEAN /\ panicked \in BOOLEAN /\ ctxDone \in BOOLEAN

ClientTypeOK ==
  /\ conn \in [Gens -> {"none", "up", "stalled", "closed"}]
  /\ dead \in [Gens -> BOOLEAN]
  /\ cancelled \in [Gens -> BOOLEAN]
  /\ missed \in [Gens -> 0..2]
  /\ alive \in [Gens -> BOOLEAN]
  /\ waiter \in [Gens -> {"none", "waiting", "sent", "taken"}]

SharedTypeOK ==
  /\ gen \in 0..MaxClients
  /\ clientPtr \in 0..MaxClients
  /\ active \in [Gens -> Nat]
  /\ stop \in {"none", "cancelled", "waiting", "cleaned"}
  /\ rules \in [script : BOOLEAN, udp : Nat]
  /\ st \in [state : Statuses, connected : BOOLEAN, applied : BOOLEAN, streams : Nat]

\* The type invariant: every variable stays in the range its Go counterpart has.
TypeOK == LoopTypeOK /\ FlagTypeOK /\ ClientTypeOK /\ SharedTypeOK

NoRules == [script |-> FALSE, udp |-> 0]

\* ssh.iptables cleanup: every rule of the script goes, but -D removes only one
\* of the identical SSHC_UDP hooks.
ScriptDisable(r) == [script |-> FALSE, udp |-> IF r.udp > 0 THEN r.udp - 1 ELSE 0]

\* ssh.iptables enable: cleanup first; an SSHC_UDP hook if the kernel has TPROXY.
ScriptEnable(tproxy) == [script |-> TRUE, udp |-> ScriptDisable(rules).udp + tproxy]

\* net_clean.sh: ssh.iptables disable, then clean_udp_tproxy deletes one more hook.
NetClean(r) == ScriptDisable(ScriptDisable(r))

Init ==
  /\ pc = "delay"
  /\ delay = 0
  /\ listening = "never"
  /\ iptablesUp = FALSE
  /\ panicked = FALSE
  /\ gen = 0
  /\ conn = [g \in Gens |-> "none"]
  /\ dead = [g \in Gens |-> FALSE]
  /\ cancelled = [g \in Gens |-> FALSE]
  /\ missed = [g \in Gens |-> 0]
  /\ alive = [g \in Gens |-> FALSE]
  /\ waiter = [g \in Gens |-> "none"]
  /\ active = [g \in Gens |-> 0]
  /\ clientPtr = Nil
  /\ ctxDone = FALSE
  /\ stop = "none"
  /\ rules = NoRules
  /\ st = [state |-> "STARTING", connected |-> FALSE, applied |-> FALSE, streams |-> 0]

-----------------------------------------------------------------------------
(* tunClient *)

\* Close of every client in G: its context is cancelled and its session closed.
Close(G) ==
  /\ cancelled' = [g \in Gens |-> cancelled[g] \/ g \in G]
  /\ conn' = [g \in Gens |-> IF g \in G THEN "closed" ELSE conn[g]]

\* Mutant: the flag is set but the session is left open.
MarkDead_FlagOnly(G) ==
  /\ dead' = [g \in Gens |-> dead[g] \/ g \in G]
  /\ UNCHANGED <<cancelled, conn>>

\* MarkDead of every client in G: the flag first, then Close.
MarkDead(G) ==
  /\ dead' = [g \in Gens |-> dead[g] \/ g \in G]
  /\ Close(G)

\* The context of client g (a child of tunnelCtx) is done.
ClientCtxDone(g) == cancelled[g] \/ ctxDone

Open(g) == conn[g] \in {"up", "stalled"}

\* keepAlive: the request was answered within 5 s.
KeepAliveOk(g) ==
  /\ alive[g] /\ conn[g] = "up"
  /\ missed' = [missed EXCEPT ![g] = 0]
  /\ UNCHANGED <<loopVars, gen, conn, dead, cancelled, alive, waiter, active,
                 clientPtr, ctxDone, stop, rules, st>>

\* keepAlive: an error, or nothing for 5 s; the second miss in a row kills the client.
KeepAliveMiss(g) ==
  /\ alive[g] /\ conn[g] \in {"stalled", "closed"}
  /\ missed' = [missed EXCEPT ![g] = @ + 1]
  /\ IF missed[g] + 1 >= 2
     THEN MarkDead({g}) /\ alive' = [alive EXCEPT ![g] = FALSE]
     ELSE UNCHANGED <<conn, dead, cancelled, alive>>
  /\ UNCHANGED <<loopVars, gen, waiter, active, clientPtr, ctxDone, stop, rules, st>>

\* keepAlive: the client's context is done, the goroutine returns without closing.
KeepAliveExit(g) ==
  /\ alive[g] /\ ClientCtxDone(g)
  /\ alive' = [alive EXCEPT ![g] = FALSE]
  /\ UNCHANGED <<loopVars, gen, conn, dead, cancelled, missed, waiter, active,
                 clientPtr, ctxDone, stop, rules, st>>

\* The goroutine of line 294: tc.Wait() returned, its error goes into waitDone.
WaitReturns(g) ==
  /\ waiter[g] = "waiting" /\ conn[g] = "closed"
  /\ waiter' = [waiter EXCEPT ![g] = "sent"]
  /\ UNCHANGED <<loopVars, gen, conn, dead, cancelled, missed, alive, active,
                 clientPtr, ctxDone, stop, rules, st>>

-----------------------------------------------------------------------------
(* tunnelLoop *)

\* Mutant: the cap is forgotten.
nextDelay_Uncapped(cur) == IF cur = 0 THEN BaseDelay ELSE cur * 2

nextDelay(cur) ==
  IF cur = 0 THEN BaseDelay
  ELSE IF cur * 2 > MaxDelay THEN MaxDelay ELSE cur * 2

\* The fields every loss of connection clears.
Offline(state) == [st EXCEPT !.state = state, !.connected = FALSE]

\* select at the top of the loop: the timer fires ...
DelayElapsed ==
  /\ pc = "delay"
  /\ pc' = "route"
  /\ UNCHANGED <<delay, listening, iptablesUp, panicked, gen, clientVars, active,
                 clientPtr, ctxDone, stop, rules, st>>

\* ... or the context is done.
DelayCancelled ==
  /\ pc = "delay" /\ ctxDone
  /\ pc' = "teardown"
  /\ UNCHANGED <<delay, listening, iptablesUp, panicked, gen, clientVars, active,
                 clientPtr, ctxDone, stop, rules, st>>

\* routeInfo reports no default route.
RouteOffline ==
  /\ pc = "route"
  /\ st' = Offline("PAUSED_NO_NETWORK")
  /\ delay' = OfflineDelay
  /\ pc' = "delay"
  /\ UNCHANGED <<listening, iptablesUp, panicked, gen, clientVars, active,
                 clientPtr, ctxDone, stop, rules>>

RouteOnline ==
  /\ pc = "route"
  /\ st' = [st EXCEPT !.state = "CONNECTING_SSH"]
  /\ pc' = "auth"
  /\ UNCHANGED <<delay, listening, iptablesUp, panicked, gen, clientVars, active,
                 clientPtr, ctxDone, stop, rules>>

\* Mutant: routing is torn down while reconnecting.
AuthFails_TearsDown ==
  /\ pc = "auth"
  /\ st' = Offline("RETRY_BACKOFF")
  /\ delay' = nextDelay(delay)
  /\ rules' = ScriptDisable(rules)
  /\ pc' = "delay"
  /\ UNCHANGED <<listening, iptablesUp, panicked, gen, clientVars, active,
                 clientPtr, ctxDone, stop>>

\* Mutant: a failed attempt is retried without going through the select.
AuthFails_NoSelect ==
  /\ pc = "auth"
  /\ st' = Offline("RETRY_BACKOFF")
  /\ delay' = nextDelay(delay)
  /\ pc' = "route"
  /\ UNCHANGED <<listening, iptablesUp, panicked, gen, clientVars, active,
                 clientPtr, ctxDone, stop, rules>>

\* attemptSSHAuth fails; the rules stay up.
AuthFails ==
  /\ pc = "auth"
  /\ st' = Offline("RETRY_BACKOFF")
  /\ delay' = nextDelay(delay)
  /\ pc' = "delay"
  /\ UNCHANGED <<listening, iptablesUp, panicked, gen, clientVars, active,
                 clientPtr, ctxDone, stop, rules>>

\* attemptSSHAuth succeeds (the SSH handshake does not watch ctx, so it may
\* succeed after a cancel) and newTunClient starts the keepAlive goroutine.
AuthSucceeds ==
  /\ pc = "auth" /\ gen < MaxClients
  /\ gen' = gen + 1
  /\ conn' = [conn EXCEPT ![gen'] = "up"]
  /\ alive' = [alive EXCEPT ![gen'] = TRUE]
  /\ delay' = BaseDelay
  /\ pc' = "store"
  /\ UNCHANGED <<listening, iptablesUp, panicked, dead, cancelled, missed, waiter,
                 active, clientPtr, ctxDone, stop, rules, st>>

\* Mutant: listeners and rules are brought up on every connect.
PublishClient_EveryTime ==
  /\ pc = "store"
  /\ clientPtr' = gen
  /\ st' = [st EXCEPT !.state = "CONNECTED", !.connected = TRUE, !.streams = 0]
  /\ pc' = "listeners"
  /\ UNCHANGED <<delay, listening, iptablesUp, panicked, gen, clientVars, active,
                 ctxDone, stop, rules>>

\* clientPtr.Store(tc) and State CONNECTED; listeners only the first time.
PublishClient ==
  /\ pc = "store"
  /\ clientPtr' = gen
  /\ st' = [st EXCEPT !.state = "CONNECTED", !.connected = TRUE, !.streams = 0]
  /\ pc' = IF listening = "up" THEN "wait" ELSE "listeners"
  /\ UNCHANGED <<delay, listening, iptablesUp, panicked, gen, clientVars, active,
                 ctxDone, stop, rules>>

StartListeners ==
  /\ pc = "listeners"
  /\ listening' = "up"
  /\ pc' = "rules"
  /\ UNCHANGED <<delay, iptablesUp, panicked, gen, clientVars, active,
                 clientPtr, ctxDone, stop, rules, st>>

\* "ssh.iptables enable", if the transparent proxy is configured: it may not run
\* at all, or install its rules and still exit with an error. Then, always, the
\* loop inserts one SSHC_UDP hook of its own.
InstallRules ==
  /\ pc = "rules"
  /\ \E enabled \in Transparent, tproxy \in {0, 1},
         outcome \in {"notConfigured", "notRun", "exitsNonZero", "ok"} :
       /\ (outcome = "notConfigured") = ~enabled
       /\ iptablesUp' = (outcome = "ok")
       /\ LET r == IF outcome \in {"exitsNonZero", "ok"} THEN ScriptEnable(tproxy) ELSE rules
          IN  rules' = [r EXCEPT !.udp = @ + 1]
       /\ st' = [st EXCEPT !.applied = IF outcome = "notConfigured" THEN @
                                       ELSE outcome = "ok"]
  /\ pc' = "wait"
  /\ UNCHANGED <<delay, listening, panicked, gen, clientVars, active, clientPtr,
                 ctxDone, stop>>

\* Mutant: the loop goes on to the next attempt without waiting for the client.
StartWait_Skips ==
  /\ pc = "wait"
  /\ pc' = "delay"
  /\ UNCHANGED <<delay, listening, iptablesUp, panicked, gen, clientVars, active,
                 clientPtr, ctxDone, stop, rules, st>>

\* A fresh waitDone (capacity 1) and the goroutine that sends into it once.
StartWait ==
  /\ pc = "wait"
  /\ waiter' = [waiter EXCEPT ![gen] = "waiting"]
  /\ pc' = "waiting"
  /\ UNCHANGED <<delay, listening, iptablesUp, panicked, gen, conn, dead, cancelled,
                 missed, alive, active, clientPtr, ctxDone, stop, rules, st>>

HealthTick ==
  /\ pc = "waiting"
  /\ st' = [st EXCEPT !.streams = active[gen]]
  /\ UNCHANGED <<loopVars, gen, clientVars, active, clientPtr, ctxDone, stop, rules>>

\* Mutant: the cancelled loop returns without tc.Close().
WaitCancelled_NoClose ==
  /\ pc = "waiting" /\ ctxDone
  /\ clientPtr' = Nil
  /\ pc' = "teardown"
  /\ UNCHANGED <<delay, listening, iptablesUp, panicked, gen, clientVars,
                 active, ctxDone, stop, rules, st>>

WaitCancelled ==
  /\ pc = "waiting" /\ ctxDone
  /\ Close({gen})
  /\ clientPtr' = Nil
  /\ pc' = "teardown"
  /\ UNCHANGED <<delay, listening, iptablesUp, panicked, gen, dead, missed, alive,
                 waiter, active, ctxDone, stop, rules, st>>

\* The select's receive takes the only value waitDone will ever hold.
WaitReceives ==
  /\ pc = "waiting" /\ waiter[gen] = "sent"
  /\ waiter' = [waiter EXCEPT ![gen] = "taken"]
  /\ pc' = "drain"
  /\ UNCHANGED <<delay, listening, iptablesUp, panicked, gen, conn, dead, cancelled,
                 missed, alive, active, clientPtr, ctxDone, stop, rules, st>>

\* Mutant: clientPtr.Store(nil) is forgotten.
Reconnect_KeepsPointer ==
  /\ pc = "drain"
  /\ DrainAgain => waiter[gen] = "sent"
  /\ Close({gen})
  /\ st' = [Offline("RECONNECTING") EXCEPT !.streams = 0]
  /\ delay' = BaseDelay
  /\ pc' = "delay"
  /\ UNCHANGED <<listening, iptablesUp, panicked, gen, dead, missed, alive, waiter,
                 active, clientPtr, ctxDone, stop, rules>>

\* Line 329, waitErr := <-waitDone, and what follows it up to the next attempt.
Reconnect ==
  /\ pc = "drain"
  /\ DrainAgain => waiter[gen] = "sent"
  /\ Close({gen})
  /\ clientPtr' = Nil
  /\ st' = [Offline("RECONNECTING") EXCEPT !.streams = 0]
  /\ delay' = BaseDelay
  /\ pc' = "delay"
  /\ UNCHANGED <<listening, iptablesUp, panicked, gen, dead, missed, alive, waiter,
                 active, ctxDone, stop, rules>>

\* The deferred teardown: after a cancel the rules are left to stopTunnel.
Teardown ==
  /\ pc = "teardown"
  /\ listening' = IF listening = "up" THEN "cancelled" ELSE listening
  /\ clientPtr' = Nil
  /\ IF ~ctxDone /\ iptablesUp
     THEN iptablesUp' = FALSE /\ rules' = ScriptDisable(rules)
     ELSE UNCHANGED <<iptablesUp, rules>>
  /\ pc' = "done"
  /\ UNCHANGED <<delay, panicked, gen, clientVars, active, ctxDone, stop, st>>

\* A panic unwinds straight into the deferred teardown.
Panic ==
  /\ MayPanic /\ pc \notin {"teardown", "done"}
  /\ panicked' = TRUE
  /\ pc' = "teardown"
  /\ UNCHANGED <<delay, listening, iptablesUp, gen, clientVars, active, clientPtr,
                 ctxDone, stop, rules, st>>

-----------------------------------------------------------------------------
(* stopTunnel, the daemon's shutdown, and the carrier *)

StopCancel ==
  /\ stop = "none"
  /\ ctxDone' = TRUE
  /\ stop' = "cancelled"
  /\ UNCHANGED <<loopVars, gen, clientVars, active, clientPtr, rules, st>>

StopDropsClient ==
  /\ stop = "cancelled"
  /\ clientPtr' = Nil
  /\ stop' = "waiting"
  /\ UNCHANGED <<loopVars, gen, clientVars, active, ctxDone, rules, st>>

\* net_clean.sh and State IDLE.
CleanAndIdle ==
  /\ rules' = NetClean(rules)
  /\ st' = [Offline("IDLE") EXCEPT !.streams = 0]
  /\ stop' = "cleaned"
  /\ UNCHANGED <<loopVars, gen, clientVars, active, clientPtr, ctxDone>>

StopAfterExit == stop = "waiting" /\ pc = "done" /\ CleanAndIdle

\* tunnelDone did not close within 5 s: stopTunnel goes on anyway.
StopTimesOut == stop = "waiting" /\ pc # "done" /\ CleanAndIdle

\* SIGTERM: the root context, tunnelCtx's parent, is cancelled; nobody cleans.
Shutdown ==
  /\ ~ctxDone
  /\ ctxDone' = TRUE
  /\ UNCHANGED <<loopVars, gen, clientVars, active, clientPtr, stop, rules, st>>

CarrierChange(g, from, to) ==
  /\ conn[g] = from
  /\ conn' = [conn EXCEPT ![g] = to]
  /\ UNCHANGED <<loopVars, gen, dead, cancelled, missed, alive, waiter, active,
                 clientPtr, ctxDone, stop, rules, st>>

\* Packets stop arriving; they may come back; the server or carrier may close.
Stall(g)   == CarrierChange(g, "up", "stalled")
Recover(g) == CarrierChange(g, "stalled", "up")
Lose(g)    == CarrierChange(g, "up", "closed")

-----------------------------------------------------------------------------
Loop ==
  \/ DelayElapsed \/ DelayCancelled \/ RouteOffline \/ RouteOnline
  \/ AuthFails \/ AuthSucceeds \/ PublishClient \/ StartListeners \/ InstallRules
  \/ StartWait \/ HealthTick \/ WaitCancelled \/ WaitReceives \/ Reconnect \/ Teardown

Client(g) ==
  KeepAliveOk(g) \/ KeepAliveMiss(g) \/ KeepAliveExit(g) \/ WaitReturns(g)

Environment ==
  \/ StopCancel \/ StopDropsClient \/ StopAfterExit \/ StopTimesOut \/ Shutdown
  \/ \E g \in Gens : Stall(g) \/ Recover(g) \/ Lose(g)

Next == Loop \/ Panic \/ Environment \/ \E g \in Gens : Client(g)

Spec == Init /\ [][Next]_vars

(* The goroutines keep running: a step of the loop that waits for nobody is  *)
(* weakly fair, a select that prefers no ready case is strongly fair, and    *)
(* keepAlive's ticker ticks. Nothing is assumed of the two places where the  *)
(* loop waits without looking at its context: the handshake in               *)
(* attemptSSHAuth (no deadline) and line 329 (no second value comes).        *)
Fairness ==
  /\ WF_vars(DelayElapsed \/ DelayCancelled) /\ SF_vars(DelayCancelled)
  /\ WF_vars(RouteOffline \/ RouteOnline)
  /\ WF_vars(PublishClient) /\ WF_vars(StartListeners) /\ WF_vars(InstallRules)
  /\ WF_vars(StartWait) /\ SF_vars(WaitCancelled) /\ SF_vars(WaitReceives)
  /\ WF_vars(Teardown)
  /\ WF_vars(StopDropsClient) /\ WF_vars(StopAfterExit)
  /\ \A g \in Gens : WF_vars(KeepAliveMiss(g)) /\ WF_vars(WaitReturns(g))

FairSpec == Spec /\ Fairness

(* As favourable as can be: every attempt returns, line 329 goes on if it can. *)
ConnectFairSpec ==
  FairSpec /\ WF_vars(AuthFails \/ AuthSucceeds) /\ WF_vars(Reconnect)

-----------------------------------------------------------------------------
(* The loop seen from startTunnel and stopTunnel *)

LoopPhase ==
  IF pc # "done" THEN "running" ELSE IF panicked THEN "crashed" ELSE "returned"

AnyOpen == \E g \in Gens : Open(g)

Routed == rules.script

Contract == INSTANCE TunnelContract WITH
  phase <- LoopPhase, cancelled <- ctxDone, session <- AnyOpen, routed <- Routed

-----------------------------------------------------------------------------
(* Properties *)

\* What main.go relies on when it runs tunnelLoop (TunnelContract): it returns only
\* when cancelled, with its session closed; it opens a session only after the last
\* one is gone; only a crash or net_clean.sh removes rules. Every step of every
\* goroutine is one of those, or none of the caller's business.
ImplementsContract == Contract!Spec

\* engine.go:3-9: one SSH connection carries everything. Whatever the order of
\* losses, reconnects, kills and stops, no two sessions are open at once.
SingleSession == \A g, h \in Gens : Open(g) /\ Open(h) => g = h

\* Once tunnelLoop has returned (without a panic) nothing is left behind: every
\* session it opened is closed, and no handler can still fetch a client.
NothingOutlivesLoop ==
  pc = "done" => /\ clientPtr = Nil
                 /\ panicked \/ \A g \in Gens : ~Open(g)

\* curClient() is nil or the newest client: a stop that stores nil between the
\* loop's own stores never brings an older client back.
PublishedIsNewest == clientPtr \in {Nil, gen}

\* "Bring listeners + iptables up exactly once": however often the loop reconnects,
\* there are at most the script's SSHC_UDP hook and the loop's, which is as many as
\* one run of net_clean.sh removes.
HooksRemovable == NetClean(rules) = NoRules

\* "Rules are only cleaned on an explicit stop/shutdown": no step removes the
\* script's rules unless the tunnel was cancelled or its goroutine panicked.
FailClosed == [][rules.script /\ ~rules'.script => ctxDone \/ panicked]_vars

\* A cancelled tunnel's loop returns (what stopTunnel waits for), unless it is
\* stuck for ever in one of the two places that do not look at the context: the
\* handshake, and line 329 after a lost connection. Every other wait gives way.
StopTerminates ==
  ctxDone ~> (pc = "done" \/ [](pc = "auth") \/ [](pc = "drain"))

\* "wait for the client to die -> reconnect": handlers do not keep being handed
\* a client whose session is gone.
LostIsReplaced == \A g \in Gens :
  clientPtr = g /\ conn[g] = "closed" ~> clientPtr # g

\* A link that stalls without being closed is noticed by keepAlive, or comes back
\* (after a panic nobody closes the session if its keepAlive has returned, too).
StallIsNoticed == \A g \in Gens :
  conn[g] = "stalled" ~> conn[g] # "stalled" \/ panicked
=============================================================================
