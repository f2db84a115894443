--------------------------- MODULE TunnelLifecycle --------------------------
(***************************************************************************)
(* startTunnel and stopTunnel (cmd/sshcustomd/main.go): closures over      *)
(* unsynchronised variables, called by the goroutines of the control and   *)
(* profile requests, by main at boot, and by the tunnel goroutine itself   *)
(* when it restarts. A step is the code around one access to a shared      *)
(* variable. Of tunnelLoop (engine.go) there is what these two can tell    *)
(* apart; it does what TunnelContract lets it do. Nothing keeps requests   *)
(* apart: what becomes of them depends on whether they overlap, so races   *)
(* remembers that.                                                         *)
(***************************************************************************)
EXTENDS Naturals, FiniteSets

CONSTANTS
  Callers,      \* goroutines that call startTunnel or stopTunnel
  Requests,     \* which caller may ask for what: pairs <<caller, action>>
  MaxTunnels,   \* bound: tunnels started
  MaxRequests,  \* bound: requests made
  FaultSets     \* what may go wrong in a behaviour, one of: "lack", no profile may
                \* be selected; "panic", a tunnelLoop may panic

ASSUME LifecycleAssumption ==
  /\ MaxTunnels \in Nat \ {0} /\ MaxRequests \in Nat
  /\ Callers \cap Nat = {}
  /\ Requests \subseteq Callers \X {"start", "stop", "restart"}
  /\ FaultSets \subseteq SUBSET {"lack", "panic"}

VARIABLES
  pc,              \* where each caller and each tunnel goroutine is
  restarting,      \* callers whose stopTunnel is followed by startTunnel
  mine,            \* startTunnel's locals done and tunnelCtx: the tunnel being made
  waitsFor,        \* the tunnelDone stopTunnel waits for
  tunnelRunning, explicitStop, restartBackoff, tunnelDone, tunnelCancel,
  launched,        \* tunnels made so far
  asked,           \* requests made so far
  cancelled,       \* tunnels whose context was cancelled
  routed,          \* tunnels whose loop has installed its rules
  rootDone,        \* the daemon's context is done (SIGTERM)
  sshClient,       \* the tunnel whose client the shared pointer holds
  rulesOf,         \* the tunnel that installed the rules that are in the kernel
  idle,            \* State.State is IDLE
  faults,          \* what may go wrong in this behaviour
  races            \* history: which requests have overlapped, see NewRaces

shared == <<tunnelRunning, explicitStop, restartBackoff, tunnelDone, tunnelCancel, launched>>
locals == <<restarting, mine, asked, waitsFor>>
loops  == <<cancelled, routed, rootDone, sshClient, rulesOf, idle>>
steps  == <<pc, locals, shared, loops>>
vars   == <<steps, faults, races>>

Nil     == 0
Tunnels == 1..MaxTunnels
Actors  == Callers \cup Tunnels

Starting  == {"start", "clean", "claim"}
Launching == {"reset", "publishDone", "publishCancel", "spawn"}
Stopping  == {"stop", "flag", "cancel", "drop", "join", "joining", "stopClean", "stopIdle"}
LoopPlaces == {"loop", "auth", "up", "drain"}
Tail      == {"tail", "tailStopped", "tailIdle", "tailUnexpected", "backoff"}

\* The type invariant, a part of NoOrphanRules: backoff stays within 60 s, references name made tunnels.
TypeOK ==
  /\ pc \in [Actors -> {"idle", "none", "ended"} \cup Starting \cup Launching \cup Stopping
                        \cup LoopPlaces \cup Tail]
  /\ restarting \in SUBSET Callers
  /\ mine \in [Actors -> 0..MaxTunnels]
  /\ waitsFor \in [Callers -> 0..MaxTunnels] /\ asked \in 0..MaxRequests
  /\ tunnelRunning \in BOOLEAN /\ explicitStop \in BOOLEAN /\ rootDone \in BOOLEAN
  /\ restartBackoff \in 0..60
  /\ launched \in 0..MaxTunnels
  /\ {tunnelDone, tunnelCancel, sshClient, rulesOf} \subseteq 0..launched
  /\ cancelled \in SUBSET Tunnels /\ routed \in SUBSET Tunnels
  /\ idle \in BOOLEAN
  /\ faults \in FaultSets /\ races \in SUBSET {"claim", "overlap", "late"}

Init ==
  /\ pc = [a \in Actors |-> IF a \in Callers THEN "idle" ELSE "none"]
  /\ restarting = {}
  /\ mine = [a \in Actors |-> Nil]
  /\ waitsFor = [c \in Callers |-> Nil]
  /\ tunnelRunning = FALSE /\ explicitStop = FALSE
  /\ restartBackoff = 0
  /\ tunnelDone = Nil /\ tunnelCancel = Nil
  /\ launched = 0 /\ asked = 0
  /\ cancelled = {} /\ routed = {}
  /\ rootDone = FALSE
  /\ sshClient = Nil /\ rulesOf = Nil
  /\ idle = TRUE
  /\ faults \in FaultSets /\ races = {}

Go(a, from, to) == pc[a] = from /\ pc' = [pc EXCEPT ![a] = to]

\* tunnelCtx of tunnel t, a child of the daemon's context, is done.
CtxDone(t) == t \in cancelled \/ rootDone

\* Returning from startTunnel: a tunnel goroutine then closes its done channel.
Returned(a) == IF a \in Callers THEN "idle" ELSE "ended"

-----------------------------------------------------------------------------
(* The control request (and a profile selection with restart) *)

Request(c) ==
  /\ asked < MaxRequests /\ asked' = asked + 1
  /\ \E action \in {"start", "stop", "restart"} :
       /\ <<c, action>> \in Requests
       /\ Go(c, "idle", IF action = "start" THEN "start" ELSE "stop")
       /\ restarting' = IF action = "restart" THEN restarting \cup {c} ELSE restarting
  /\ UNCHANGED <<mine, waitsFor, shared, loops>>

-----------------------------------------------------------------------------
(* startTunnel *)

StartCheck(a) ==
  /\ Go(a, "start", IF tunnelRunning THEN Returned(a) ELSE "clean")
  /\ UNCHANGED <<locals, shared, loops>>

\* net_clean.sh, so that a start begins from a clean table.
StartCleans(a) ==
  /\ Go(a, "clean", "claim")
  /\ rulesOf' = Nil
  /\ UNCHANGED <<locals, shared, cancelled, routed, rootDone, sshClient, idle>>

\* No profile is selected.
StartNoProfile(a) ==
  /\ "lack" \in faults
  /\ Go(a, "claim", Returned(a))
  /\ UNCHANGED <<locals, shared, loops>>

StartClaims(a) ==
  /\ launched < MaxTunnels
  /\ Go(a, "claim", "reset")
  /\ tunnelRunning' = TRUE
  /\ UNCHANGED <<locals, explicitStop, restartBackoff, tunnelDone, tunnelCancel, launched, loops>>

StartResets(a) ==
  /\ Go(a, "reset", "publishDone")
  /\ explicitStop' = FALSE
  /\ restartBackoff' = 0
  /\ UNCHANGED <<locals, tunnelRunning, tunnelDone, tunnelCancel, launched, loops>>

StartPublishesDone(a) ==
  /\ launched < MaxTunnels
  /\ Go(a, "publishDone", "publishCancel")
  /\ launched' = launched + 1
  /\ mine' = [mine EXCEPT ![a] = launched']
  /\ tunnelDone' = launched'
  /\ UNCHANGED <<restarting, waitsFor, asked, tunnelRunning, explicitStop, restartBackoff,
                 tunnelCancel, loops>>

\* Mutant: the cancel function of the first tunnel is kept.
StartPublishesCancel_Once(a) ==
  /\ Go(a, "publishCancel", "spawn")
  /\ tunnelCancel' = IF tunnelCancel = Nil THEN mine[a] ELSE tunnelCancel
  /\ UNCHANGED <<locals, tunnelRunning, explicitStop, restartBackoff, tunnelDone, launched, loops>>

StartPublishesCancel(a) ==
  /\ Go(a, "publishCancel", "spawn")
  /\ tunnelCancel' = mine[a]
  /\ UNCHANGED <<locals, tunnelRunning, explicitStop, restartBackoff, tunnelDone, launched, loops>>

\* State STARTING, and the goroutine of the new tunnel.
StartSpawns(a) ==
  /\ pc[a] = "spawn"
  /\ pc' = [pc EXCEPT ![a] = Returned(a), ![mine[a]] = "loop"]
  /\ mine' = [mine EXCEPT ![a] = Nil]
  /\ idle' = FALSE
  /\ UNCHANGED <<restarting, waitsFor, asked, shared, cancelled, routed, rootDone, sshClient, rulesOf>>

-----------------------------------------------------------------------------
(* stopTunnel; a restart sleeps 500 ms and goes on with startTunnel *)

StopReturns(c, from) ==
  /\ Go(c, from, IF c \in restarting THEN "start" ELSE "idle")
  /\ restarting' = restarting \ {c}

StopIgnored(c) ==
  /\ ~tunnelRunning
  /\ StopReturns(c, "stop")
  /\ UNCHANGED <<mine, waitsFor, asked, shared, loops>>

StopBegins(c) ==
  /\ tunnelRunning
  /\ Go(c, "stop", "flag")
  /\ UNCHANGED <<locals, shared, loops>>

StopSetsFlag(c) ==
  /\ Go(c, "flag", "cancel")
  /\ explicitStop' = TRUE
  /\ UNCHANGED <<locals, tunnelRunning, restartBackoff, tunnelDone, tunnelCancel, launched, loops>>

StopCancels(c) ==
  /\ Go(c, "cancel", "drop")
  /\ cancelled' = cancelled \cup ({tunnelCancel} \ {Nil})
  /\ UNCHANGED <<locals, shared, routed, rootDone, sshClient, rulesOf, idle>>

StopDropsClient(c) ==
  /\ Go(c, "drop", "join")
  /\ sshClient' = Nil
  /\ UNCHANGED <<locals, shared, cancelled, routed, rootDone, rulesOf, idle>>

\* Mutant: net_clean.sh runs without waiting for the tunnel goroutine.
StopReadsDone_NoWait(c) ==
  /\ Go(c, "join", "stopClean")
  /\ UNCHANGED <<locals, shared, loops>>

StopReadsDone(c) ==
  /\ Go(c, "join", "joining")
  /\ waitsFor' = [waitsFor EXCEPT ![c] = tunnelDone]
  /\ UNCHANGED <<restarting, mine, asked, shared, loops>>

StopJoins(c) ==
  /\ waitsFor[c] # Nil => pc[waitsFor[c]] = "ended"
  /\ Go(c, "joining", "stopClean")
  /\ waitsFor' = [waitsFor EXCEPT ![c] = Nil]
  /\ UNCHANGED <<restarting, mine, asked, shared, loops>>

\* Mutant: the wait for tunnelDone has no time limit.
StopTimesOut_Never(c) ==
  /\ FALSE
  /\ Go(c, "joining", "stopClean")
  /\ UNCHANGED <<locals, shared, loops>>

\* 5 s are over: cleanup proceeds anyway.
StopTimesOut(c) ==
  /\ waitsFor[c] # Nil
  /\ Go(c, "joining", "stopClean")
  /\ waitsFor' = [waitsFor EXCEPT ![c] = Nil]
  /\ UNCHANGED <<restarting, mine, asked, shared, loops>>

StopCleans(c) ==
  /\ Go(c, "stopClean", "stopIdle")
  /\ rulesOf' = Nil
  /\ UNCHANGED <<locals, shared, cancelled, routed, rootDone, sshClient, idle>>

\* Mutant: stopTunnel itself declares the tunnel gone.
StopIdle_ClearsRunning(c) ==
  /\ StopReturns(c, "stopIdle")
  /\ idle' = TRUE
  /\ tunnelRunning' = FALSE
  /\ UNCHANGED <<mine, waitsFor, asked, explicitStop, restartBackoff, tunnelDone, tunnelCancel,
                 launched, cancelled, routed, rootDone, sshClient, rulesOf>>

StopIdle(c) ==
  /\ StopReturns(c, "stopIdle")
  /\ idle' = TRUE
  /\ UNCHANGED <<mine, waitsFor, asked, shared, cancelled, routed, rootDone, sshClient, rulesOf>>

-----------------------------------------------------------------------------
(* tunnelLoop, as TunnelContract allows. In the backoff and while connected it *)
(* notices a cancelled context; in the SSH handshake it does not.              *)

LoopDials(t) ==
  /\ ~CtxDone(t)
  /\ Go(t, "loop", "auth")
  /\ idle' = FALSE
  /\ UNCHANGED <<locals, shared, cancelled, routed, rootDone, sshClient, rulesOf>>

LoopAuthFails(t) ==
  /\ Go(t, "auth", "loop")
  /\ idle' = FALSE
  /\ UNCHANGED <<locals, shared, cancelled, routed, rootDone, sshClient, rulesOf>>

LoopConnects(t) ==
  /\ Go(t, "auth", "up")
  /\ sshClient' = t
  /\ idle' = FALSE
  /\ UNCHANGED <<locals, shared, cancelled, routed, rootDone, rulesOf>>

LoopInstallsRules(t) ==
  /\ pc[t] = "up" /\ t \notin routed
  /\ routed' = routed \cup {t}
  /\ rulesOf' = t
  /\ UNCHANGED <<pc, locals, shared, cancelled, rootDone, sshClient, idle>>

\* The connection is lost: the loop receives from waitDone a second time, for ever.
LoopLosesClient(t) ==
  /\ Go(t, "up", "drain")
  /\ UNCHANGED <<locals, shared, loops>>

LoopReturns(t) ==
  /\ CtxDone(t)
  /\ Go(t, "loop", "tail") \/ Go(t, "up", "tail")
  /\ sshClient' = Nil
  /\ UNCHANGED <<locals, shared, cancelled, routed, rootDone, rulesOf, idle>>

\* recover() logs, the rest of the goroutine is skipped, done is closed.
LoopPanics(t) ==
  /\ "panic" \in faults
  /\ \E place \in LoopPlaces \ {"drain"} : Go(t, place, "ended")
  /\ sshClient' = Nil
  /\ rulesOf' = IF ~CtxDone(t) /\ t \in routed THEN Nil ELSE rulesOf
  /\ UNCHANGED <<locals, shared, cancelled, routed, rootDone, idle>>

-----------------------------------------------------------------------------
(* The tunnel goroutine after tunnelLoop *)

\* Mutant: the flag is not looked at, every exit is taken for unexpected.
TailDecides_IgnoresFlag(t) ==
  /\ Go(t, "tail", IF rootDone THEN "tailStopped" ELSE "tailUnexpected")
  /\ UNCHANGED <<locals, shared, loops>>

TailDecides(t) ==
  /\ Go(t, "tail", IF explicitStop \/ rootDone THEN "tailStopped" ELSE "tailUnexpected")
  /\ UNCHANGED <<locals, shared, loops>>

TailStopped(t) ==
  /\ Go(t, "tailStopped", "tailIdle")
  /\ tunnelRunning' = FALSE
  /\ UNCHANGED <<locals, explicitStop, restartBackoff, tunnelDone, tunnelCancel, launched, loops>>

TailIdle(t) ==
  /\ Go(t, "tailIdle", "ended")
  /\ idle' = TRUE
  /\ UNCHANGED <<locals, shared, cancelled, routed, rootDone, sshClient, rulesOf>>

TailUnexpected(t) ==
  /\ Go(t, "tailUnexpected", "backoff")
  /\ tunnelRunning' = FALSE
  /\ LET delay == IF restartBackoff = 0 THEN 2 ELSE restartBackoff
     IN  restartBackoff' = IF delay * 2 > 60 THEN 60 ELSE delay * 2
  /\ UNCHANGED <<locals, explicitStop, tunnelDone, tunnelCancel, launched, loops>>

TailRestarts(t) ==
  /\ Go(t, "backoff", IF rootDone \/ explicitStop THEN "ended" ELSE "start")
  /\ UNCHANGED <<locals, shared, loops>>

\* SIGTERM reaches the daemon.
Shutdown ==
  /\ ~rootDone
  /\ rootDone' = TRUE
  /\ UNCHANGED <<pc, locals, shared, cancelled, routed, sshClient, rulesOf, idle>>

-----------------------------------------------------------------------------
Start(a) ==
  \/ StartCheck(a) \/ StartCleans(a) \/ StartNoProfile(a) \/ StartClaims(a)
  \/ StartResets(a) \/ StartPublishesDone(a) \/ StartPublishesCancel(a) \/ StartSpawns(a)

Stop(c) ==
  \/ StopIgnored(c) \/ StopBegins(c) \/ StopSetsFlag(c) \/ StopCancels(c)
  \/ StopDropsClient(c) \/ StopReadsDone(c) \/ StopJoins(c) \/ StopTimesOut(c)
  \/ StopCleans(c) \/ StopIdle(c)

AfterLoop(t) ==
  TailDecides(t) \/ TailStopped(t) \/ TailIdle(t) \/ TailUnexpected(t) \/ TailRestarts(t)

Loop(t) ==
  \/ LoopDials(t) \/ LoopAuthFails(t) \/ LoopConnects(t) \/ LoopInstallsRules(t)
  \/ LoopLosesClient(t) \/ LoopReturns(t) \/ LoopPanics(t)

\* What this step adds to the history. Two starts overlap: the second passed the
\* check before the first set tunnelRunning. A start and a stop overlap: one is
\* past its check while the other is between its own and its end. A stop gives up
\* on a tunnel whose context is done and which has not ended.
Overlapping ==
  (\E a \in Actors : pc[a] \in Launching) /\ (\E c \in Callers : pc[c] \in Stopping \ {"stop"})

NewRaces ==
  {r \in {"claim", "overlap", "late"} :
     \/ r = "claim" /\ tunnelRunning /\ \E a \in Actors : pc[a] = "claim" /\ pc'[a] = "reset"
     \/ r = "overlap" /\ Overlapping'
     \/ r = "late" /\ \E c \in Callers :
          /\ pc[c] = "joining" /\ pc'[c] = "stopClean" /\ waitsFor[c] # Nil
          /\ CtxDone(waitsFor[c]) /\ pc[waitsFor[c]] # "ended"}

Next ==
  /\ UNCHANGED faults
  /\ \/ \E c \in Callers : Request(c) \/ Stop(c)
     \/ \E a \in Actors : Start(a)
     \/ \E t \in Tunnels : Loop(t) \/ AfterLoop(t)
     \/ Shutdown
  /\ races' = races \cup NewRaces

Spec == Init /\ [][Next]_vars

(* The goroutines run on; a cancelled tunnelLoop returns where it looks at its *)
(* context. Nothing is assumed of the handshake, which has no deadline, nor of *)
(* a loop that has lost its connection: StopTerminates of TunnelEngine.        *)
FairSpec ==
  /\ Spec
  /\ \A a \in Actors : WF_steps(Start(a))
  /\ \A c \in Callers : WF_steps(Stop(c))
  /\ \A t \in Tunnels : WF_steps(LoopReturns(t)) /\ WF_steps(AfterLoop(t))

-----------------------------------------------------------------------------
(* Properties *)

Alive(t) == pc[t] \in LoopPlaces

\* README.md:3, "a single SSH connection": no two tunnelLoops run side by side.
\* They would share clientPtr, the listeners' ports and the rules.
OneTunnel == \A t, u \in Tunnels : Alive(t) /\ Alive(u) => t = u

\* Unless two starts overlapped, whatever stops and restarts overlap them: there is
\* one running tunnel, and it can be stopped. tunnelRunning lets stopTunnel through,
\* and what it finds in tunnelCancel and tunnelDone is this tunnel's.
CanBeStopped ==
  "claim" \notin races =>
    \A t \in Tunnels : Alive(t) => tunnelRunning /\ tunnelCancel = t /\ tunnelDone = t

\* The rules in the kernel have a tunnel behind them, or a stop that has still to
\* remove them: traffic is not routed into listeners that are gone, however starts
\* and stops overlap, unless two starts did or a stop gave up on its tunnel after
\* 5 s (which may install its rules later). (And TypeOK.)
NoOrphanRules ==
  /\ TypeOK
  /\ rulesOf # Nil /\ ~rootDone /\ races \cap {"claim", "late"} = {} =>
       \/ Alive(rulesOf) \/ pc[rulesOf] \in {"tail", "tailStopped", "tailUnexpected"}
       \/ \E c \in Callers : pc[c] \in {"drop", "join", "joining", "stopClean"}

\* When no requests have overlapped and none is being served, what the daemon shows
\* is true: IDLE only with no tunnel running behind it, and the client in the shared
\* pointer is that of the tunnel that is up.
StatusIsTrue ==
  races = {} /\ (\A c \in Callers : pc[c] = "idle") =>
    \A t \in Tunnels : Alive(t) /\ ~CtxDone(t) => ~idle /\ (pc[t] = "up" => sshClient = t)

\* A tunnel does not come back by itself unless a start overlapped the stop, or
\* another start: tunnelLoop returns only when it is cancelled, and then the tail
\* finds explicitStop as the stop has left it.
StopIsFinal ==
  [][\A t \in Tunnels :
       pc[t] = "backoff" /\ pc'[t] = "start" => races \cap {"claim", "overlap"} # {}]_vars

\* stopTunnel returns, whatever the tunnel that it waits for is blocked in.
StopsReturn == \A c \in Callers : pc[c] \in Stopping ~> pc[c] \notin Stopping

\* Where nothing else fails, a restart leads to a new tunnel, unless requests overlap
\* or its stop gives up on the old one (or the daemon is shut down, or the bound on
\* tunnels is reached).
RestartRestarts == \A n \in 0..(MaxTunnels - 1) :
  faults = {} /\ restarting # {} /\ launched = n ~> launched > n \/ rootDone \/ races # {}
=============================================================================
