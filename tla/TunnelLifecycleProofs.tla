----------------------- MODULE TunnelLifecycleProofs -----------------------
(***************************************************************************)
(* Proofs about TunnelLifecycle for any number of goroutines that start    *)
(* and stop the tunnel at any time, with panics and a shutdown at any      *)
(* step. IInv says what each place of a goroutine implies for the shared   *)
(* variables as long as the requests have not overlapped in the way that   *)
(* breaks it: Held until two starts overlap, Flagged until a start and a   *)
(* stop do, Awaited until a stop gives up on its tunnel.                   *)
(***************************************************************************)
EXTENDS TunnelLifecycle, TLAPS

\* From the claim of tunnelRunning to the new done channel; from there to the
\* new goroutine; the goroutine until it clears tunnelRunning.
Making  == {"reset", "publishDone"}
Handing == {"publishCancel", "spawn"}
Running == LoopPlaces \cup {"tail", "tailStopped", "tailUnexpected"}

CallerPlaces == {"idle"} \cup Starting \cup Launching \cup Stopping
TunnelPlaces == {"none", "ended"} \cup Starting \cup Launching \cup LoopPlaces \cup Tail

Types ==
  /\ pc \in [Actors -> CallerPlaces \cup TunnelPlaces]
  /\ restarting \in SUBSET Callers
  /\ mine \in [Actors -> 0..launched]
  /\ waitsFor \in [Callers -> 0..MaxTunnels]
  /\ asked \in 0..MaxRequests
  /\ restartBackoff \in 0..60
  /\ launched \in 0..MaxTunnels
  /\ tunnelDone = launched
  /\ tunnelCancel \in 0..launched /\ sshClient \in 0..launched /\ rulesOf \in 0..launched
  /\ cancelled \in SUBSET (1..launched) /\ routed \in SUBSET (1..launched)
  /\ faults \in FaultSets /\ races \in SUBSET {"claim", "overlap", "late"}

Flags ==
  tunnelRunning \in BOOLEAN /\ explicitStop \in BOOLEAN /\ rootDone \in BOOLEAN /\ idle \in BOOLEAN

Places ==
  /\ \A c \in Callers : pc[c] \in CallerPlaces
  /\ \A t \in Tunnels : pc[t] \in TunnelPlaces /\ (t > launched => pc[t] = "none")
  /\ \A a \in Actors : pc[a] \in Handing => mine[a] # Nil

\* tunnelRunning is claimed by one goroutine at a time: one in startTunnel, or the
\* newest tunnel's, which is then what tunnelCancel and tunnelDone are for.
Holds(a) == pc[a] \in Making \cup Handing \cup Running

Held == "claim" \notin races =>
  /\ \A a \in Actors : Holds(a) => tunnelRunning
  /\ \A a, b \in Actors : Holds(a) /\ Holds(b) => a = b
  /\ \A a \in Actors : pc[a] \in Handing => mine[a] = launched /\ pc[launched] = "none"
  /\ \A a \in Actors : pc[a] = "spawn" => tunnelCancel = launched
  /\ \A t \in Tunnels : pc[t] \in Running => t = launched /\ tunnelCancel = t
  /\ \A t \in 1..launched : pc[t] = "none" => t = launched /\ \E a \in Actors : pc[a] \in Handing

\* A tunnel that was cancelled finds explicitStop set; so no tunnel comes back.
Flagged == {"claim", "overlap"} \cap races = {} =>
  /\ ~Overlapping
  /\ \A c \in Callers : pc[c] = "cancel" => explicitStop
  /\ \A t \in cancelled : pc[t] # "none" /\ (pc[t] \in LoopPlaces \cup {"tail"} => explicitStop)
  /\ \A t \in Tunnels : pc[t] \notin {"tailUnexpected", "backoff"}

\* Outside a shutdown, a tunnel that was cancelled has a stop that waits for it,
\* and rules without a tunnel a stop that will remove them.
Waits(c, t) == pc[c] \in {"drop", "join"} \/ (pc[c] = "joining" /\ waitsFor[c] = t)

Awaited == ~rootDone /\ {"claim", "late"} \cap races = {} =>
  /\ \A t \in cancelled : pc[t] \in {"none"} \cup Running => \E c \in Callers : Waits(c, t)
  /\ rulesOf # Nil =>
       \/ pc[rulesOf] \in Running
       \/ \E c \in Callers : pc[c] \in {"drop", "join", "joining", "stopClean"}

\* tunnelLoop returns only when its context is done; who installed rules is known.
Left ==
  /\ \A t \in Tunnels : pc[t] \in Running \ LoopPlaces => CtxDone(t)
  /\ rulesOf # Nil => rulesOf \in routed

IInv == Types /\ Flags /\ Places /\ Left /\ Held /\ Flagged /\ Awaited

-----------------------------------------------------------------------------
(* Callers and tunnel goroutines *)

\* No goroutine is both, and tunnels are numbered from 1.
LEMMA Apart == /\ \A c \in Callers : c \in Actors /\ c \notin Tunnels
               /\ \A t \in Tunnels : t \in Actors /\ t \notin Callers /\ t \in Nat /\ t # Nil
               /\ \A a \in Actors : a \in Callers \/ a \in Tunnels
               /\ MaxTunnels \in Nat /\ MaxTunnels > 0 /\ MaxRequests \in Nat
BY LifecycleAssumption DEF LifecycleAssumption, Tunnels, Actors, Nil

\* A step of one goroutine leaves the others where they are.
LEMMA Moves ==
  ASSUME Types, NEW a \in Actors, NEW from, NEW to, Go(a, from, to)
  PROVE  /\ pc[a] = from /\ pc'[a] = to
         /\ \A b \in Actors : b # a => pc'[b] = pc[b]
         /\ DOMAIN pc = Actors
BY DEF Types, Go

\* A new tunnel's goroutine.
LEMMA Spawns ==
  ASSUME IInv, NEW a \in Actors, StartSpawns(a)
  PROVE  /\ mine[a] \in Tunnels /\ mine[a] \in 1..launched /\ mine[a] \in Actors
         /\ pc[a] = "spawn" /\ pc'[mine[a]] = "loop"
         /\ a # mine[a] => pc'[a] = Returned(a)
         /\ \A b \in Actors : b # a /\ b # mine[a] => pc'[b] = pc[b]
BY Apart DEF IInv, Types, Places, Handing, StartSpawns, Tunnels, Nil

\* Whose step it is.
LEMMA NextCases ==
  ASSUME Next
  PROVE  \/ \E c \in Callers : Request(c)
         \/ \E c \in Callers : Stop(c)
         \/ \E a \in Actors : Start(a)
         \/ \E t \in Tunnels : Loop(t)
         \/ \E t \in Tunnels : AfterLoop(t)
         \/ Shutdown
BY Zenon DEF Next

-----------------------------------------------------------------------------
(* Types *)

\* What a step that only moves one goroutine leaves well typed.
LEMMA MoveTypes ==
  ASSUME Types, NEW a \in Actors, NEW from, NEW to \in CallerPlaces \cup TunnelPlaces,
         Go(a, from, to)
  PROVE  pc' \in [Actors -> CallerPlaces \cup TunnelPlaces]
BY DEF Types, Go

LEMMA InitTypes ==
  ASSUME Init
  PROVE  Types /\ Flags
<1>1. Types
  BY Apart DEF Init, Types, CallerPlaces, TunnelPlaces, Nil
<1>2. Flags
  BY Zenon DEF Init, Flags
<1> QED
  BY <1>1, <1>2

LEMMA RequestTypes ==
  ASSUME Types, NEW c \in Callers, Request(c), UNCHANGED faults, races' \in SUBSET {"claim", "overlap", "late"}
  PROVE  Types'
<1>1. pc' \in [Actors -> CallerPlaces \cup TunnelPlaces]
  <2>1. PICK action \in {"start", "stop", "restart"} :
          Go(c, "idle", IF action = "start" THEN "start" ELSE "stop")
    BY DEF Request
  <2> QED
    BY <2>1, MoveTypes, Apart DEF CallerPlaces, Starting, Stopping
<1>2. restarting' \in SUBSET Callers
  BY DEF Types, Request
<1>3. asked' \in 0..MaxRequests
  BY Apart DEF Types, Request
<1> QED
  BY <1>1, <1>2, <1>3 DEF Types, Request, shared, loops

LEMMA StartTypes ==
  ASSUME Types, NEW a \in Actors, Start(a), UNCHANGED faults, races' \in SUBSET {"claim", "overlap", "late"}, Places
  PROVE  Types'
<1> USE DEF CallerPlaces, TunnelPlaces, Starting, Launching
<1> DEFINE P == CallerPlaces \cup TunnelPlaces
<1>1. CASE StartCheck(a)
  <2>1. pc' \in [Actors -> P]
    BY <1>1, MoveTypes DEF StartCheck, Returned
  <2> QED
    BY <1>1, <2>1 DEF Types, StartCheck, locals, shared, loops
<1>2. CASE StartCleans(a)
  <2>1. pc' \in [Actors -> P]
    BY <1>2, MoveTypes DEF StartCleans
  <2> QED
    BY <1>2, <2>1 DEF Types, StartCleans, locals, shared, Nil
<1>3. CASE StartNoProfile(a)
  <2>1. pc' \in [Actors -> P]
    BY <1>3, MoveTypes DEF StartNoProfile, Returned
  <2> QED
    BY <1>3, <2>1 DEF Types, StartNoProfile, locals, shared, loops
<1>4. CASE StartClaims(a)
  <2>1. pc' \in [Actors -> P]
    BY <1>4, MoveTypes DEF StartClaims
  <2> QED
    BY <1>4, <2>1 DEF Types, StartClaims, locals, loops
<1>5. CASE StartResets(a)
  <2>1. pc' \in [Actors -> P]
    BY <1>5, MoveTypes DEF StartResets
  <2> QED
    BY <1>5, <2>1 DEF Types, StartResets, locals, loops
<1>6. CASE StartPublishesDone(a)
  <2>1. pc' \in [Actors -> P]
    BY <1>6, MoveTypes DEF StartPublishesDone
  <2>2. launched' = launched + 1 /\ launched' \in 0..MaxTunnels
    BY <1>6, Apart DEF Types, StartPublishesDone
  <2>3. mine' \in [Actors -> 0..launched']
    BY <1>6, <2>2, Apart DEF Types, StartPublishesDone
  <2> QED
    BY <1>6, <2>1, <2>2, <2>3, Apart DEF Types, StartPublishesDone, loops
<1>7. CASE StartPublishesCancel(a)
  <2>1. pc' \in [Actors -> P]
    BY <1>7, MoveTypes DEF StartPublishesCancel
  <2> QED
    BY <1>7, <2>1 DEF Types, StartPublishesCancel, locals, loops
<1>8. CASE StartSpawns(a)
  <2>1. pc' \in [Actors -> P]
    BY <1>8 DEF StartSpawns, Types, LoopPlaces, Returned
  <2> QED
    BY <1>8, <2>1 DEF Types, StartSpawns, shared, Nil
<1> QED
  BY <1>1, <1>2, <1>3, <1>4, <1>5, <1>6, <1>7, <1>8 DEF Start

LEMMA StopTypes ==
  ASSUME Types, NEW c \in Callers, Stop(c), UNCHANGED faults, races' \in SUBSET {"claim", "overlap", "late"}
  PROVE  Types'
<1> USE DEF CallerPlaces, Starting, Stopping
<1> USE Apart
<1> DEFINE P == CallerPlaces \cup TunnelPlaces
<1>1. CASE StopIgnored(c)
  <2>1. pc' \in [Actors -> P]
    BY <1>1, MoveTypes DEF StopIgnored, StopReturns
  <2> QED
    BY <1>1, <2>1 DEF Types, StopIgnored, StopReturns, shared, loops
<1>2. CASE StopBegins(c)
  <2>1. pc' \in [Actors -> P]
    BY <1>2, MoveTypes DEF StopBegins
  <2> QED
    BY <1>2, <2>1 DEF Types, StopBegins, locals, shared, loops
<1>3. CASE StopSetsFlag(c)
  <2>1. pc' \in [Actors -> P]
    BY <1>3, MoveTypes DEF StopSetsFlag
  <2> QED
    BY <1>3, <2>1 DEF Types, StopSetsFlag, locals, loops
<1>4. CASE StopCancels(c)
  <2>1. pc' \in [Actors -> P]
    BY <1>4, MoveTypes DEF StopCancels
  <2>2. cancelled' \in SUBSET (1..launched)
    <3>1. {tunnelCancel} \ {Nil} \subseteq 1..launched
      BY DEF Types, Nil
    <3> QED
      BY <1>4, <3>1 DEF Types, StopCancels
  <2> QED
    BY <1>4, <2>1, <2>2 DEF Types, StopCancels, locals, shared
<1>5. CASE StopDropsClient(c)
  <2>1. pc' \in [Actors -> P]
    BY <1>5, MoveTypes DEF StopDropsClient
  <2> QED
    BY <1>5, <2>1 DEF Types, StopDropsClient, locals, shared, Nil
<1>6. CASE StopReadsDone(c)
  <2>1. pc' \in [Actors -> P]
    BY <1>6, MoveTypes DEF StopReadsDone
  <2>2. waitsFor' \in [Callers -> 0..MaxTunnels]
    BY <1>6 DEF Types, StopReadsDone
  <2> QED
    BY <1>6, <2>1, <2>2 DEF Types, StopReadsDone, shared, loops
<1>7. CASE StopJoins(c) \/ StopTimesOut(c)
  <2>1. pc' \in [Actors -> P]
    BY <1>7, MoveTypes DEF StopJoins, StopTimesOut
  <2>2. waitsFor' \in [Callers -> 0..MaxTunnels]
    BY <1>7 DEF Types, StopJoins, StopTimesOut, Nil
  <2>3. UNCHANGED <<restarting, mine, asked, shared, loops>>
    BY <1>7 DEF StopJoins, StopTimesOut
  <2> QED
    BY <2>3, <2>1, <2>2 DEF Types, shared, loops
<1>8. CASE StopCleans(c)
  <2>1. pc' \in [Actors -> P]
    BY <1>8, MoveTypes DEF StopCleans
  <2> QED
    BY <1>8, <2>1 DEF Types, StopCleans, locals, shared, Nil
<1>9. CASE StopIdle(c)
  <2>1. pc' \in [Actors -> P]
    BY <1>9, MoveTypes DEF StopIdle, StopReturns
  <2> QED
    BY <1>9, <2>1 DEF Types, StopIdle, StopReturns, shared
<1> QED
  BY <1>1, <1>2, <1>3, <1>4, <1>5, <1>6, <1>7, <1>8, <1>9 DEF Stop

LEMMA TunnelTypes ==
  ASSUME Types, Places, NEW t \in Tunnels, Loop(t) \/ AfterLoop(t), UNCHANGED faults,
         races' \in SUBSET {"claim", "overlap", "late"}
  PROVE  Types'
<1> USE DEF CallerPlaces, TunnelPlaces, Starting, LoopPlaces, Tail
<1> USE Apart
<1> DEFINE P == CallerPlaces \cup TunnelPlaces
<1>0. pc[t] # "none" => t \in 1..launched
  BY DEF Places, Types, Tunnels
<1>1. CASE LoopDials(t) \/ LoopAuthFails(t)
  <2>1. pc' \in [Actors -> P]
    BY <1>1, MoveTypes DEF LoopDials, LoopAuthFails
  <2>2. UNCHANGED <<locals, shared, cancelled, routed, rootDone, sshClient, rulesOf>>
    BY <1>1 DEF LoopDials, LoopAuthFails
  <2> QED
    BY <2>1, <2>2 DEF Types, locals, shared
<1>2. CASE LoopConnects(t)
  <2>1. pc' \in [Actors -> P] /\ pc[t] = "auth"
    BY <1>2, MoveTypes DEF LoopConnects, Go
  <2> QED
    BY <1>2, <2>1, <1>0 DEF Types, LoopConnects, locals, shared
<1>3. CASE LoopInstallsRules(t)
  <2>1. t \in 1..launched
    BY <1>3, <1>0 DEF LoopInstallsRules
  <2> QED
    BY <1>3, <2>1 DEF Types, LoopInstallsRules, locals, shared
<1>4. CASE LoopLosesClient(t)
  <2>1. pc' \in [Actors -> P]
    BY <1>4, MoveTypes DEF LoopLosesClient
  <2> QED
    BY <1>4, <2>1 DEF Types, LoopLosesClient, locals, shared, loops
<1>5. CASE LoopReturns(t)
  <2>1. pc' \in [Actors -> P]
    BY <1>5, MoveTypes DEF LoopReturns
  <2> QED
    BY <1>5, <2>1 DEF Types, LoopReturns, locals, shared, Nil
<1>6. CASE LoopPanics(t)
  <2>1. pc' \in [Actors -> P]
    BY <1>6, MoveTypes DEF LoopPanics
  <2>2. rulesOf' \in 0..launched
    BY <1>6 DEF Types, LoopPanics, Nil
  <2> QED
    BY <1>6, <2>1, <2>2 DEF Types, LoopPanics, locals, shared, Nil
<1>7. CASE TailDecides(t) \/ TailRestarts(t)
  <2>1. pc' \in [Actors -> P]
    BY <1>7, MoveTypes DEF TailDecides, TailRestarts
  <2>2. UNCHANGED <<locals, shared, loops>>
    BY <1>7 DEF TailDecides, TailRestarts
  <2> QED
    BY <2>1, <2>2 DEF Types, locals, shared, loops
<1>8. CASE TailStopped(t)
  <2>1. pc' \in [Actors -> P]
    BY <1>8, MoveTypes DEF TailStopped
  <2> QED
    BY <1>8, <2>1 DEF Types, TailStopped, locals, loops
<1>9. CASE TailIdle(t)
  <2>1. pc' \in [Actors -> P]
    BY <1>9, MoveTypes DEF TailIdle
  <2> QED
    BY <1>9, <2>1 DEF Types, TailIdle, locals, shared
<1>10. CASE TailUnexpected(t)
  <2>1. pc' \in [Actors -> P]
    BY <1>10, MoveTypes DEF TailUnexpected
  <2>2. restartBackoff' \in 0..60
    BY <1>10 DEF Types, TailUnexpected
  <2> QED
    BY <1>10, <2>1, <2>2 DEF Types, TailUnexpected, locals, loops
<1> QED
  BY <1>1, <1>2, <1>3, <1>4, <1>5, <1>6, <1>7, <1>8, <1>9, <1>10 DEF Loop, AfterLoop

LEMMA TypesKept ==
  ASSUME IInv, Next
  PROVE  Types'
<1>1. UNCHANGED faults /\ races' \in SUBSET {"claim", "overlap", "late"}
  BY DEF IInv, Types, Next, NewRaces
<1>2. Types /\ Places
  BY DEF IInv
<1>3. CASE Shutdown
  BY <1>1, <1>2, <1>3 DEF Types, Shutdown, locals, shared
<1> QED
  BY <1>1, <1>2, <1>3, NextCases, RequestTypes, StartTypes, StopTypes, TunnelTypes

LEMMA FlagsKept ==
  ASSUME IInv, Next
  PROVE  Flags'
<1>1. Flags
  BY DEF IInv
<1>2. CASE \E c \in Callers : Request(c)
  BY Zenon, <1>1, <1>2 DEF Flags, Request, shared, loops
<1>3. CASE \E c \in Callers : Stop(c)
  BY Zenon, <1>1, <1>3 DEF Flags, Stop, StopIgnored, StopBegins, StopSetsFlag, StopCancels,
     StopDropsClient, StopReadsDone, StopJoins, StopTimesOut, StopCleans, StopIdle, shared, loops
<1>4. CASE \E a \in Actors : Start(a)
  BY Zenon, <1>1, <1>4 DEF Flags, Start, StartCheck, StartCleans, StartNoProfile, StartClaims,
     StartResets, StartPublishesDone, StartPublishesCancel, StartSpawns, shared, loops
<1>5. CASE \E t \in Tunnels : Loop(t)
  BY Zenon, <1>1, <1>5 DEF Flags, Loop, LoopDials, LoopAuthFails, LoopConnects,
     LoopInstallsRules, LoopLosesClient, LoopReturns, LoopPanics, shared, loops
<1>6. CASE \E t \in Tunnels : AfterLoop(t)
  BY Zenon, <1>1, <1>6 DEF Flags, AfterLoop, TailDecides, TailStopped, TailIdle,
     TailUnexpected, TailRestarts, shared, loops
<1>7. CASE Shutdown
  BY Zenon, <1>1, <1>7 DEF Flags, Shutdown, shared
<1> QED
  BY <1>2, <1>3, <1>4, <1>5, <1>6, <1>7, NextCases

-----------------------------------------------------------------------------
(* Places *)

LEMMA InitPlaces ==
  ASSUME Init
  PROVE  Places /\ Left
BY Apart DEF Init, Places, Left, CallerPlaces, TunnelPlaces, Handing, Running, LoopPlaces, Nil

\* What a step that only moves one goroutine leaves in place.
LEMMA MovePlaces ==
  ASSUME Types, Places, NEW a \in Actors, NEW from, NEW to, Go(a, from, to), from # "none",
         from \in CallerPlaces => to \in CallerPlaces,
         from \in TunnelPlaces => to \in TunnelPlaces,
         to \notin Handing \/ from \in Handing \/ mine'[a] # Nil,
         \A b \in Actors : b # a \/ from \in Handing => mine'[b] = mine[b],
         launched' \in Nat, launched' >= launched
  PROVE  Places'
<1>1. /\ pc[a] = from /\ pc'[a] = to
      /\ \A b \in Actors : b # a => pc'[b] = pc[b]
  BY Moves
<1>2. \A c \in Callers : pc'[c] \in CallerPlaces
  BY <1>1, Apart DEF Places
<1>3. \A t \in Tunnels : pc'[t] \in TunnelPlaces /\ (t > launched' => pc'[t] = "none")
  BY <1>1, Apart DEF Places, Types
<1>4. \A b \in Actors : pc'[b] \in Handing => mine'[b] # Nil
  BY <1>1 DEF Places
<1> QED
  BY <1>2, <1>3, <1>4 DEF Places

LEMMA PlacesKept ==
  ASSUME IInv, Next
  PROVE  Places'
<1> USE DEF CallerPlaces, TunnelPlaces, Starting, Launching, Stopping, LoopPlaces, Tail, Handing
<1>0. Types /\ Places /\ launched \in Nat
  BY Apart DEF IInv, Types
<1>1. ASSUME NEW c \in Callers, Request(c) PROVE Places'
  <2>1. UNCHANGED <<mine, launched>>
    BY <1>1 DEF Request, shared
  <2>2. PICK action \in {"start", "stop", "restart"} :
          Go(c, "idle", IF action = "start" THEN "start" ELSE "stop")
    BY <1>1 DEF Request
  <2> QED
    BY <1>0, <2>1, <2>2, MovePlaces, Apart
<1>2. ASSUME NEW c \in Callers, Stop(c) PROVE Places'
  <2>1. UNCHANGED <<mine, launched>>
    BY Zenon, <1>2 DEF Stop, StopIgnored, StopBegins, StopSetsFlag, StopCancels,
     StopDropsClient, StopReadsDone, StopJoins, StopTimesOut, StopCleans, StopIdle, shared, locals
  <2>2. PICK from \in Stopping, to \in Stopping \cup {"idle", "start"} : Go(c, from, to)
    BY <1>2 DEF Stop, StopIgnored, StopBegins, StopSetsFlag, StopCancels, StopReturns,
     StopDropsClient, StopReadsDone, StopJoins, StopTimesOut, StopCleans, StopIdle
  <2> QED
    BY <1>0, <2>1, <2>2, MovePlaces, Apart
<1>3. ASSUME NEW a \in Actors, Start(a), ~StartSpawns(a) PROVE Places'
  <2>1. CASE StartPublishesDone(a)
    <3>1. Go(a, "publishDone", "publishCancel") /\ launched' = launched + 1
      BY <2>1 DEF StartPublishesDone
    <3>2. mine'[a] # Nil /\ \A b \in Actors : b # a => mine'[b] = mine[b]
      BY <1>0, <2>1, <3>1 DEF StartPublishesDone, Types, Nil
    <3> QED
      BY <1>0, <3>1, <3>2, MovePlaces
  <2>2. CASE ~StartPublishesDone(a)
    <3>1. UNCHANGED <<mine, launched>>
      BY Zenon, <1>3, <2>2 DEF Start, StartCheck, StartCleans, StartNoProfile, StartClaims,
         StartResets, StartPublishesCancel, shared, locals
    <3>2. Go(a, "publishCancel", "spawn") \/ \E from \in {"start", "clean", "claim", "reset"},
             to \in {"clean", "claim", "reset", "publishDone", Returned(a)} : Go(a, from, to)
      BY <1>3, <2>2 DEF Start, StartCheck, StartCleans, StartNoProfile, StartClaims,
         StartResets, StartPublishesCancel
    <3>3. CASE Go(a, "publishCancel", "spawn")
      BY <1>0, <3>1, <3>3, MovePlaces
    <3>4. CASE \E from \in {"start", "clean", "claim", "reset"},
             to \in {"clean", "claim", "reset", "publishDone", Returned(a)} : Go(a, from, to)
      <4>1. PICK from \in {"start", "clean", "claim", "reset"},
             to \in {"clean", "claim", "reset", "publishDone", Returned(a)} : Go(a, from, to)
        BY <3>4
      <4>2. CASE a \in Callers
        <5>1. to \in {"clean", "claim", "reset", "publishDone", "idle"} /\ a \notin Tunnels
          BY <4>2, Apart DEF Returned
        <5> HIDE DEF CallerPlaces, TunnelPlaces
        <5>2. pc[a] = from /\ pc'[a] = to /\ \A b \in Actors : b # a => pc'[b] = pc[b]
          BY <1>0, <4>1, Moves
        <5> QED
          BY <1>0, <3>1, <4>2, <5>1, <5>2, Apart DEF Places, CallerPlaces
      <4>3. CASE a \in Tunnels
        <5>1. to \in {"clean", "claim", "reset", "publishDone", "ended"} /\ a \notin Callers
          BY <4>3, Apart DEF Returned
        <5> HIDE DEF CallerPlaces, TunnelPlaces
        <5>2. pc[a] = from /\ pc'[a] = to /\ \A b \in Actors : b # a => pc'[b] = pc[b]
          BY <1>0, <4>1, Moves
        <5> QED
          BY <1>0, <3>1, <4>3, <5>1, <5>2, Apart DEF Places, TunnelPlaces
      <4> QED
        BY <4>2, <4>3, Apart
    <3> QED
      BY <3>2, <3>3, <3>4
  <2> QED
    BY <2>1, <2>2
<1>4. ASSUME NEW a \in Actors, StartSpawns(a) PROVE Places'
  <2>1. /\ mine[a] \in Tunnels /\ mine[a] \in 1..launched /\ pc'[mine[a]] = "loop"
        /\ a # mine[a] => pc'[a] = Returned(a)
        /\ \A b \in Actors : b # a /\ b # mine[a] => pc'[b] = pc[b]
        /\ pc[a] = "spawn"
    BY <1>4, Spawns
  <2>2. launched' = launched /\ mine' = [mine EXCEPT ![a] = Nil]
    BY <1>4 DEF StartSpawns, shared
  <2>3. \A c \in Callers : pc'[c] \in CallerPlaces
    BY <1>0, <2>1, Apart DEF Places, Returned
  <2>4. \A t \in Tunnels : pc'[t] \in TunnelPlaces /\ (t > launched' => pc'[t] = "none")
    BY <1>0, <2>1, <2>2, Apart DEF Places, Returned
  <2>5. \A b \in Actors : pc'[b] \in Handing => b # a /\ b # mine[a]
    BY <2>1, Apart DEF Returned
  <2>6. \A b \in Actors : pc'[b] \in Handing => mine'[b] # Nil
    BY <1>0, <2>1, <2>2, <2>5 DEF Places, Types
  <2> QED
    BY <2>3, <2>4, <2>6 DEF Places
<1>5. ASSUME NEW t \in Tunnels, Loop(t) \/ AfterLoop(t) PROVE Places'
  <2>1. UNCHANGED <<mine, launched>>
    BY Zenon, <1>5 DEF Loop, LoopDials, LoopAuthFails, LoopConnects,
     LoopInstallsRules, LoopLosesClient, LoopReturns, LoopPanics, AfterLoop, TailDecides,
     TailStopped, TailIdle, TailUnexpected, TailRestarts, shared, locals
  <2>2. CASE LoopInstallsRules(t)
    BY <1>0, <2>1, <2>2 DEF Places, LoopInstallsRules
  <2>3. CASE ~LoopInstallsRules(t)
    <3>1. PICK from \in LoopPlaces \cup Tail, to \in LoopPlaces \cup Tail \cup {"ended", "start"} :
            Go(t, from, to)
      BY <1>5, <2>3 DEF Loop, LoopDials, LoopAuthFails, LoopConnects, LoopLosesClient, LoopReturns,
         LoopPanics, AfterLoop, TailDecides, TailStopped, TailIdle, TailUnexpected, TailRestarts
    <3> QED
      BY <1>0, <2>1, <3>1, MovePlaces, Apart
  <2> QED
    BY <2>2, <2>3
<1>6. CASE Shutdown
  BY <1>0, <1>6 DEF Places, Shutdown, locals, shared
<1> QED
  BY <1>1, <1>2, <1>3, <1>4, <1>5, <1>6, NextCases

\* A context that is done stays done; rules are forgotten only when they are removed.
LEMMA LeftKept ==
  ASSUME IInv, Next
  PROVE  Left'
<1> USE DEF Running, LoopPlaces
<1>0. Types /\ Left
  BY DEF IInv
<1>1. ASSUME NEW c \in Callers, Request(c) PROVE Left'
  <2>1. UNCHANGED <<cancelled, rootDone, rulesOf, routed>>
    BY <1>1 DEF Request, loops
  <2>2. \A t \in Tunnels : pc'[t] = pc[t]
    BY <1>0, <1>1, Moves, Apart DEF Request
  <2> QED
    BY <1>0, <2>1, <2>2 DEF Left, CtxDone
<1>2. ASSUME NEW c \in Callers, Stop(c) PROVE Left'
  <2>1. /\ cancelled \subseteq cancelled' /\ rootDone' = rootDone /\ routed' = routed
        /\ rulesOf' \in {Nil, rulesOf}
    BY <1>2 DEF Stop, StopIgnored, StopBegins, StopSetsFlag, StopCancels,
     StopDropsClient, StopReadsDone, StopJoins, StopTimesOut, StopCleans, StopIdle, loops
  <2>2. \A t \in Tunnels : pc'[t] = pc[t]
    <3>1. PICK from \in Stopping, to \in Stopping \cup {"idle", "start"} : Go(c, from, to)
      BY <1>2 DEF Stop, StopIgnored, StopBegins, StopSetsFlag, StopCancels, StopReturns,
       StopDropsClient, StopReadsDone, StopJoins, StopTimesOut, StopCleans, StopIdle, Stopping
    <3> QED
      BY <1>0, <3>1, Moves, Apart
  <2> QED
    BY <1>0, <2>1, <2>2 DEF Left, CtxDone
<1>3. ASSUME NEW a \in Actors, Start(a), ~StartSpawns(a) PROVE Left'
  <2>1. /\ UNCHANGED <<cancelled, rootDone, routed>>
        /\ rulesOf' \in {Nil, rulesOf}
    BY <1>3 DEF Start, StartCheck, StartCleans, StartNoProfile, StartClaims, StartResets,
       StartPublishesDone, StartPublishesCancel, loops
  <2>2. PICK from \in Starting \cup Launching, to \in Starting \cup Launching \cup {Returned(a)} :
          Go(a, from, to)
    BY <1>3 DEF Start, StartCheck, StartCleans, StartNoProfile, StartClaims, StartResets,
       StartPublishesDone, StartPublishesCancel, Starting, Launching
  <2>3. \A t \in Tunnels : pc'[t] \in Running \ LoopPlaces => pc'[t] = pc[t]
    BY <1>0, <2>2, Moves, Apart DEF Starting, Launching, Returned
  <2> QED
    BY <1>0, <2>1, <2>3 DEF Left, CtxDone
<1>4. ASSUME NEW a \in Actors, StartSpawns(a) PROVE Left'
  <2>1. UNCHANGED <<cancelled, rootDone, rulesOf, routed>>
    BY <1>4 DEF StartSpawns
  <2>2. \A t \in Tunnels : pc'[t] \in Running \ LoopPlaces => pc'[t] = pc[t]
    BY <1>4, Spawns, Apart DEF Returned
  <2> QED
    BY <1>0, <2>1, <2>2 DEF Left, CtxDone
<1>5. ASSUME NEW t \in Tunnels, Loop(t) \/ AfterLoop(t) PROVE Left'
  <2>1. /\ UNCHANGED <<cancelled, rootDone>>
        /\ rulesOf' # Nil => rulesOf' \in routed'
    BY <1>0, <1>5 DEF Left, Loop, LoopDials, LoopAuthFails, LoopConnects,
     LoopInstallsRules, LoopLosesClient, LoopReturns, LoopPanics, AfterLoop, TailDecides,
     TailStopped, TailIdle, TailUnexpected, TailRestarts, loops
  <2>2. CASE LoopInstallsRules(t)
    BY <1>0, <2>1, <2>2 DEF Left, CtxDone, LoopInstallsRules
  <2>3. CASE LoopReturns(t)
    <3>1. \A u \in Tunnels : u # t => pc'[u] = pc[u]
      BY <1>0, <2>3, Moves, Apart DEF LoopReturns
    <3> QED
      BY <1>0, <2>1, <2>3, <3>1 DEF Left, CtxDone, LoopReturns
  <2>4. CASE ~LoopInstallsRules(t) /\ ~LoopReturns(t)
    <3>1. PICK from \in LoopPlaces \cup Tail, to \in LoopPlaces \cup Tail \cup {"ended", "start"} :
            Go(t, from, to) /\ (to \in Running \ LoopPlaces => from \in Running \ LoopPlaces)
      BY <1>5, <2>4 DEF Loop, LoopDials, LoopAuthFails, LoopConnects, LoopLosesClient,
         LoopPanics, AfterLoop, TailDecides, TailStopped, TailIdle, TailUnexpected, TailRestarts, Tail
    <3>2. pc[t] = from /\ pc'[t] = to /\ \A u \in Tunnels : u # t => pc'[u] = pc[u]
      BY <1>0, <3>1, Moves, Apart
    <3> QED
      BY <1>0, <2>1, <3>1, <3>2 DEF Left, CtxDone
  <2> QED
    BY <2>2, <2>3, <2>4
<1>6. CASE Shutdown
  BY <1>0, <1>6 DEF Left, CtxDone, Shutdown
<1> QED
  BY <1>1, <1>2, <1>3, <1>4, <1>5, <1>6, NextCases

-----------------------------------------------------------------------------
(* Held *)

LEMMA InitHeld ==
  ASSUME Init
  PROVE  Held /\ Flagged /\ Awaited
<1> USE DEF Launching, Making, Handing, Running, LoopPlaces, Stopping
<1>1. \A a \in Actors : pc[a] \in {"idle", "none"} /\ (a \in Tunnels => pc[a] = "none")
  BY Apart DEF Init
<1>2. Held
  BY <1>1, Apart DEF Init, Held, Holds
<1>3. Flagged
  BY <1>1, Apart DEF Init, Flagged, Overlapping
<1>4. Awaited
  BY <1>1, Apart DEF Init, Awaited
<1> QED
  BY <1>2, <1>3, <1>4

\* A step that takes nobody into the places where the claim is held, and makes
\* nobody that holds it move but on within Making or Running, or out of them.
LEMMA QuietHeld ==
  ASSUME Types, Places, Held, races \subseteq races',
         UNCHANGED <<mine, tunnelRunning, tunnelDone, tunnelCancel, launched>>,
         \A a \in Actors : /\ pc'[a] \in Making => pc[a] \in Making
                           /\ pc'[a] \in Handing \/ pc[a] \in Handing => pc'[a] = pc[a]
                           /\ pc'[a] \in Running => pc[a] \in Running
                           /\ pc'[a] = "none" <=> pc[a] = "none"
  PROVE  Held'
<1> SUFFICES ASSUME "claim" \notin races'
             PROVE  Held'
  BY DEF Held
<1>0. "claim" \notin races /\ \A t \in 1..launched : t \in Tunnels /\ t \in Actors
  BY Apart DEF Types, Tunnels
<1>1. \A a \in Actors : Holds(a)' => Holds(a)
  BY DEF Holds
<1>2. \A a \in Actors : Holds(a)' => tunnelRunning'
  BY <1>0, <1>1 DEF Held
<1>3. \A a, b \in Actors : Holds(a)' /\ Holds(b)' => a = b
  BY <1>0, <1>1 DEF Held
<1>4. \A a \in Actors : pc'[a] \in Handing => mine'[a] = launched' /\ pc'[launched'] = "none"
  <2>1. \A a \in Actors : pc[a] \in Handing => mine[a] = launched /\ pc[launched] = "none"
    BY <1>0 DEF Held
  <2>2. \A a \in Actors : pc[a] \in Handing => launched \in Actors
    BY <2>1, Apart DEF Types, Places, Tunnels, Nil
  <2> QED
    BY <2>1, <2>2
<1>5. \A a \in Actors : pc'[a] = "spawn" => tunnelCancel' = launched'
  BY <1>0 DEF Held, Handing
<1>6. \A t \in Tunnels : pc'[t] \in Running => t = launched' /\ tunnelCancel' = t
  BY <1>0, Apart DEF Held
<1>7. \A t \in 1..launched' : pc'[t] = "none" => t = launched' /\ \E a \in Actors : pc'[a] \in Handing
  BY <1>0 DEF Held
<1> QED
  BY <1>2, <1>3, <1>4, <1>5, <1>6, <1>7 DEF Held

\* Who holds the claim, from the conjuncts of Held.
LEMMA Holder ==
  ASSUME IInv, "claim" \notin races
  PROVE  /\ \A a \in Actors : Holds(a) => tunnelRunning
         /\ \A a, b \in Actors : Holds(a) /\ Holds(b) => a = b
         /\ \A a \in Actors : pc[a] \in Handing =>
              mine[a] = launched /\ launched \in Tunnels /\ pc[launched] = "none"
         /\ \A a \in Actors : pc[a] = "spawn" => tunnelCancel = launched
         /\ \A t \in Tunnels : pc[t] \in Running =>
              t = launched /\ tunnelCancel = t /\ tunnelDone = t
         /\ \A t \in 1..launched : pc[t] = "none" => t = launched /\ \E a \in Actors : pc[a] \in Handing
<1>1. Held /\ Types /\ Places
  BY DEF IInv
<1>2. \A a \in Actors : pc[a] \in Handing =>
              mine[a] = launched /\ launched \in Tunnels /\ pc[launched] = "none"
  BY <1>1 DEF Held, Places, Types, Tunnels, Nil
<1>3. \A t \in Tunnels : pc[t] \in Running => t = launched /\ tunnelCancel = t /\ tunnelDone = t
  BY <1>1 DEF Held, Types
<1>4. \A t \in 1..launched : pc[t] = "none" => t = launched /\ \E a \in Actors : pc[a] \in Handing
  BY <1>1 DEF Held
<1> QED
  BY <1>1, <1>2, <1>3, <1>4 DEF Held

\* The steps of startTunnel.
LEMMA StartHeld ==
  ASSUME IInv, NEW a \in Actors, Start(a), races' = races \cup NewRaces
  PROVE  Held'
<1> USE DEF Making, Handing, Running, LoopPlaces
<1>0. Types /\ Places /\ Held /\ races \subseteq races'
  BY DEF IInv
<1>1. ASSUME NEW from \in {"start", "clean", "claim", "reset"},
             NEW to \in {"clean", "claim", "publishDone", Returned(a)}, Go(a, from, to),
             to = "publishDone" => from = "reset",
             UNCHANGED <<mine, tunnelRunning, tunnelDone, tunnelCancel, launched>>
      PROVE  Held'
  <2>1. pc[a] = from /\ pc'[a] = to /\ \A b \in Actors : b # a => pc'[b] = pc[b]
    BY <1>0, <1>1, Moves
  <2> QED
    BY <1>0, <1>1, <2>1, QuietHeld DEF Returned
<1>2. CASE StartCheck(a)
  <2>1. (Go(a, "start", Returned(a)) \/ Go(a, "start", "clean")) /\ Returned(a) # "publishDone"
    BY <1>2 DEF StartCheck, Returned
  <2>2. UNCHANGED <<mine, tunnelRunning, tunnelDone, tunnelCancel, launched>>
    BY <1>2 DEF StartCheck, locals, shared
  <2> QED
    BY <1>1, <2>1, <2>2
<1>3. CASE StartCleans(a)
  BY <1>1, <1>3 DEF StartCleans, locals, shared
<1>4. CASE StartNoProfile(a)
  <2>1. Go(a, "claim", Returned(a)) /\ Returned(a) # "publishDone"
    BY <1>4 DEF StartNoProfile, Returned
  <2>2. UNCHANGED <<mine, tunnelRunning, tunnelDone, tunnelCancel, launched>>
    BY <1>4 DEF StartNoProfile, locals, shared
  <2> QED
    BY <1>1, <2>1, <2>2
<1>5. CASE StartResets(a)
  BY <1>1, <1>5 DEF StartResets, locals
<1> SUFFICES ASSUME "claim" \notin races'
             PROVE  Held'
  BY DEF Held
<1>6. "claim" \notin races /\ "claim" \notin NewRaces
  OBVIOUS
<1>7. /\ \A b \in Actors : Holds(b) => tunnelRunning
      /\ \A b, c \in Actors : Holds(b) /\ Holds(c) => b = c
      /\ \A b \in Actors : pc[b] \in Handing =>
           mine[b] = launched /\ launched \in Tunnels /\ pc[launched] = "none"
      /\ \A b \in Actors : pc[b] = "spawn" => tunnelCancel = launched
      /\ \A t \in Tunnels : pc[t] \in Running => t = launched /\ tunnelCancel = t
      /\ \A t \in 1..launched : pc[t] = "none" => t = launched /\ \E b \in Actors : pc[b] \in Handing
  BY <1>6, Holder
<1>8. \A t \in 1..launched : t \in Tunnels
  BY <1>0, Apart DEF Types, Tunnels
<1>9. CASE StartClaims(a)
  <2>1. pc[a] = "claim" /\ pc'[a] = "reset" /\ \A b \in Actors : b # a => pc'[b] = pc[b]
    BY <1>0, <1>9, Moves DEF StartClaims
  <2>2. ~tunnelRunning
    BY <1>6, <2>1 DEF NewRaces
  <2>3. \A b \in Actors : ~Holds(b)
    BY <1>7, <2>2
  <2>4. UNCHANGED <<mine, tunnelDone, tunnelCancel, launched>> /\ tunnelRunning'
    BY <1>9 DEF StartClaims, locals
  <2>5. \A b \in Actors : Holds(b)' => b = a
    BY <2>1, <2>3 DEF Holds
  <2>6. \A b \in Actors : pc[b] \notin Handing \cup Running /\ pc'[b] \notin Handing \cup Running
    BY <2>1, <2>3 DEF Holds
  <2>7. \A t \in 1..launched : pc'[t] # "none"
    BY <1>7, <1>8, <2>1, <2>6, Apart
  <2> QED
    BY <2>4, <2>5, <2>6, <2>7, Apart DEF Held
<1>10. CASE StartPublishesDone(a)
  <2>1. pc[a] = "publishDone" /\ pc'[a] = "publishCancel" /\ \A b \in Actors : b # a => pc'[b] = pc[b]
    BY <1>0, <1>10, Moves DEF StartPublishesDone
  <2>2. launched' = launched + 1 /\ launched' \in Tunnels /\ mine'[a] = launched'
    BY <1>0, <1>10, Apart DEF StartPublishesDone, Types, Tunnels
  <2>3. UNCHANGED tunnelRunning
    BY <1>10 DEF StartPublishesDone
  <2>4. \A b \in Actors : b # a => ~Holds(b) /\ ~Holds(b)'
    BY <1>7, <2>1 DEF Holds
  <2>5. tunnelRunning'
    BY <1>7, <2>1, <2>3 DEF Holds
  <2>6. pc[launched'] = "none" /\ pc'[launched'] = "none"
    BY <1>0, <2>1, <2>2, Apart DEF Places, Types
  <2>7. \A b \in Actors : pc[b] \notin Handing \cup Running
    BY <2>1, <2>4 DEF Holds
  <2>8. \A t \in 1..launched' : pc'[t] = "none" => t = launched'
    <3>1. \A t \in 1..launched : pc'[t] # "none"
      BY <1>7, <1>8, <2>1, <2>7, Apart
    <3> QED
      BY <1>0, <2>2, <3>1, Apart DEF Types
  <2>9. \A b, c \in Actors : Holds(b)' /\ Holds(c)' => b = c
    BY <2>4
  <2>10. \A b \in Actors : pc'[b] \in Handing => b = a
    BY <2>4 DEF Holds
  <2>11. \A t \in Tunnels : pc'[t] \notin Running
    BY <2>1, <2>7, Apart
  <2> QED
    BY <2>1, <2>2, <2>5, <2>6, <2>8, <2>9, <2>10, <2>11 DEF Held
<1>11. CASE StartPublishesCancel(a)
  <2>1. pc[a] = "publishCancel" /\ pc'[a] = "spawn" /\ \A b \in Actors : b # a => pc'[b] = pc[b]
    BY <1>0, <1>11, Moves DEF StartPublishesCancel
  <2>2. UNCHANGED <<mine, tunnelRunning, tunnelDone, launched>> /\ tunnelCancel' = mine[a]
    BY <1>11 DEF StartPublishesCancel, locals
  <2>3. \A b \in Actors : b # a => ~Holds(b) /\ ~Holds(b)'
    BY <1>7, <2>1 DEF Holds
  <2>4. /\ tunnelRunning' /\ mine[a] = launched /\ launched \in Tunnels /\ launched # a
        /\ pc[launched] = "none" /\ pc'[launched] = "none"
    BY <1>7, <2>1, <2>2, Apart DEF Holds
  <2>5. \A t \in Tunnels : pc'[t] \notin Running
    BY <2>1, <2>3, Apart DEF Holds
  <2>6. \A t \in 1..launched : pc'[t] = "none" => t = launched
    BY <1>7, <1>8, <2>1, Apart
  <2>7. \A b, c \in Actors : Holds(b)' /\ Holds(c)' => b = c
    BY <2>3
  <2>8. \A b \in Actors : pc'[b] \in Handing => b = a
    BY <2>3 DEF Holds
  <2> QED
    BY <2>1, <2>2, <2>4, <2>5, <2>6, <2>7, <2>8 DEF Held
<1>12. CASE StartSpawns(a)
  <2>1. /\ pc[a] = "spawn" /\ mine[a] = launched /\ launched \in Tunnels /\ launched # a
        /\ pc'[launched] = "loop" /\ pc'[a] = Returned(a) /\ launched \in Actors
        /\ \A b \in Actors : b # a /\ b # launched => pc'[b] = pc[b]
    BY <1>7, <1>12, Spawns, Apart
  <2>2. UNCHANGED <<tunnelRunning, tunnelDone, tunnelCancel, launched>>
    BY <1>12 DEF StartSpawns, shared
  <2>3. \A b \in Actors : Holds(b)' => b = launched
    BY <1>7, <2>1 DEF Holds, Returned
  <2>4. tunnelRunning' /\ tunnelCancel' = launched
    BY <1>7, <2>1, <2>2 DEF Holds
  <2>5. \A b \in Actors : pc'[b] \notin Handing
    BY <2>1, <2>3 DEF Holds
  <2>6. \A t \in Tunnels : pc'[t] \in Running => t = launched
    BY <2>3, Apart DEF Holds
  <2>7. \A t \in 1..launched : pc'[t] # "none"
    BY <1>7, <1>8, <2>1, Apart DEF Returned
  <2> QED
    BY <2>2, <2>3, <2>4, <2>5, <2>6, <2>7 DEF Held
<1> QED
  BY <1>2, <1>3, <1>4, <1>5, <1>9, <1>10, <1>11, <1>12 DEF Start

\* The tail clears tunnelRunning; nobody else holds it.
LEMMA ClearsHeld ==
  ASSUME IInv, NEW t \in Tunnels, TailStopped(t) \/ TailUnexpected(t), races \subseteq races'
  PROVE  Held'
<1> USE DEF Making, Handing, Running, LoopPlaces
<1> SUFFICES ASSUME "claim" \notin races'
             PROVE  Held'
  BY DEF Held
<1>0. "claim" \notin races /\ Types /\ \A u \in 1..launched : u \in Tunnels /\ u \in Actors
  BY Apart DEF IInv, Types, Tunnels
<1>1. /\ pc[t] \in {"tailStopped", "tailUnexpected"} /\ pc'[t] \in {"tailIdle", "backoff"}
      /\ \A b \in Actors : b # t => pc'[b] = pc[b]
  BY <1>0, Moves, Apart DEF TailStopped, TailUnexpected
<1>2. UNCHANGED launched
  BY DEF TailStopped, TailUnexpected
<1>3. \A b \in Actors : ~Holds(b)'
  BY <1>0, <1>1, Holder, Apart DEF Holds
<1>4. \A b \in Actors : pc'[b] \notin Handing \cup Running
  BY <1>3 DEF Holds
<1>5. \A u \in 1..launched : pc'[u] # "none"
  <2>1. \A b \in Actors : pc[b] \notin Handing
    BY <1>0, <1>1, Holder, Apart DEF Holds
  <2> QED
    BY <1>0, <1>1, <2>1, Holder
<1> QED
  BY <1>2, <1>3, <1>4, <1>5, Apart DEF Held

LEMMA HeldKept ==
  ASSUME IInv, Next
  PROVE  Held'
<1> USE DEF Making, Handing, Running, LoopPlaces
<1>0. Types /\ Places /\ Held /\ races' = races \cup NewRaces /\ races \subseteq races'
  BY DEF IInv, Next
<1>1. ASSUME NEW c \in Callers, Request(c) PROVE Held'
  <2>1. UNCHANGED <<mine, tunnelRunning, tunnelDone, tunnelCancel, launched>>
    BY <1>1 DEF Request, shared
  <2>2. PICK to \in {"start", "stop"} : Go(c, "idle", to)
    BY <1>1 DEF Request
  <2>3. pc[c] = "idle" /\ pc'[c] = to /\ \A b \in Actors : b # c => pc'[b] = pc[b]
    BY <1>0, <2>2, Moves, Apart
  <2> QED
    BY <1>0, <2>1, <2>3, QuietHeld
<1>2. ASSUME NEW c \in Callers, Stop(c) PROVE Held'
  <2>1. UNCHANGED <<mine, tunnelRunning, tunnelDone, tunnelCancel, launched>>
    BY Zenon, <1>2 DEF Stop, StopIgnored, StopBegins, StopSetsFlag, StopCancels,
     StopDropsClient, StopReadsDone, StopJoins, StopTimesOut, StopCleans, StopIdle, shared, locals
  <2>2. PICK from \in Stopping, to \in Stopping \cup {"idle", "start"} : Go(c, from, to)
    BY <1>2 DEF Stop, StopIgnored, StopBegins, StopSetsFlag, StopCancels, StopReturns, Stopping,
     StopDropsClient, StopReadsDone, StopJoins, StopTimesOut, StopCleans, StopIdle
  <2>3. pc[c] = from /\ pc'[c] = to /\ \A b \in Actors : b # c => pc'[b] = pc[b]
    BY <1>0, <2>2, Moves, Apart
  <2> QED
    BY <1>0, <2>1, <2>3, QuietHeld DEF Stopping
<1>3. ASSUME NEW a \in Actors, Start(a) PROVE Held'
  BY <1>0, <1>3, StartHeld
<1>4. ASSUME NEW t \in Tunnels, Loop(t) \/ AfterLoop(t) PROVE Held'
  <2>1. CASE TailStopped(t) \/ TailUnexpected(t)
    BY <1>0, <2>1, ClearsHeld
  <2>2. CASE ~TailStopped(t) /\ ~TailUnexpected(t)
    <3>1. UNCHANGED <<mine, tunnelRunning, tunnelDone, tunnelCancel, launched>>
      BY Zenon, <1>4, <2>2 DEF Loop, LoopDials, LoopAuthFails, LoopConnects,
       LoopInstallsRules, LoopLosesClient, LoopReturns, LoopPanics, AfterLoop, TailDecides,
       TailIdle, TailRestarts, shared, locals
    <3>2. CASE LoopInstallsRules(t)
      BY <1>0, <3>1, <3>2, QuietHeld DEF LoopInstallsRules
    <3>3. CASE ~LoopInstallsRules(t)
      <4>1. PICK from \in LoopPlaces \cup Tail,
                 to \in LoopPlaces \cup {"tail", "tailStopped", "tailUnexpected", "ended", "start"} :
              Go(t, from, to) /\ (to \in Running => from \in Running)
        BY <1>4, <2>2, <3>3 DEF Loop, LoopDials, LoopAuthFails, LoopConnects, LoopLosesClient,
          LoopReturns, LoopPanics, AfterLoop, TailDecides, TailIdle, TailRestarts, Tail
      <4>2. pc[t] = from /\ pc'[t] = to /\ \A b \in Actors : b # t => pc'[b] = pc[b]
        BY <1>0, <4>1, Moves, Apart
      <4> QED
        BY <1>0, <3>1, <4>1, <4>2, QuietHeld DEF Tail
    <3> QED
      BY <3>2, <3>3
  <2> QED
    BY <2>1, <2>2
<1>5. CASE Shutdown
  BY <1>0, <1>5, QuietHeld DEF Shutdown, locals, shared
<1> QED
  BY <1>1, <1>2, <1>3, <1>4, <1>5, NextCases

-----------------------------------------------------------------------------
(* Flagged *)

\* A step that leaves the flag and the contexts alone and lets no goroutine into a
\* place that says something about them.
LEMMA QuietFlagged ==
  ASSUME Types, Flagged, races \subseteq races', "overlap" \notin races' => ~Overlapping',
         UNCHANGED <<explicitStop, cancelled>>,
         \A c \in Callers : pc'[c] = "cancel" => pc[c] = "cancel",
         \A t \in Tunnels :
           /\ pc'[t] = "none" => pc[t] = "none"
           /\ t \in cancelled /\ pc'[t] \in LoopPlaces \cup {"tail"} => pc[t] \in LoopPlaces \cup {"tail"}
           /\ pc'[t] \in {"tailUnexpected", "backoff"} => pc[t] \in {"tailUnexpected", "backoff"}
  PROVE  Flagged'
<1> SUFFICES ASSUME {"claim", "overlap"} \cap races' = {}
             PROVE  Flagged'
  BY DEF Flagged
<1>1. {"claim", "overlap"} \cap races = {} /\ "overlap" \notin races'
  OBVIOUS
<1>2. \A t \in cancelled : t \in Tunnels
  BY Apart DEF Types, Tunnels
<1>3. /\ \A c \in Callers : pc[c] = "cancel" => explicitStop
      /\ \A t \in cancelled : pc[t] # "none" /\ (pc[t] \in LoopPlaces \cup {"tail"} => explicitStop)
      /\ \A t \in Tunnels : pc[t] \notin {"tailUnexpected", "backoff"}
  BY <1>1 DEF Flagged
<1>4. \A t \in cancelled' : pc'[t] # "none" /\ (pc'[t] \in LoopPlaces \cup {"tail"} => explicitStop')
  BY <1>2, <1>3
<1> QED
  BY <1>1, <1>3, <1>4 DEF Flagged

LEMMA FlaggedKept ==
  ASSUME IInv, Next
  PROVE  Flagged'
<1>0. /\ Types /\ Places /\ Flagged /\ races' = races \cup NewRaces /\ races \subseteq races'
      /\ "overlap" \notin races' => ~Overlapping'
  BY DEF IInv, Next, NewRaces
<1>1. ASSUME NEW c \in Callers, Request(c) PROVE Flagged'
  <2>1. UNCHANGED <<explicitStop, cancelled>>
    BY <1>1 DEF Request, shared, loops
  <2>2. PICK to \in {"start", "stop"} : Go(c, "idle", to)
    BY <1>1 DEF Request
  <2>3. pc[c] = "idle" /\ pc'[c] = to /\ \A b \in Actors : b # c => pc'[b] = pc[b]
    BY <1>0, <2>2, Moves, Apart
  <2> QED
    BY <1>0, <2>1, <2>3, QuietFlagged, Apart
<1> SUFFICES ASSUME {"claim", "overlap"} \cap races' = {}
             PROVE  Flagged'
  BY DEF Flagged
<1>2. /\ "claim" \notin races /\ ~Overlapping /\ ~Overlapping'
      /\ \A c \in Callers : pc[c] = "cancel" => explicitStop
      /\ \A t \in cancelled : pc[t] # "none" /\ (pc[t] \in LoopPlaces \cup {"tail"} => explicitStop)
      /\ \A t \in Tunnels : pc[t] \notin {"tailUnexpected", "backoff"}
      /\ cancelled \subseteq Tunnels
  BY <1>0, Apart DEF Flagged, Types, Tunnels
<1>3. ASSUME NEW c \in Callers, Stop(c) PROVE Flagged'
  <2>1. PICK from \in Stopping, to \in Stopping \cup {"idle", "start"} : Go(c, from, to)
    BY <1>3 DEF Stop, StopIgnored, StopBegins, StopSetsFlag, StopCancels, StopReturns, Stopping,
     StopDropsClient, StopReadsDone, StopJoins, StopTimesOut, StopCleans, StopIdle
  <2>2. \A b \in Actors : b # c => pc'[b] = pc[b]
    BY <1>0, <2>1, Moves, Apart
  <2>3. CASE StopSetsFlag(c)
    <3>1. explicitStop' /\ cancelled' = cancelled
      BY Zenon, <2>3 DEF StopSetsFlag, loops
    <3> QED
      BY <1>2, <2>2, <3>1, Apart DEF Flagged
  <2>4. CASE StopCancels(c)
    <3>1. pc[c] = "cancel" /\ cancelled' = cancelled \cup ({tunnelCancel} \ {Nil})
      BY <2>4 DEF StopCancels, Go
    <3>2. explicitStop' = explicitStop /\ explicitStop
      BY <1>2, <2>4, <3>1 DEF StopCancels, shared
    <3>3. \A b \in Actors : pc[b] \notin Handing
      BY <1>2, <3>1 DEF Overlapping, Stopping, Launching, Handing
    <3>4. tunnelCancel # Nil => tunnelCancel \in Tunnels /\ pc[tunnelCancel] # "none"
      BY <1>0, <1>2, <3>3, Holder, Apart DEF Types, Tunnels, Nil
    <3>5. \A t \in cancelled' : t \in Tunnels /\ pc'[t] # "none"
      BY <1>2, <2>2, <3>1, <3>4, Apart
    <3> QED
      BY <1>2, <2>2, <3>2, <3>5, Apart DEF Flagged
  <2>5. CASE ~StopSetsFlag(c) /\ ~StopCancels(c)
    <3>1. UNCHANGED <<explicitStop, cancelled>>
      BY Zenon, <1>3, <2>5 DEF Stop, StopIgnored, StopBegins, StopDropsClient, StopReadsDone,
         StopJoins, StopTimesOut, StopCleans, StopIdle, shared, loops
    <3>2. pc'[c] # "cancel"
      <4>1. \E f \in Stopping, g \in (Stopping \ {"cancel"}) \cup {"idle", "start"} : Go(c, f, g)
        BY <1>3, <2>5 DEF Stop, StopIgnored, StopBegins, StopReturns, Stopping,
           StopDropsClient, StopReadsDone, StopJoins, StopTimesOut, StopCleans, StopIdle
      <4> QED
        BY <1>0, <4>1, Moves, Apart
    <3> QED
      BY <1>0, <2>2, <3>1, <3>2, QuietFlagged, Apart
  <2> QED
    BY <2>3, <2>4, <2>5
<1>4. ASSUME NEW a \in Actors, Start(a), ~StartSpawns(a) PROVE Flagged'
  <2>1. PICK from \in Starting \cup Launching, to \in Starting \cup Launching \cup {Returned(a)} :
          Go(a, from, to)
    BY <1>4 DEF Start, StartCheck, StartCleans, StartNoProfile, StartClaims, StartResets,
       StartPublishesDone, StartPublishesCancel, Starting, Launching
  <2>2. pc[a] = from /\ pc'[a] = to /\ \A b \in Actors : b # a => pc'[b] = pc[b]
    BY <1>0, <2>1, Moves
  <2>3. /\ to \notin {"none", "cancel", "tail", "tailUnexpected", "backoff"}
        /\ to \notin LoopPlaces
    BY <2>1 DEF Starting, Launching, Returned, LoopPlaces
  <2>4. CASE StartResets(a)
    <3>1. pc[a] = "reset" /\ cancelled' = cancelled
      BY <2>4 DEF StartResets, Go, loops
    <3>2. \A c \in Callers : pc[c] # "cancel"
      BY <1>2, <3>1 DEF Overlapping, Stopping, Launching
    <3>3. \A t \in Tunnels : pc[t] \notin LoopPlaces \cup {"tail"}
      BY <1>2, <3>1, Holder, Apart DEF Holds, Making, Running, LoopPlaces
    <3> QED
      BY <1>2, <2>2, <2>3, <3>1, <3>2, <3>3, Apart DEF Flagged
  <2>5. CASE ~StartResets(a)
    <3>1. UNCHANGED <<explicitStop, cancelled>>
      BY Zenon, <1>4, <2>5 DEF Start, StartCheck, StartCleans, StartNoProfile, StartClaims,
         StartPublishesDone, StartPublishesCancel, shared, loops
    <3> QED
      BY <1>0, <2>2, <2>3, <3>1, QuietFlagged, Apart
  <2> QED
    BY <2>4, <2>5
<1>5. ASSUME NEW a \in Actors, StartSpawns(a) PROVE Flagged'
  <2>1. /\ pc[a] = "spawn" /\ mine[a] = launched /\ launched \in Tunnels /\ launched # a
        /\ pc[launched] = "none" /\ pc'[launched] = "loop" /\ pc'[a] = Returned(a)
        /\ \A b \in Actors : b # a /\ b # launched => pc'[b] = pc[b]
    <3>1. pc[a] = "spawn"
      BY <1>5 DEF StartSpawns
    <3> QED
      BY <1>2, <1>5, <3>1, Spawns, Holder, Apart DEF Handing
  <2>2. UNCHANGED <<explicitStop, cancelled>>
    BY <1>5 DEF StartSpawns, shared
  <2>3. launched \notin cancelled
    BY <1>2, <2>1
  <2> QED
    BY <1>0, <2>1, <2>2, <2>3, QuietFlagged, Apart DEF Returned, LoopPlaces
<1>6. ASSUME NEW t \in Tunnels, Loop(t) \/ AfterLoop(t) PROVE Flagged'
  <2>1. UNCHANGED <<explicitStop, cancelled>>
    BY Zenon, <1>6 DEF Loop, LoopDials, LoopAuthFails, LoopConnects,
     LoopInstallsRules, LoopLosesClient, LoopReturns, LoopPanics, AfterLoop, TailDecides,
     TailStopped, TailIdle, TailUnexpected, TailRestarts, shared, loops
  <2>2. CASE LoopInstallsRules(t)
    BY <1>0, <2>1, <2>2, QuietFlagged DEF LoopInstallsRules
  <2>3. CASE TailDecides(t)
    <3>1. pc[t] = "tail" /\ t \in Tunnels
      BY <2>3 DEF TailDecides, Go
    <3>2. CtxDone(t)
      BY <3>1 DEF IInv, Left, Running, LoopPlaces
    <3>3. explicitStop \/ rootDone
      BY <1>2, <3>1, <3>2 DEF CtxDone
    <3>4. Go(t, "tail", "tailStopped")
      BY <2>3, <3>3 DEF TailDecides
    <3>5. pc[t] = "tail" /\ pc'[t] = "tailStopped" /\ \A b \in Actors : b # t => pc'[b] = pc[b]
      BY <1>0, <3>4, Moves, Apart
    <3> QED
      BY <1>0, <2>1, <3>5, QuietFlagged, Apart DEF LoopPlaces
  <2>4. CASE ~LoopInstallsRules(t) /\ ~TailDecides(t)
    <3>1. ~TailUnexpected(t) /\ ~TailRestarts(t)
      BY <1>2 DEF TailUnexpected, TailRestarts, Go
    <3>2. PICK from \in LoopPlaces \cup Tail, to \in LoopPlaces \cup {"tail", "tailIdle", "ended"} :
            Go(t, from, to) /\ (to \in LoopPlaces \cup {"tail"} => from \in LoopPlaces \cup {"tail"})
      BY <1>6, <2>4, <3>1 DEF Loop, LoopDials, LoopAuthFails, LoopConnects, LoopLosesClient,
         LoopReturns, LoopPanics, AfterLoop, TailStopped, TailIdle, LoopPlaces, Tail
    <3>3. pc[t] = from /\ pc'[t] = to /\ \A b \in Actors : b # t => pc'[b] = pc[b]
      BY <1>0, <3>2, Moves, Apart
    <3> QED
      BY <1>0, <2>1, <3>2, <3>3, QuietFlagged, Apart DEF LoopPlaces
  <2> QED
    BY <2>2, <2>3, <2>4
<1>7. CASE Shutdown
  BY <1>0, <1>7, QuietFlagged DEF Shutdown, shared
<1> QED
  BY <1>1, <1>3, <1>4, <1>5, <1>6, <1>7, NextCases

-----------------------------------------------------------------------------
(* Awaited *)

\* A step that cancels nothing, moves no stop that waits, and lets a tunnel out of
\* Running with its rules left behind only when it was cancelled.
LEMMA QuietAwaited ==
  ASSUME Types, Awaited, races \subseteq races', UNCHANGED <<rootDone, cancelled, waitsFor>>,
         \A c \in Callers : pc[c] \in {"drop", "join", "joining", "stopClean"} => pc'[c] = pc[c],
         \A t \in Tunnels : pc'[t] \in {"none"} \cup Running => pc[t] \in {"none"} \cup Running,
         rulesOf' \in {Nil, rulesOf} \/ pc'[rulesOf'] \in Running,
         rulesOf' # Nil /\ rulesOf' = rulesOf /\ pc[rulesOf] \in Running
           => pc'[rulesOf] \in Running \/ CtxDone(rulesOf)
  PROVE  Awaited'
<1> SUFFICES ASSUME ~rootDone', {"claim", "late"} \cap races' = {}
             PROVE  Awaited'
  BY DEF Awaited
<1>1. /\ \A t \in cancelled : pc[t] \in {"none"} \cup Running => \E c \in Callers : Waits(c, t)
      /\ rulesOf # Nil =>
           \/ pc[rulesOf] \in Running
           \/ \E c \in Callers : pc[c] \in {"drop", "join", "joining", "stopClean"}
  BY DEF Awaited
<1>2. \A t \in cancelled : t \in Tunnels
  BY Apart DEF Types, Tunnels
<1>3. \A c \in Callers, t \in Tunnels : Waits(c, t) => Waits(c, t)'
  BY DEF Waits
<1>4. \A t \in cancelled' : pc'[t] \in {"none"} \cup Running => \E c \in Callers : Waits(c, t)'
  BY <1>1, <1>2, <1>3
<1>5. ASSUME rulesOf' # Nil, pc'[rulesOf'] \notin Running
      PROVE  \E c \in Callers : pc'[c] \in {"drop", "join", "joining", "stopClean"}
  <2>1. rulesOf' = rulesOf /\ rulesOf # Nil
    BY <1>5
  <2>2. CASE pc[rulesOf] \in Running
    <3>1. rulesOf \in cancelled
      BY <1>5, <2>1, <2>2 DEF CtxDone
    <3>2. PICK c \in Callers : Waits(c, rulesOf)
      BY <1>1, <2>2, <3>1
    <3> QED
      BY <3>2 DEF Waits
  <2>3. CASE pc[rulesOf] \notin Running
    BY <1>1, <2>1, <2>3
  <2> QED
    BY <2>2, <2>3
<1> QED
  BY <1>4, <1>5 DEF Awaited

\* The steps of stopTunnel that begin and end the wait.
LEMMA StopAwaited ==
  ASSUME IInv, NEW c \in Callers, Stop(c), races' = races \cup NewRaces
  PROVE  Awaited'
<1>0. Types /\ Awaited /\ races \subseteq races'
  BY DEF IInv
<1>1. PICK from \in Stopping, to \in Stopping \cup {"idle", "start"} : Go(c, from, to)
  BY DEF Stop, StopIgnored, StopBegins, StopSetsFlag, StopCancels, StopReturns, Stopping,
     StopDropsClient, StopReadsDone, StopJoins, StopTimesOut, StopCleans, StopIdle
<1>2. c \in Actors /\ \A b \in Actors : b # c => pc'[b] = pc[b]
  BY <1>0, <1>1, Moves, Apart
<1>3. rootDone' = rootDone
  BY Zenon DEF Stop, StopIgnored, StopBegins, StopSetsFlag, StopCancels,
     StopDropsClient, StopReadsDone, StopJoins, StopTimesOut, StopCleans, StopIdle, loops
<1>4. ASSUME pc[c] \notin {"drop", "join", "joining", "stopClean"},
             UNCHANGED <<cancelled, waitsFor, rulesOf>>
      PROVE  Awaited'
  <2>1. \A d \in Callers : pc[d] \in {"drop", "join", "joining", "stopClean"} => pc'[d] = pc[d]
    BY <1>2, <1>4, Apart
  <2>2. \A t \in Tunnels : pc'[t] = pc[t]
    BY <1>2, Apart
  <2>3. rulesOf # Nil => rulesOf \in Tunnels
    BY <1>0, Apart DEF Types, Tunnels, Nil
  <2> QED
    BY <1>0, <1>3, <1>4, <2>1, <2>2, <2>3, QuietAwaited
<1>5. CASE StopIgnored(c) \/ StopBegins(c) \/ StopSetsFlag(c) \/ StopIdle(c)
  <2>1. UNCHANGED <<cancelled, waitsFor, rulesOf>>
    BY Zenon, <1>5 DEF StopIgnored, StopBegins, StopSetsFlag, StopIdle, locals, loops
  <2>2. pc[c] \notin {"drop", "join", "joining", "stopClean"}
    BY <1>5 DEF StopIgnored, StopBegins, StopSetsFlag, StopIdle, StopReturns, Go
  <2> QED
    BY <1>4, <2>1, <2>2
<1> SUFFICES ASSUME ~rootDone', {"claim", "late"} \cap races' = {}
             PROVE  Awaited'
  BY DEF Awaited
<1>6. /\ "claim" \notin races /\ {"claim", "late"} \cap races = {} /\ "late" \notin NewRaces
      /\ \A t \in cancelled : pc[t] \in {"none"} \cup Running => \E d \in Callers : Waits(d, t)
      /\ rulesOf # Nil =>
           \/ pc[rulesOf] \in Running
           \/ \E d \in Callers : pc[d] \in {"drop", "join", "joining", "stopClean"}
  BY <1>0, <1>3 DEF Awaited
<1>7. /\ \A t \in cancelled : t \in 1..launched /\ t \in Tunnels
      /\ \A t \in Tunnels : pc'[t] = pc[t]
      /\ rulesOf # Nil => pc'[rulesOf] = pc[rulesOf]
  BY <1>0, <1>2, Apart DEF Types, Tunnels, Nil
<1>8. CASE StopCancels(c)
  <2>1. pc'[c] = "drop" /\ rulesOf' = rulesOf
    BY <1>0, <1>2, <1>8, Moves DEF StopCancels
  <2>4. cancelled' \subseteq Tunnels
    BY <1>0, <1>7, <1>8, Apart DEF StopCancels, Types, Tunnels, Nil
  <2>2. \A t \in Tunnels : Waits(c, t)'
    BY <2>1 DEF Waits
  <2>3. \A t \in cancelled' : Waits(c, t)'
    BY <2>2, <2>4
  <2> QED
    BY <2>1, <2>3 DEF Awaited
<1>9. CASE StopDropsClient(c)
  <2>1. pc'[c] = "join"
    BY <1>0, <1>2, <1>9, Moves DEF StopDropsClient
  <2>4. cancelled' \subseteq Tunnels
    BY <1>7, <1>9 DEF StopDropsClient
  <2>2. \A t \in Tunnels : Waits(c, t)'
    BY <2>1 DEF Waits
  <2>3. \A t \in cancelled' : Waits(c, t)'
    BY <2>2, <2>4
  <2> QED
    BY <2>1, <2>3 DEF Awaited
<1>10. CASE StopReadsDone(c)
  <2>1. pc'[c] = "joining" /\ waitsFor'[c] = launched /\ UNCHANGED <<cancelled, rulesOf>>
    BY <1>0, <1>2, <1>10, Moves DEF StopReadsDone, Types, loops
  <2>2. \A t \in cancelled : pc[t] \in {"none"} \cup Running => t = launched
    BY <1>6, <1>7, Holder
  <2>3. \A t \in cancelled' : pc'[t] \in {"none"} \cup Running => Waits(c, t)'
    BY <1>7, <2>1, <2>2 DEF Waits
  <2> QED
    BY <2>1, <2>3 DEF Awaited
<1>11. CASE StopJoins(c) \/ StopTimesOut(c)
  <2>1. /\ pc[c] = "joining" /\ pc'[c] = "stopClean" /\ UNCHANGED <<cancelled, rulesOf>>
        /\ \A d \in Callers : d # c => waitsFor'[d] = waitsFor[d] /\ pc'[d] = pc[d]
    BY <1>0, <1>2, <1>11, Moves, Apart DEF StopJoins, StopTimesOut, Types, loops
  <2>2. \A t \in cancelled : pc[t] \in {"none"} \cup Running => waitsFor[c] # t
    <3>1. SUFFICES ASSUME NEW t \in cancelled, pc[t] \in {"none"} \cup Running, waitsFor[c] = t
                   PROVE  FALSE
      OBVIOUS
    <3>2. t # Nil /\ pc[t] # "ended" /\ CtxDone(t)
      BY <1>7, <3>1, Apart DEF Running, LoopPlaces, CtxDone
    <3>3. "late" \in NewRaces
      BY <2>1, <3>1, <3>2 DEF NewRaces
    <3> QED
      BY <1>6, <3>3
  <2>3. \A t \in cancelled' : pc'[t] \in {"none"} \cup Running => \E d \in Callers : Waits(d, t)'
    <3>1. \A d \in Callers, t \in cancelled :
            pc[t] \in {"none"} \cup Running /\ Waits(d, t) => d # c /\ Waits(d, t)'
      BY <2>1, <2>2 DEF Waits
    <3> QED
      BY <1>6, <1>7, <2>1, <3>1
  <2> QED
    BY <2>1, <2>3 DEF Awaited
<1>12. CASE StopCleans(c)
  <2>1. /\ rulesOf' = Nil /\ UNCHANGED <<cancelled, waitsFor>> /\ pc[c] = "stopClean"
        /\ \A d \in Callers : d # c => pc'[d] = pc[d]
    BY <1>0, <1>2, <1>12, Moves, Apart DEF StopCleans, locals
  <2>2. \A d \in Callers, t \in cancelled : Waits(d, t) => Waits(d, t)'
    BY <2>1 DEF Waits
  <2>3. \A t \in cancelled' : pc'[t] \in {"none"} \cup Running => \E d \in Callers : Waits(d, t)'
    BY <1>6, <1>7, <2>1, <2>2
  <2> QED
    BY <2>1, <2>3 DEF Awaited
<1> QED
  BY <1>5, <1>8, <1>9, <1>10, <1>11, <1>12 DEF Stop

LEMMA AwaitedKept ==
  ASSUME IInv, Next
  PROVE  Awaited'
<1>0. /\ Types /\ Places /\ Left /\ Awaited /\ races' = races \cup NewRaces /\ races \subseteq races'
      /\ rulesOf # Nil => rulesOf \in Tunnels
  BY Apart DEF IInv, Next, Types, Tunnels, Nil
<1>1. ASSUME NEW c \in Callers, Request(c) PROVE Awaited'
  <2>1. UNCHANGED <<rootDone, cancelled, waitsFor, rulesOf>>
    BY <1>1 DEF Request, loops
  <2>2. PICK to \in {"start", "stop"} : Go(c, "idle", to)
    BY <1>1 DEF Request
  <2>3. pc[c] = "idle" /\ pc'[c] = to /\ \A b \in Actors : b # c => pc'[b] = pc[b]
    BY <1>0, <2>2, Moves, Apart
  <2> QED
    BY <1>0, <2>1, <2>3, QuietAwaited, Apart
<1>2. ASSUME NEW c \in Callers, Stop(c) PROVE Awaited'
  BY <1>0, <1>2, StopAwaited
<1>3. ASSUME NEW a \in Actors, Start(a), ~StartSpawns(a) PROVE Awaited'
  <2>1. /\ UNCHANGED <<rootDone, cancelled, waitsFor>>
        /\ rulesOf' \in {Nil, rulesOf}
    BY <1>3 DEF Start, StartCheck, StartCleans, StartNoProfile, StartClaims, StartResets,
       StartPublishesDone, StartPublishesCancel, loops, locals
  <2>2. PICK from \in Starting \cup Launching, to \in Starting \cup Launching \cup {Returned(a)} :
          Go(a, from, to)
    BY <1>3 DEF Start, StartCheck, StartCleans, StartNoProfile, StartClaims, StartResets,
       StartPublishesDone, StartPublishesCancel, Starting, Launching
  <2>3. pc[a] = from /\ pc'[a] = to /\ \A b \in Actors : b # a => pc'[b] = pc[b]
    BY <1>0, <2>2, Moves
  <2>4. /\ from \notin {"none", "drop", "join", "joining", "stopClean"} \cup Running
        /\ to \notin {"none"} \cup Running
    BY <2>2 DEF Starting, Launching, Returned, Running, LoopPlaces
  <2> QED
    BY <1>0, <2>1, <2>3, <2>4, QuietAwaited, Apart
<1>4. ASSUME NEW a \in Actors, StartSpawns(a) PROVE Awaited'
  <2>0. SUFFICES ASSUME {"claim", "late"} \cap races' = {}
                 PROVE  Awaited'
    BY DEF Awaited
  <2>1. /\ pc[a] = "spawn" /\ mine[a] = launched /\ launched \in Tunnels /\ launched # a
        /\ pc[launched] = "none" /\ pc'[launched] = "loop" /\ pc'[a] = Returned(a)
        /\ \A b \in Actors : b # a /\ b # launched => pc'[b] = pc[b]
    <3>1. pc[a] = "spawn" /\ "claim" \notin races
      BY <1>0, <1>4, <2>0 DEF StartSpawns
    <3> QED
      BY <1>4, <3>1, Spawns, Holder, Apart DEF Handing
  <2>2. UNCHANGED <<rootDone, cancelled, waitsFor, rulesOf>>
    BY <1>4 DEF StartSpawns
  <2> QED
    BY <1>0, <2>1, <2>2, QuietAwaited, Apart DEF Returned, Running, LoopPlaces
<1>5. ASSUME NEW t \in Tunnels, Loop(t) \/ AfterLoop(t) PROVE Awaited'
  <2>1. UNCHANGED <<rootDone, cancelled, waitsFor>>
    BY Zenon, <1>5 DEF Loop, LoopDials, LoopAuthFails, LoopConnects,
     LoopInstallsRules, LoopLosesClient, LoopReturns, LoopPanics, AfterLoop, TailDecides,
     TailStopped, TailIdle, TailUnexpected, TailRestarts, locals, loops
  <2>2. CASE LoopInstallsRules(t)
    BY <1>0, <2>1, <2>2, QuietAwaited DEF LoopInstallsRules, Running, LoopPlaces
  <2>3. CASE ~LoopInstallsRules(t)
    <3>1. PICK from \in LoopPlaces \cup Tail, to \in LoopPlaces \cup Tail \cup {"ended", "start"} :
            /\ Go(t, from, to)
            /\ to \in Running => from \in Running
            /\ from \in LoopPlaces => to \in Running \/ LoopPanics(t)
      BY <1>5, <2>3 DEF Loop, LoopDials, LoopAuthFails, LoopConnects, LoopLosesClient, LoopReturns,
         LoopPanics, AfterLoop, TailDecides, TailStopped, TailIdle, TailUnexpected, TailRestarts,
         LoopPlaces, Tail, Running
    <3>2. pc[t] = from /\ pc'[t] = to /\ \A b \in Actors : b # t => pc'[b] = pc[b]
      BY <1>0, <3>1, Moves, Apart
    <3>3. rulesOf' \in {Nil, rulesOf}
      BY <1>5, <2>3 DEF Loop, LoopDials, LoopAuthFails, LoopConnects, LoopLosesClient,
         LoopReturns, LoopPanics, AfterLoop, TailDecides, TailStopped, TailIdle, TailUnexpected,
         TailRestarts, loops
    <3>4. rulesOf' # Nil /\ rulesOf' = rulesOf /\ pc[rulesOf] \in Running
            => pc'[rulesOf] \in Running \/ CtxDone(rulesOf)
      <4>1. CASE rulesOf # t
        BY <1>0, <3>2, <4>1, Apart
      <4>2. CASE rulesOf = t /\ from \in LoopPlaces /\ LoopPanics(t)
        BY <1>0, <3>2, <4>2, Apart DEF LoopPanics, Left
      <4>3. CASE rulesOf = t /\ from \in LoopPlaces /\ ~LoopPanics(t)
        BY <3>1, <3>2, <4>3
      <4>4. CASE rulesOf = t /\ from \notin LoopPlaces
        BY <1>0, <3>2, <4>4 DEF Left
      <4> QED
        BY <4>1, <4>2, <4>3, <4>4
    <3>5. /\ \A c \in Callers : pc'[c] = pc[c]
          /\ \A u \in Tunnels : pc'[u] \in {"none"} \cup Running => pc[u] \in {"none"} \cup Running
      BY <3>1, <3>2, Apart DEF LoopPlaces, Tail
    <3> QED
      BY <1>0, <2>1, <3>3, <3>4, <3>5, QuietAwaited
  <2> QED
    BY <2>2, <2>3
<1>6. CASE Shutdown
  BY <1>6 DEF Awaited, Shutdown
<1> QED
  BY <1>1, <1>2, <1>3, <1>4, <1>5, <1>6, NextCases

-----------------------------------------------------------------------------
(* Theorems *)

LEMMA Invariance == Spec => []IInv
<1>1. Init => IInv
  BY InitTypes, InitPlaces, InitHeld DEF IInv
<1>2. IInv /\ [Next]_vars => IInv'
  <2>1. IInv /\ Next => IInv'
    BY TypesKept, FlagsKept, PlacesKept, LeftKept, HeldKept, FlaggedKept, AwaitedKept DEF IInv
  <2>2. IInv /\ UNCHANGED vars => IInv'
    <3>1. SUFFICES ASSUME IInv, UNCHANGED vars PROVE IInv'
      OBVIOUS
    <3>2. /\ UNCHANGED <<pc, restarting, mine, asked, waitsFor, tunnelRunning, explicitStop,
                        restartBackoff, tunnelDone, tunnelCancel, launched, cancelled, routed>>
          /\ UNCHANGED <<rootDone, sshClient, rulesOf, idle, faults, races>>
      BY <3>1 DEF vars, steps, locals, shared, loops
    <3>3. Types' /\ Places' /\ Left'
      BY <3>1, <3>2 DEF IInv, Types, Places, Left, CtxDone
    <3>4. Flags'
      BY Zenon, <3>1, <3>2 DEF IInv, Flags
    <3>5. Held'
      BY <3>1, <3>2 DEF IInv, Held, Holds
    <3>6. Flagged'
      BY <3>1, <3>2 DEF IInv, Flagged, Overlapping
    <3>7. Awaited'
      BY <3>1, <3>2 DEF IInv, Awaited, Waits
    <3> QED
      BY <3>3, <3>4, <3>5, <3>6, <3>7 DEF IInv
  <2> QED
    BY <2>1, <2>2
<1> QED
  BY <1>1, <1>2, PTL DEF Spec

\* Whatever is requested and however stops and restarts overlap: until two starts
\* overlap (the check and the set of tunnelRunning, main.go:1239-1261, are apart),
\* only one tunnelLoop runs.
THEOREM SingleTunnel == Spec => []("claim" \notin races => OneTunnel)
<1>1. IInv => ("claim" \notin races => OneTunnel)
  BY Holder DEF OneTunnel, Alive, Running
<1> QED
  BY <1>1, Invariance, PTL

\* Until two starts overlap, what stopTunnel reads is what the running tunnel has
\* published: it is let through, cancels that tunnel and waits for that one.
THEOREM StopReachesTunnel == Spec => []CanBeStopped
<1>1. IInv => CanBeStopped
  BY Holder, Apart DEF CanBeStopped, Alive, Running, Holds
<1> QED
  BY <1>1, Invariance, PTL

\* A stopped tunnel does not start itself again unless a start overlapped the stop
\* or another start: its goroutine finds explicitStop set.
THEOREM StopStays == Spec => StopIsFinal
<1>1. IInv => [\A t \in Tunnels :
                 pc[t] = "backoff" /\ pc'[t] = "start" => races \cap {"claim", "overlap"} # {}]_vars
  BY DEF IInv, Flagged
<1> QED
  BY <1>1, Invariance, PTL DEF StopIsFinal

\* Outside a shutdown, and unless two starts overlap or a stop gives up after 5 s,
\* rules in the kernel belong to a running tunnel or a stop is on its way to remove them.
THEOREM RulesHaveTunnel == Spec => []NoOrphanRules
<1>1. IInv => NoOrphanRules
  <2>1. SUFFICES ASSUME IInv PROVE NoOrphanRules
    OBVIOUS
  <2>2. TypeOK
    <3>1. Types
      BY <2>1 DEF IInv
    <3>2. /\ pc \in [Actors -> {"idle", "none", "ended"} \cup Starting \cup Launching \cup Stopping
                        \cup LoopPlaces \cup Tail]
          /\ mine \in [Actors -> 0..MaxTunnels]
          /\ {tunnelDone, tunnelCancel, sshClient, rulesOf} \subseteq 0..launched
          /\ cancelled \in SUBSET Tunnels /\ routed \in SUBSET Tunnels
      BY <3>1, Apart DEF Types, CallerPlaces, TunnelPlaces, Tunnels
    <3>3. /\ restarting \in SUBSET Callers
          /\ waitsFor \in [Callers -> 0..MaxTunnels] /\ asked \in 0..MaxRequests
          /\ restartBackoff \in 0..60 /\ launched \in 0..MaxTunnels
          /\ faults \in FaultSets /\ races \in SUBSET {"claim", "overlap", "late"}
      BY <3>1 DEF Types
    <3>4. Flags
      BY <2>1 DEF IInv
    <3> QED
      BY Zenon, <3>2, <3>3, <3>4 DEF TypeOK, Flags
  <2>3. rulesOf # Nil /\ ~rootDone /\ races \cap {"claim", "late"} = {} =>
       \/ Alive(rulesOf) \/ pc[rulesOf] \in {"tail", "tailStopped", "tailUnexpected"}
       \/ \E c \in Callers : pc[c] \in {"drop", "join", "joining", "stopClean"}
    BY <2>1 DEF IInv, Awaited, Alive, Running
  <2> QED
    BY <2>2, <2>3 DEF NoOrphanRules
<1> QED
  BY <1>1, Invariance, PTL
=============================================================================
