--------------------------- MODULE StateBroadcast ---------------------------
(***************************************************************************)
(* State.set and its subscribers (cmd/sshcustomd/main.go): writers change  *)
(* the state under one lock and notify under another; the event stream     *)
(* sends a snapshot per notification to each dashboard; one goroutine      *)
(* keeps module.prop in step, at most one write in 3 s; the metrics        *)
(* sampler calls set every 20 s. A state is reduced to the status that     *)
(* module.prop shows.                                                      *)
(***************************************************************************)
EXTENDS FiniteSets

CONSTANTS
  Writers,      \* goroutines that call State.set
  Dashboards,   \* clients of /api/v1/events
  Statuses,     \* "running", "standby", "disconnected", as derived from State
  MayFail       \* may updateModuleProp fail to write?

ASSUME BroadcastAssumption ==
  MayFail \in BOOLEAN /\ Dashboards \cap {"monitor"} = {} /\ "sampler" \notin Writers

VARIABLES
  state,        \* the State's status
  owes,         \* writers between the change and the broadcast
  subs,         \* State.subs: whose channels are on the slice
  pending,      \* channels that hold a notification
  at,           \* where each events handler is
  stalled,      \* dashboards that do not read: a send to them blocks
  snap, shown,  \* the snapshot each handler is writing; what its dashboard was last sent
  monitor,      \* where the module.prop goroutine is
  lastStatus, prop,   \* its local, and what module.prop says
  recent,       \* less than 3 s since lastWrite
  ticked        \* less than 20 s since the sampler's last sample

handlers == <<at, stalled, snap, shown>>
propVars == <<monitor, lastStatus, prop, recent>>
vars == <<state, owes, subs, pending, handlers, propVars, ticked>>

NoStatus == "none"    \* nothing written or shown yet
Subscribers == Dashboards \cup {"monitor"}

HandlerPlaces == {"gone", "first", "initial", "subscribe", "wait", "send", "write", "leave"}

DataTypeOK ==
  /\ state \in Statuses
  /\ owes \in SUBSET (Writers \cup {"sampler"})
  /\ subs \in SUBSET Subscribers /\ pending \in SUBSET Subscribers
  /\ at \in [Dashboards -> HandlerPlaces]
  /\ stalled \in SUBSET Dashboards
  /\ snap \in [Dashboards -> Statuses \cup {NoStatus}]
  /\ shown \in [Dashboards -> Statuses \cup {NoStatus}]
  /\ monitor \in {"start", "wait", "check"}
  /\ lastStatus \in Statuses \cup {NoStatus} /\ prop \in Statuses \cup {NoStatus}

FlagTypeOK == recent \in BOOLEAN /\ ticked \in BOOLEAN

\* The type invariant, a part of NoDeadSubscriber.
TypeOK == DataTypeOK /\ FlagTypeOK

Init ==
  /\ state \in Statuses /\ owes = {} /\ subs = {} /\ pending = {}
  /\ at = [d \in Dashboards |-> "gone"] /\ stalled = {}
  /\ snap = [d \in Dashboards |-> NoStatus] /\ shown = [d \in Dashboards |-> NoStatus]
  /\ monitor = "start" /\ lastStatus = NoStatus /\ prop \in Statuses /\ recent = FALSE
  /\ ticked = FALSE

(* ------------------------------ State.set ------------------------------ *)

Set(w) ==
  /\ w \notin owes /\ owes' = owes \cup {w}
  /\ \E s \in Statuses : state' = s
  /\ UNCHANGED <<subs, pending, handlers, propVars, ticked>>

broadcast_Blocking(w) ==   \* mutant: a send that waits for room
  /\ w \in owes /\ subs \cap pending = {} /\ owes' = owes \ {w}
  /\ pending' = pending \cup subs
  /\ UNCHANGED <<state, subs, handlers, propVars, ticked>>

\* A full channel keeps the notification it holds.
broadcast(w) ==
  /\ w \in owes /\ owes' = owes \ {w}
  /\ pending' = pending \cup subs
  /\ UNCHANGED <<state, subs, handlers, propVars, ticked>>

applySample_Silent ==   \* mutant: the fields are written without set
  /\ ~ticked /\ ticked' = TRUE
  /\ UNCHANGED <<state, owes, subs, pending, handlers, propVars>>

\* The sampler changes other fields of State, through set.
applySample ==
  /\ ~ticked /\ ticked' = TRUE
  /\ "sampler" \notin owes /\ owes' = owes \cup {"sampler"}
  /\ UNCHANGED <<state, subs, pending, handlers, propVars>>

(* ------------------------------- /events ------------------------------- *)

Move(d, from, to) == at[d] = from /\ at' = [at EXCEPT ![d] = to]

Connect(d) ==
  /\ Move(d, "gone", "first") /\ stalled' = stalled \ {d}
  /\ shown' = [shown EXCEPT ![d] = NoStatus]
  /\ UNCHANGED <<state, owes, subs, pending, snap, propVars, ticked>>

\* The state may change again before the copy is written to the client.
Snapshot(d) ==
  /\ Move(d, "first", "initial") \/ Move(d, "send", "write")
  /\ snap' = [snap EXCEPT ![d] = state]
  /\ UNCHANGED <<state, owes, subs, pending, stalled, shown, propVars, ticked>>

Write(d) ==
  /\ d \notin stalled
  /\ shown' = [shown EXCEPT ![d] = snap[d]] /\ snap' = [snap EXCEPT ![d] = NoStatus]
  /\ UNCHANGED <<state, owes, subs, pending, stalled, propVars, ticked>>

SendInitial(d) == Move(d, "initial", "subscribe") /\ Write(d)

\* A change between the initial snapshot and this step sends no notification here.
Subscribe(d) ==
  /\ Move(d, "subscribe", "wait") /\ subs' = subs \cup {d}
  /\ UNCHANGED <<state, owes, pending, stalled, snap, shown, propVars, ticked>>

Receive(d) ==
  /\ d \in pending /\ Move(d, "wait", "send") /\ pending' = pending \ {d}
  /\ UNCHANGED <<state, owes, subs, stalled, snap, shown, propVars, ticked>>

Send(d) == Move(d, "write", "wait") /\ Write(d)

\* The client goes away: the context is done, or the next write fails.
Disconnect(d) ==
  /\ at[d] \in {"initial", "wait", "write"}
  /\ at' = [at EXCEPT ![d] = IF at[d] = "initial" THEN "gone" ELSE "leave"]
  /\ snap' = [snap EXCEPT ![d] = NoStatus]
  /\ UNCHANGED <<state, owes, subs, pending, stalled, shown, propVars, ticked>>

cleanup_Forgotten(d) ==   \* mutant: no deferred cleanup
  /\ Move(d, "leave", "gone")
  /\ UNCHANGED <<state, owes, subs, pending, stalled, snap, shown, propVars, ticked>>

\* The deferred cleanup; the channel itself is dropped with the handler.
cleanup(d) ==
  /\ Move(d, "leave", "gone") /\ subs' = subs \ {d} /\ pending' = pending \ {d}
  /\ UNCHANGED <<state, owes, stalled, snap, shown, propVars, ticked>>

Stall(d) ==
  /\ at[d] # "gone" /\ stalled' = (stalled \cup {d}) \ (stalled \cap {d})
  /\ UNCHANGED <<state, owes, subs, pending, at, snap, shown, propVars, ticked>>

(* ------------------------------ module.prop ---------------------------- *)

MonitorSubscribes ==
  /\ monitor = "start" /\ monitor' = "wait" /\ subs' = subs \cup {"monitor"}
  /\ UNCHANGED <<state, owes, pending, handlers, lastStatus, prop, recent, ticked>>

MonitorReceives ==
  /\ monitor = "wait" /\ "monitor" \in pending
  /\ pending' = pending \ {"monitor"} /\ monitor' = "check"
  /\ UNCHANGED <<state, owes, subs, handlers, lastStatus, prop, recent, ticked>>

\* lastStatus and lastWrite are set before the write, whether or not it succeeds.
updateModuleProp ==
  /\ lastStatus' = state /\ recent' = TRUE
  /\ prop' = state \/ (MayFail /\ prop' = prop)

\* mutant: the status is remembered although the limit held the write back
MonitorChecks_RemembersAnyway ==
  /\ monitor = "check" /\ monitor' = "wait"
  /\ IF state # lastStatus /\ ~recent
       THEN updateModuleProp
       ELSE lastStatus' = state /\ UNCHANGED <<prop, recent>>
  /\ UNCHANGED <<state, owes, subs, pending, handlers, ticked>>

MonitorChecks ==
  /\ monitor = "check" /\ monitor' = "wait"
  /\ IF state # lastStatus /\ ~recent
       THEN updateModuleProp
       ELSE UNCHANGED <<lastStatus, prop, recent>>
  /\ UNCHANGED <<state, owes, subs, pending, handlers, ticked>>

(* --------------------------------- time -------------------------------- *)

\* 3 s after a write; and the sampler's next tick, 20 s after the last one, so
\* that a window opened before a tick is over at the next.
ThreeSeconds ==
  /\ recent /\ recent' = FALSE
  /\ UNCHANGED <<state, owes, subs, pending, handlers, monitor, lastStatus, prop, ticked>>

TwentySeconds ==
  /\ ticked /\ ~recent /\ ticked' = FALSE
  /\ UNCHANGED <<state, owes, subs, pending, handlers, propVars>>

Handler(d) == Snapshot(d) \/ SendInitial(d) \/ Subscribe(d) \/ Receive(d) \/ Send(d) \/ cleanup(d)
Monitor    == MonitorSubscribes \/ MonitorReceives \/ MonitorChecks
Client(d)  == Connect(d) \/ Disconnect(d) \/ Stall(d)
Clock      == applySample \/ ThreeSeconds \/ TwentySeconds

Next ==
  \/ \E w \in Writers : Set(w)
  \/ \E w \in Writers \cup {"sampler"} : broadcast(w)
  \/ \E d \in Dashboards : Handler(d) \/ Client(d)
  \/ Monitor \/ Clock

Spec == Init /\ [][Next]_vars

\* Goroutines run and time passes; nothing is assumed of writers and clients.
FairSpec ==
  /\ Spec
  /\ \A w \in Writers \cup {"sampler"} : WF_vars(broadcast(w))
  /\ \A d \in Dashboards : WF_vars(Handler(d))
  /\ WF_vars(Monitor) /\ WF_vars(Clock)

(* ------------------------------ properties ----------------------------- *)

\* Every channel on State.subs belongs to a goroutine that still receives from
\* it, however its client went away. (And TypeOK.)
NoDeadSubscriber ==
  TypeOK /\ \A d \in subs \ {"monitor"} : at[d] \in {"wait", "send", "write", "leave"}

\* A dashboard that does not read never holds up State.set.
SetReturns == \A w \in Writers : w \in owes ~> w \notin owes

\* A dashboard that stays connected and reads comes to show the status that
\* lasts, even one that was set between its first snapshot and Subscribe.
DashboardCatchesUp ==
  \A d \in Dashboards, s \in Statuses :
    <>[](state = s /\ d \notin stalled /\ at[d] \notin {"gone", "leave"}) => <>[](shown[d] = s)

\* module.prop comes to show the status that lasts, although a change within 3 s
\* of the last write is not written when it happens.
PropCatchesUp == \A s \in Statuses : <>[](state = s) => <>[](prop = s)
=============================================================================
