------------------------ MODULE StateBroadcastProofs ------------------------
(***************************************************************************)
(* Proof that State.subs holds no channel of a handler that is gone, for   *)
(* any number of writers and dashboards. IInv says more: a dashboard is on *)
(* the slice exactly between Subscribe and its deferred cleanup, and only  *)
(* channels on the slice hold a notification.                              *)
(***************************************************************************)
EXTENDS StateBroadcast, TLAPS

Subscribed == {"wait", "send", "write", "leave"}

SubsExact ==
  /\ \A d \in Dashboards : d \in subs <=> at[d] \in Subscribed
  /\ "monitor" \in subs <=> monitor # "start"
  /\ pending \subseteq subs

IInv == TypeOK /\ SubsExact

-----------------------------------------------------------------------------
LEMMA InitInv == Init => IInv
<1> SUFFICES ASSUME Init PROVE IInv
  OBVIOUS
<1>1. DataTypeOK
  BY DEF Init, DataTypeOK, HandlerPlaces
<1>2. FlagTypeOK
  BY DEF Init, FlagTypeOK
<1>3. SubsExact
  BY DEF Init, SubsExact, Subscribed
<1> QED
  BY <1>1, <1>2, <1>3 DEF IInv, TypeOK

LEMMA FlagTypeStep == FlagTypeOK /\ [Next]_vars => FlagTypeOK'
<1> SUFFICES ASSUME FlagTypeOK, [Next]_vars PROVE FlagTypeOK'
  OBVIOUS
<1> USE DEF FlagTypeOK
<1>1. CASE UNCHANGED <<recent, ticked>>
  BY <1>1
<1>2. CASE MonitorChecks
  BY <1>2 DEF MonitorChecks, updateModuleProp
<1>3. CASE Clock
  BY <1>3 DEF Clock, applySample, ThreeSeconds, TwentySeconds, propVars
<1>4. CASE MonitorSubscribes \/ MonitorReceives
  BY <1>1, <1>4 DEF MonitorSubscribes, MonitorReceives
<1>5. CASE \E d \in Dashboards : Handler(d) \/ Client(d)
  BY <1>1, <1>5 DEF Handler, Client, Connect, Snapshot, Write, SendInitial, Subscribe, Receive, Send, Disconnect,
     cleanup, Stall, propVars
<1>6. CASE \/ \E w \in Writers : Set(w)
           \/ \E w \in Writers \cup {"sampler"} : broadcast(w)
  BY <1>1, <1>6 DEF Set, broadcast, propVars
<1> QED
  BY <1>1, <1>2, <1>3, <1>4, <1>5, <1>6 DEF Next, Monitor, vars, propVars

LEMMA DataTypeStep == DataTypeOK /\ [Next]_vars => DataTypeOK'
<1> SUFFICES ASSUME DataTypeOK, [Next]_vars PROVE DataTypeOK'
  OBVIOUS
<1> USE DEF DataTypeOK, HandlerPlaces
<1>1. CASE UNCHANGED vars
  BY <1>1 DEF vars, handlers, propVars
<1>2. ASSUME NEW w \in Writers, Set(w) PROVE DataTypeOK'
  BY <1>2 DEF Set, handlers, propVars
<1>3. ASSUME NEW w \in Writers \cup {"sampler"}, broadcast(w) PROVE DataTypeOK'
  BY <1>3 DEF broadcast, handlers, propVars
<1>4. ASSUME NEW d \in Dashboards, Connect(d) \/ Disconnect(d) \/ Stall(d) PROVE DataTypeOK'
  BY <1>4 DEF Connect, Disconnect, Stall, Move, propVars
<1>5. ASSUME NEW d \in Dashboards, Snapshot(d) \/ SendInitial(d) \/ Send(d) PROVE DataTypeOK'
  BY <1>5 DEF SendInitial, Send, Write, Move, Snapshot, propVars
<1>6. ASSUME NEW d \in Dashboards, Subscribe(d) \/ Receive(d) \/ cleanup(d) PROVE DataTypeOK'
  BY <1>6 DEF Subscribe, Receive, cleanup, Move, Subscribers, propVars
<1>7. CASE MonitorSubscribes \/ MonitorReceives
  BY <1>7 DEF MonitorSubscribes, MonitorReceives, Subscribers, handlers
<1>8. CASE MonitorChecks
  BY <1>8 DEF MonitorChecks, updateModuleProp, handlers
<1>9. CASE Clock
  BY <1>9 DEF Clock, applySample, ThreeSeconds, TwentySeconds, handlers, propVars
<1> QED
  BY <1>1, <1>2, <1>3, <1>4, <1>5, <1>6, <1>7, <1>8, <1>9 DEF Next, Handler, Client, Monitor

LEMMA SubsStep == DataTypeOK /\ SubsExact /\ [Next]_vars => SubsExact'
<1> SUFFICES ASSUME DataTypeOK, SubsExact, [Next]_vars PROVE SubsExact'
  OBVIOUS
<1> USE DEF SubsExact, Subscribed
<1>0. at \in [Dashboards -> HandlerPlaces]
  BY DEF DataTypeOK
<1>m. "monitor" \notin Dashboards
  BY BroadcastAssumption DEF BroadcastAssumption
<1>1. CASE UNCHANGED <<subs, pending, at, monitor>>
  BY <1>1
<1>2. CASE \E w \in Writers \cup {"sampler"} : broadcast(w)
  BY <1>2 DEF broadcast, handlers, propVars
<1>3. ASSUME NEW d \in Dashboards,
             Connect(d) \/ Snapshot(d) \/ SendInitial(d) \/ Send(d) \/ Disconnect(d)
      PROVE  SubsExact'
  BY <1>0, <1>3 DEF Connect, Snapshot, SendInitial, Send, Write, Disconnect, Move, propVars
<1>4. ASSUME NEW d \in Dashboards, Subscribe(d) PROVE SubsExact'
  BY <1>0, <1>m, <1>4 DEF Subscribe, Move, propVars
<1>5. ASSUME NEW d \in Dashboards, Receive(d) PROVE SubsExact'
  BY <1>0, <1>5 DEF Receive, Move, propVars
<1>6. ASSUME NEW d \in Dashboards, cleanup(d) PROVE SubsExact'
  BY <1>0, <1>m, <1>6 DEF cleanup, Move, propVars
<1>7. CASE MonitorSubscribes \/ MonitorReceives \/ MonitorChecks
  BY <1>0, <1>m, <1>7 DEF MonitorSubscribes, MonitorReceives, MonitorChecks, handlers
<1>8. CASE Clock \/ (\E w \in Writers : Set(w)) \/ (\E d \in Dashboards : Stall(d))
  BY <1>1, <1>8 DEF Clock, applySample, ThreeSeconds, TwentySeconds, Set, Stall, handlers, propVars
<1> QED
  BY <1>1, <1>2, <1>3, <1>4, <1>5, <1>6, <1>7, <1>8
     DEF Next, Handler, Client, Monitor, vars, handlers, propVars

LEMMA Invariance == Spec => []IInv
<1>1. IInv /\ [Next]_vars => IInv'
  BY FlagTypeStep, DataTypeStep, SubsStep DEF IInv, TypeOK
<1> QED
  BY InitInv, <1>1, PTL DEF Spec

\* Whoever is on State.subs still receives or is about to clean up, so the slice
\* that every set walks through is never longer than the handlers that are alive,
\* for any number of dashboards that come and go.
THEOREM SubscribersLive == Spec => []NoDeadSubscriber
<1>1. IInv => NoDeadSubscriber
  BY DEF IInv, TypeOK, DataTypeOK, Subscribers, SubsExact, Subscribed, NoDeadSubscriber
<1> QED
  BY <1>1, Invariance, PTL
=============================================================================
