--------------------------- MODULE TunnelContract ---------------------------
(***************************************************************************)
(* What startTunnel and stopTunnel (cmd/sshcustomd/main.go) rely on when   *)
(* they run one tunnelLoop, without how the loop does it. TunnelEngine     *)
(* implements this specification; TunnelLifecycle builds on it.            *)
(***************************************************************************)

VARIABLES
  phase,      \* "running", "returned" or "crashed" (panicked and recovered)
  cancelled,  \* tunnelCtx is done
  session,    \* an SSH session is open
  routed      \* the script's routing rules are installed

contractVars == <<phase, cancelled, session, routed>>

Init ==
  /\ phase = "running"
  /\ cancelled = FALSE
  /\ session = FALSE
  /\ routed = FALSE

Cancel ==
  /\ cancelled' = TRUE
  /\ UNCHANGED <<phase, session, routed>>

\* A session is opened only by a running loop, and only after the last one is gone.
Connect ==
  /\ phase = "running" /\ ~session
  /\ session' = TRUE
  /\ UNCHANGED <<phase, cancelled, routed>>

Disconnect ==
  /\ session' = FALSE
  /\ UNCHANGED <<phase, cancelled, routed>>

Route ==
  /\ phase = "running"
  /\ routed' = TRUE
  /\ UNCHANGED <<phase, cancelled, session>>

\* The loop returns only when it was told to, and with its session closed; the
\* rules are then somebody else's to remove.
Return ==
  /\ phase = "running" /\ cancelled /\ ~session
  /\ phase' = "returned"
  /\ UNCHANGED <<cancelled, session, routed>>

\* A panic may leave the session open, and takes the rules down unless the loop
\* was cancelled before.
Crash ==
  /\ phase = "running"
  /\ phase' = "crashed"
  /\ routed' \in IF cancelled THEN {routed} ELSE {routed, FALSE}
  /\ UNCHANGED <<cancelled, session>>

\* net_clean.sh, after the cancel.
Clean ==
  /\ cancelled
  /\ routed' = FALSE
  /\ UNCHANGED <<phase, cancelled, session>>

Next == Cancel \/ Connect \/ Disconnect \/ Route \/ Return \/ Crash \/ Clean

Spec == Init /\ [][Next]_contractVars
=============================================================================
