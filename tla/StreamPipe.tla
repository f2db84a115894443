----------------------------- MODULE StreamPipe -----------------------------
(***************************************************************************)
(* pipeBoth (cmd/sshcustomd/main.go): two pump goroutines copy between the *)
(* app's TCP connection and an SSH channel; the caller waits for one of    *)
(* them to end, grants the other 400 ms, and closes both sides; an idle    *)
(* timer does the same. A pump is named by the end it reads from. Closing  *)
(* a TCP connection wakes who waits on it; closing an SSH channel sends    *)
(* the server a message, and who waits on the channel goes on waiting.     *)
(***************************************************************************)
EXTENDS Naturals

CONSTANT MaxChunks   \* bound: how many chunks each peer sends

Ends     == {"app", "far"}
Other(e) == IF e = "app" THEN "far" ELSE "app"

ASSUME PipeAssumption == MaxChunks \in [Ends -> Nat]

VARIABLES
  peer,      \* each peer: sending; has closed its side; or is gone: a reset, and for
             \* the far end the server's close of the channel or the end of the session
  full,      \* ends that take no more data: a write to them blocks
  out, del,  \* chunks each end has sent, and how many were written to the other
  held, last,\* a chunk read and not yet written; did the end of the stream come with it?
  pump,      \* where each pump is
  activity, done,  \* values in the two channels
  main,      \* where pipeBoth is
  quiet,     \* idleTimeout has passed since the timer was last reset
  closed, why \* closeBoth has run, and what led to it

streams == <<peer, full, out>>
caller  == <<main, quiet, closed, why>>
vars    == <<streams, del, held, last, pump, activity, done, caller>>

StreamTypeOK ==
  /\ peer \in [Ends -> {"open", "eof", "reset"}] /\ full \in SUBSET Ends
  /\ out \in [Ends -> Nat] /\ del \in [Ends -> Nat]
  /\ held \in [Ends -> 0..1] /\ last \in [Ends -> BOOLEAN]
  /\ pump \in [Ends -> {"read", "write", "exit", "done"}]

CallerTypeOK ==
  /\ activity \in 0..2 /\ done \in 0..2
  /\ main \in {"select", "grace", "returned"}
  /\ why \in {"none", "both", "grace", "idle"}

FlagTypeOK == quiet \in BOOLEAN /\ closed \in BOOLEAN

\* The type invariant, a part of CompleteUnlessCut: the channels hold two values.
TypeOK == StreamTypeOK /\ CallerTypeOK /\ FlagTypeOK

Init ==
  /\ peer = [e \in Ends |-> "open"] /\ full = {}
  /\ out = [e \in Ends |-> 0] /\ del = [e \in Ends |-> 0]
  /\ held = [e \in Ends |-> 0] /\ last = [e \in Ends |-> FALSE]
  /\ pump = [e \in Ends |-> "read"]
  /\ activity = 0 /\ done = 0
  /\ main = "select" /\ quiet = FALSE /\ closed = FALSE /\ why = "none"

(* ------------------------------- the pumps ----------------------------- *)

Go(e, from, to) == pump[e] = from /\ pump' = [pump EXCEPT ![e] = to]

\* activity <- struct{}{} in a select with a default
Signal == activity' = IF activity < 2 THEN activity + 1 ELSE activity

Unread(e) == out[e] - del[e]   \* held[e] is 0 whenever a pump reads

\* A TCP connection that was closed here or reset yields nothing more; an SSH
\* channel hands out what has arrived.
Readable(e) == Unread(e) > 0 /\ (e = "far" \/ (~closed /\ peer[e] # "reset"))

\* mutant: err is tested before n
ReadData_DropsLast(e) ==
  /\ pump[e] = "read" /\ Readable(e)
  /\ Signal
  /\ \E eof \in BOOLEAN :
       /\ eof => peer[e] = "eof" /\ Unread(e) = 1
       /\ pump' = [pump EXCEPT ![e] = IF eof THEN "exit" ELSE "write"]
       /\ held' = [held EXCEPT ![e] = IF eof THEN 0 ELSE 1]
  /\ UNCHANGED <<streams, del, last, done, caller>>

\* Read returns data, and perhaps the end of the stream with it.
ReadData(e) ==
  /\ Go(e, "read", "write") /\ Readable(e)
  /\ Signal
  /\ held' = [held EXCEPT ![e] = 1]
  /\ \E eof \in BOOLEAN :
       /\ eof => peer[e] = "eof" /\ Unread(e) = 1
       /\ last' = [last EXCEPT ![e] = eof]
  /\ UNCHANGED <<streams, del, done, caller>>

\* Read fails. CloseWrite tells the app; on an SSH channel SetDeadline does nothing,
\* so the far side never learns that the app has closed its side. Neither that nor
\* Close ends a Read of the channel: only the server does, or the session's end.
ReadEnds(e) ==
  /\ Go(e, "read", "exit")
  /\ \/ peer[e] # "open" /\ Unread(e) = 0
     \/ e = "app" /\ (closed \/ peer[e] = "reset")
  /\ UNCHANGED <<streams, del, held, last, activity, done, caller>>

\* writeAll: everything, or an error; a peer that takes nothing blocks it.
WriteData(e) ==
  /\ Go(e, "write", IF last[e] THEN "exit" ELSE "read")
  /\ ~closed /\ peer[Other(e)] # "reset" /\ Other(e) \notin full
  /\ held' = [held EXCEPT ![e] = 0]
  /\ del' = [del EXCEPT ![e] = @ + 1]
  /\ UNCHANGED <<streams, last, activity, done, caller>>

\* A Write to the channel that waits for window finds out only when there is some.
WriteFails(e) ==
  /\ Go(e, "write", "exit")
  /\ \/ peer[Other(e)] = "reset"
     \/ closed /\ (Other(e) = "app" \/ "far" \notin full)
  /\ held' = [held EXCEPT ![e] = 0]
  /\ UNCHANGED <<streams, del, last, activity, done, caller>>

Exit_Cap1(e) ==   \* mutant: done has room for one value
  /\ Go(e, "exit", "done") /\ done < 1 /\ done' = done + 1
  /\ UNCHANGED <<streams, del, held, last, activity, caller>>

Exit(e) ==
  /\ Go(e, "exit", "done") /\ done < 2 /\ done' = done + 1
  /\ UNCHANGED <<streams, del, held, last, activity, caller>>

Pump(e) == ReadData(e) \/ ReadEnds(e) \/ WriteData(e) \/ WriteFails(e) \/ Exit(e)

(* ------------------------------- pipeBoth ------------------------------ *)

closeBoth(reason) == closed' = TRUE /\ why' = reason /\ main' = "returned"

TakeActivity ==
  /\ main = "select" /\ activity > 0
  /\ activity' = activity - 1 /\ quiet' = FALSE
  /\ UNCHANGED <<streams, del, held, last, pump, done, main, closed, why>>

TakeDone ==
  /\ main = "select" /\ done > 0 /\ done' = done - 1 /\ main' = "grace"
  /\ UNCHANGED <<streams, del, held, last, pump, activity, quiet, closed, why>>

TimerFires ==
  /\ main = "select" /\ quiet /\ closeBoth("idle")
  /\ UNCHANGED <<streams, del, held, last, pump, activity, done, quiet>>

SecondDone ==
  /\ main = "grace" /\ done > 0 /\ done' = done - 1 /\ closeBoth("both")
  /\ UNCHANGED <<streams, del, held, last, pump, activity, quiet>>

GraceExpires ==
  /\ main = "grace" /\ closeBoth("grace")
  /\ UNCHANGED <<streams, del, held, last, pump, activity, done, quiet>>

Pipe == TakeActivity \/ TakeDone \/ TimerFires \/ SecondDone \/ GraceExpires

IdlePasses ==
  /\ main = "select" /\ ~quiet /\ quiet' = TRUE
  /\ UNCHANGED <<streams, del, held, last, pump, activity, done, main, closed, why>>

(* -------------------------------- the peers ---------------------------- *)

\* The server may answer the close of the channel, send on it, or do neither. Only
\* a write uses up what an end has room for.
PeerActs(e) ==
  /\ ~closed \/ e = "far"
  /\ peer[e] # "reset"
  /\ \/ /\ peer[e] = "open" /\ out[e] < MaxChunks[e]
        /\ out' = [out EXCEPT ![e] = @ + 1] /\ UNCHANGED <<peer, full>>
     \/ \E s \in {"eof", "reset"} : peer' = [peer EXCEPT ![e] = s] /\ UNCHANGED <<out, full>>
     \/ /\ e \in full \/ pump[Other(e)] # "write"
        /\ full' = (full \cup {e}) \ (full \cap {e}) /\ UNCHANGED <<peer, out>>
  /\ UNCHANGED <<del, held, last, pump, activity, done, caller>>

Next == Pipe \/ IdlePasses \/ \E e \in Ends : Pump(e) \/ PeerActs(e)

Spec == Init /\ [][Next]_vars

\* Goroutines run and clocks advance; nothing is assumed of the peers.
FairSpec ==
  /\ Spec
  /\ WF_vars(Pipe) /\ WF_vars(IdlePasses) /\ \A e \in Ends : WF_vars(Pump(e))

(* ------------------------------ properties ----------------------------- *)

\* When both pumps reached the end of their streams before the grace ran out,
\* every byte the two peers sent has been written to the other: only the 400 ms
\* of pipeBoth, its idle timer or a reset may cut a stream short. (And TypeOK.)
CompleteUnlessCut ==
  TypeOK /\ (why = "both" /\ (\A e \in Ends : peer[e] # "reset") => del = out)

\* The pump waits on the SSH channel: for data or an end that the server does not
\* send, or for window that it does not grant.
WaitsForServer(e) ==
  \/ e = "far" /\ pump[e] = "read" /\ peer["far"] = "open" /\ Unread("far") = 0
  \/ e = "app" /\ pump[e] = "write" /\ peer["far"] # "reset" /\ "far" \in full

\* A pipe that carries no more data ends, whichever side is silent, blocked,
\* half-closed or gone: pipeBoth returns, and a pump that is left behind waits, for
\* as long as the session lasts, on a channel that the server neither serves nor
\* closes. The app's side never keeps one.
PipeEnds ==
  <>(main = "returned" /\ \A e \in Ends : pump[e] = "done" \/ []WaitsForServer(e))
=============================================================================
