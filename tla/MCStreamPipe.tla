----------------------------- MODULE MCStreamPipe ----------------------------
(* StreamPipe for TLC: a short request, a longer answer. *)
EXTENDS StreamPipe

Chunks == [e \in Ends |-> IF e = "app" THEN 1 ELSE 2]
=============================================================================
