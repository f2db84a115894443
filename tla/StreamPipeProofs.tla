-------------------------- MODULE StreamPipeProofs --------------------------
(***************************************************************************)
(* Proof that pipeBoth loses nothing unless it is cut short, for streams   *)
(* of every length. CompleteUnlessCut speaks of the end only; IInv says    *)
(* what each pump has still to write, that a pump which has ended had      *)
(* nothing left, and that pipeBoth takes one value from done per pump.     *)
(***************************************************************************)
EXTENDS StreamPipe, TLAPS

\* A pump holds a chunk exactly while it writes, and writes only what was sent.
Accounted ==
  \A e \in Ends : /\ held[e] = IF pump[e] = "write" THEN 1 ELSE 0
                  /\ del[e] + held[e] <= out[e]

\* Neither a reset nor pipeBoth itself has cut the streams short.
Uncut == why \in {"none", "both"} /\ \A e \in Ends : peer[e] # "reset"

\* A pump that ended had read all its end ever sends; a chunk that came with the
\* end of the stream is the last one.
AllRead ==
  Uncut => \A e \in Ends :
    /\ pump[e] \in {"exit", "done"} => peer[e] = "eof" /\ del[e] = out[e]
    /\ pump[e] = "write" /\ last[e] => peer[e] = "eof" /\ del[e] + 1 = out[e]

Ended(e) == IF pump[e] = "done" THEN 1 ELSE 0
Taken    == IF main = "select" \/ why = "idle" THEN 0
            ELSE IF why = "both" THEN 2 ELSE 1

\* Every pump that is done has put one value into done, and pipeBoth's progress
\* says how many it has taken.
DoneCounted ==
  /\ done + Taken = Ended("app") + Ended("far")
  /\ closed <=> main = "returned"
  /\ closed <=> why # "none"

IInv == TypeOK /\ Accounted /\ AllRead /\ DoneCounted

-----------------------------------------------------------------------------
LEMMA InitInv == Init => IInv
<1> SUFFICES ASSUME Init PROVE IInv
  OBVIOUS
<1>1. StreamTypeOK
  BY DEF Init, StreamTypeOK
<1>4. CallerTypeOK
  BY DEF Init, CallerTypeOK
<1>6. FlagTypeOK
  BY DEF Init, FlagTypeOK
<1>2. Accounted
  BY DEF Init, Accounted
<1>5. AllRead
  BY DEF Init, AllRead
<1>3. DoneCounted
  BY DEF Init, DoneCounted, Taken, Ended, Ends
<1> QED
  BY <1>1, <1>2, <1>3, <1>4, <1>5, <1>6 DEF IInv, TypeOK

LEMMA StreamTypeStep == StreamTypeOK /\ [Next]_vars => StreamTypeOK'
<1> SUFFICES ASSUME StreamTypeOK, [Next]_vars PROVE StreamTypeOK'
  OBVIOUS
<1> USE DEF StreamTypeOK
<1>1. CASE UNCHANGED <<streams, del, held, last, pump>>
  BY <1>1 DEF streams
<1>2. CASE Pipe \/ IdlePasses
  BY <1>1, <1>2 DEF Pipe, TakeActivity, TakeDone, IdlePasses, TimerFires, SecondDone, GraceExpires
<1>3. ASSUME NEW e \in Ends, ReadData(e) PROVE StreamTypeOK'
  BY <1>3 DEF ReadData, Go, streams
<1>4. ASSUME NEW e \in Ends, ReadEnds(e) \/ WriteFails(e) \/ Exit(e) PROVE StreamTypeOK'
  BY <1>4 DEF ReadEnds, WriteFails, Exit, Go, streams
<1>5. ASSUME NEW e \in Ends, WriteData(e) PROVE StreamTypeOK'
  BY <1>5 DEF WriteData, Go, streams
<1>6. ASSUME NEW e \in Ends, PeerActs(e) PROVE StreamTypeOK'
  <2>1. peer' \in [Ends -> {"open", "eof", "reset"}] /\ out' \in [Ends -> Nat]
    BY <1>6 DEF PeerActs
  <2>2. full' \in SUBSET Ends
    BY <1>6 DEF PeerActs
  <2> QED
    BY <1>6, <2>1, <2>2 DEF PeerActs
<1> QED
  BY <1>1, <1>2, <1>3, <1>4, <1>5, <1>6 DEF Next, Pump, vars

LEMMA CallerTypeStep == CallerTypeOK /\ [Next]_vars => CallerTypeOK'
<1> SUFFICES ASSUME CallerTypeOK, [Next]_vars PROVE CallerTypeOK'
  OBVIOUS
<1> USE DEF CallerTypeOK
<1>1. CASE UNCHANGED <<activity, done, main, why>>
  BY <1>1
<1>2. CASE TakeActivity \/ TakeDone
  BY <1>2 DEF TakeActivity, TakeDone
<1>3. CASE TimerFires \/ SecondDone \/ GraceExpires
  BY <1>3 DEF TimerFires, SecondDone, GraceExpires, closeBoth
<1>4. ASSUME NEW e \in Ends, ReadData(e) \/ Exit(e) PROVE CallerTypeOK'
  BY <1>4 DEF ReadData, Exit, Signal, caller
<1>5. CASE IdlePasses \/ \E e \in Ends : ReadEnds(e) \/ WriteData(e) \/ WriteFails(e) \/ PeerActs(e)
  BY <1>1, <1>5 DEF IdlePasses, ReadEnds, WriteData, WriteFails, PeerActs, caller
<1> QED
  BY <1>1, <1>2, <1>3, <1>4, <1>5 DEF Next, Pipe, Pump, vars, caller

LEMMA FlagTypeStep == FlagTypeOK /\ [Next]_vars => FlagTypeOK'
<1> SUFFICES ASSUME FlagTypeOK, [Next]_vars PROVE FlagTypeOK'
  OBVIOUS
<1> USE DEF FlagTypeOK
<1>1. CASE UNCHANGED caller
  BY <1>1 DEF caller
<1>2. CASE TakeActivity \/ TakeDone \/ IdlePasses
  BY <1>2 DEF TakeActivity, TakeDone, IdlePasses
<1>3. CASE TimerFires \/ SecondDone \/ GraceExpires
  BY <1>3 DEF TimerFires, SecondDone, GraceExpires, closeBoth
<1>4. CASE \E e \in Ends : Pump(e) \/ PeerActs(e)
  BY <1>1, <1>4 DEF Pump, ReadData, ReadEnds, WriteData, WriteFails, Exit, PeerActs
<1> QED
  BY <1>1, <1>2, <1>3, <1>4 DEF Next, Pipe, vars

LEMMA AccountedStep == TypeOK /\ Accounted /\ [Next]_vars => Accounted'
<1> SUFFICES ASSUME TypeOK, Accounted, [Next]_vars PROVE Accounted'
  OBVIOUS
<1> USE DEF Accounted
<1>0. /\ out \in [Ends -> Nat] /\ del \in [Ends -> Nat]
      /\ held \in [Ends -> 0..1]
      /\ pump \in [Ends -> {"read", "write", "exit", "done"}]
  BY DEF TypeOK, StreamTypeOK
<1>1. CASE UNCHANGED <<out, del, held, pump>>
  BY <1>1
<1>2. CASE Pipe \/ IdlePasses
  BY <1>1, <1>2 DEF Pipe, TakeActivity, TakeDone, IdlePasses, TimerFires, SecondDone,
     GraceExpires, streams
<1>3. ASSUME NEW e \in Ends, ReadData(e) PROVE Accounted'
  BY <1>0, <1>3 DEF ReadData, Readable, Go, Unread, streams
<1>4. ASSUME NEW e \in Ends, ReadEnds(e) \/ Exit(e) PROVE Accounted'
  BY <1>0, <1>4 DEF ReadEnds, Exit, Go, streams
<1>5. ASSUME NEW e \in Ends, WriteData(e) PROVE Accounted'
  BY <1>0, <1>5 DEF WriteData, Go, streams
<1>6. ASSUME NEW e \in Ends, WriteFails(e) PROVE Accounted'
  BY <1>0, <1>6 DEF WriteFails, Go, streams
<1>7. ASSUME NEW e \in Ends, PeerActs(e) PROVE Accounted'
  <2>1. \A d \in Ends : out'[d] >= out[d] /\ out'[d] \in Nat
    BY <1>0, <1>7 DEF PeerActs
  <2> QED
    BY <1>0, <1>7, <2>1 DEF PeerActs
<1> QED
  BY <1>1, <1>2, <1>3, <1>4, <1>5, <1>6, <1>7 DEF Next, Pump, vars, streams

\* pipeBoth takes the second value only when both pumps have ended.
LEMMA EndsWhenBothDone ==
  ASSUME TypeOK, DoneCounted, why = "both"
  PROVE  \A e \in Ends : pump[e] = "done"
BY DEF TypeOK, StreamTypeOK, CallerTypeOK, DoneCounted, Taken, Ended, Ends

\* A stream once cut short stays so.
LEMMA UncutBefore ==
  ASSUME TypeOK, DoneCounted, Next, Uncut'
  PROVE  Uncut
<1>1. CASE UNCHANGED <<why, peer>>
  BY <1>1 DEF Uncut
<1>2. CASE TimerFires \/ GraceExpires
  BY <1>2 DEF TimerFires, GraceExpires, closeBoth, Uncut
<1>3. CASE SecondDone
  BY <1>3 DEF SecondDone, closeBoth, Uncut, DoneCounted, streams
<1>4. ASSUME NEW e \in Ends, PeerActs(e) PROVE Uncut
  BY <1>4 DEF PeerActs, Uncut, TypeOK, StreamTypeOK, caller
<1>5. CASE TakeActivity \/ TakeDone \/ IdlePasses \/ \E e \in Ends : Pump(e)
  BY <1>1, <1>5 DEF TakeActivity, TakeDone, IdlePasses, Pump, ReadData, ReadEnds, WriteData,
     WriteFails, Exit, streams, caller
<1> QED
  BY <1>2, <1>3, <1>4, <1>5 DEF Next, Pipe

LEMMA AllReadStep ==
  TypeOK /\ Accounted /\ AllRead /\ DoneCounted /\ [Next]_vars => AllRead'
<1> SUFFICES ASSUME TypeOK, Accounted, AllRead, DoneCounted, [Next]_vars, Uncut'
             PROVE  \A e \in Ends :
                      /\ pump'[e] \in {"exit", "done"} => peer'[e] = "eof" /\ del'[e] = out'[e]
                      /\ pump'[e] = "write" /\ last'[e] => peer'[e] = "eof" /\ del'[e] + 1 = out'[e]
  BY DEF AllRead
<1> DEFINE Goal == \A e \in Ends :
      /\ pump'[e] \in {"exit", "done"} => peer'[e] = "eof" /\ del'[e] = out'[e]
      /\ pump'[e] = "write" /\ last'[e] => peer'[e] = "eof" /\ del'[e] + 1 = out'[e]
<1>0. /\ out \in [Ends -> Nat] /\ del \in [Ends -> Nat]
      /\ last \in [Ends -> BOOLEAN]
      /\ peer \in [Ends -> {"open", "eof", "reset"}]
      /\ pump \in [Ends -> {"read", "write", "exit", "done"}]
  BY DEF TypeOK, StreamTypeOK
<1>u. Uncut
  <2>1. CASE Next
    BY <2>1, UncutBefore
  <2>2. CASE UNCHANGED vars
    BY <2>2 DEF vars, streams, caller, Uncut
  <2> QED
    BY <2>1, <2>2
<1>a. \A e \in Ends :
        /\ pump[e] \in {"exit", "done"} => peer[e] = "eof" /\ del[e] = out[e]
        /\ pump[e] = "write" /\ last[e] => peer[e] = "eof" /\ del[e] + 1 = out[e]
  BY <1>u DEF AllRead
<1>1. CASE UNCHANGED <<out, del, last, peer, pump>>
  BY <1>a, <1>1
<1>2. CASE Pipe \/ IdlePasses
  BY <1>1, <1>2 DEF Pipe, TakeActivity, TakeDone, IdlePasses, TimerFires, SecondDone,
     GraceExpires, streams
<1>3. ASSUME NEW e \in Ends, ReadData(e) PROVE Goal
  BY <1>0, <1>a, <1>3 DEF ReadData, Go, Unread, streams
<1>4. ASSUME NEW e \in Ends, ReadEnds(e) PROVE Goal
  <2>1. ~closed
    BY <1>4, <1>u, EndsWhenBothDone DEF ReadEnds, Go, Uncut, DoneCounted
  <2> QED
    BY <1>0, <1>a, <1>u, <1>4, <2>1 DEF ReadEnds, Go, Unread, Uncut, Accounted, streams
<1>5. ASSUME NEW e \in Ends, WriteData(e) PROVE Goal
  BY <1>0, <1>a, <1>5 DEF WriteData, Go, streams
<1>6. ASSUME NEW e \in Ends, WriteFails(e) PROVE Goal
  <2>1. ~closed
    BY <1>6, <1>u, EndsWhenBothDone DEF WriteFails, Go, Uncut, DoneCounted
  <2> QED
    BY <1>u, <1>6, <2>1 DEF WriteFails, Uncut, Other, Ends
<1>7. ASSUME NEW e \in Ends, Exit(e) PROVE Goal
  BY <1>0, <1>a, <1>7 DEF Exit, Go, streams
<1>8. ASSUME NEW e \in Ends, PeerActs(e) PROVE Goal
  <2>1. \A d \in Ends : peer[d] = "eof" => peer'[d] = "eof" /\ out'[d] = out[d]
    BY <1>0, <1>8 DEF PeerActs, Uncut
  <2> QED
    BY <1>0, <1>a, <1>8, <2>1 DEF PeerActs
<1> QED
  BY <1>1, <1>2, <1>3, <1>4, <1>5, <1>6, <1>7, <1>8 DEF Next, Pump, vars, streams

LEMMA DoneStep == TypeOK /\ DoneCounted /\ [Next]_vars => DoneCounted'
<1> SUFFICES ASSUME TypeOK, DoneCounted, [Next]_vars PROVE DoneCounted'
  OBVIOUS
<1> USE DEF DoneCounted, Taken, Ended, Ends
<1>0. /\ pump \in [Ends -> {"read", "write", "exit", "done"}] /\ done \in 0..2
      /\ main \in {"select", "grace", "returned"} 
      /\ why \in {"none", "both", "grace", "idle"}
  BY DEF TypeOK, StreamTypeOK, CallerTypeOK
<1>1. CASE UNCHANGED <<pump, done, main, closed, why>>
  BY <1>1
<1>2. CASE TakeActivity \/ IdlePasses
  BY <1>1, <1>2 DEF TakeActivity, IdlePasses
<1>3. CASE TakeDone \/ TimerFires \/ SecondDone \/ GraceExpires
  BY <1>0, <1>3 DEF TakeDone, TimerFires, SecondDone, GraceExpires, closeBoth
<1>4. ASSUME NEW e \in Ends, ReadData(e) \/ ReadEnds(e) \/ WriteData(e) \/ WriteFails(e)
      PROVE  DoneCounted'
  <2>1. UNCHANGED <<done, main, closed, why>>
    BY <1>4 DEF ReadData, ReadEnds, WriteData, WriteFails, caller
  <2>2. pump[e] # "done" /\ pump' = [pump EXCEPT ![e] = pump'[e]] /\ pump'[e] # "done"
    BY <1>0, <1>4 DEF ReadData, ReadEnds, WriteData, WriteFails, Go
  <2>3. \A d \in Ends : pump'[d] = "done" <=> pump[d] = "done"
    BY <1>0, <2>2
  <2> QED
    BY <2>1, <2>3
<1>5. ASSUME NEW e \in Ends, Exit(e) PROVE DoneCounted'
  BY <1>0, <1>5 DEF Exit, Go, caller
<1>6. ASSUME NEW e \in Ends, PeerActs(e) PROVE DoneCounted'
  BY <1>1, <1>6 DEF PeerActs, caller
<1> QED
  BY <1>1, <1>2, <1>3, <1>4, <1>5, <1>6 DEF Next, Pipe, Pump, vars, caller

LEMMA Invariance == Spec => []IInv
<1>1. IInv /\ [Next]_vars => IInv'
  BY StreamTypeStep, CallerTypeStep, FlagTypeStep, AccountedStep, AllReadStep, DoneStep DEF IInv, TypeOK
<1> QED
  BY InitInv, <1>1, PTL DEF Spec

\* When both pumps of pipeBoth ended before the grace, the idle timer or a reset
\* cut them short, everything each peer sent was written to the other, for
\* streams of any length.
THEOREM PipeIsComplete == Spec => []CompleteUnlessCut
<1>1. IInv => CompleteUnlessCut
  <2> SUFFICES ASSUME IInv, why = "both", \A e \in Ends : peer[e] # "reset"
               PROVE  del = out
    BY DEF IInv, CompleteUnlessCut
  <2>1. \A e \in Ends : pump[e] = "done"
    BY EndsWhenBothDone DEF IInv
  <2>2. \A e \in Ends : del[e] = out[e]
    BY <2>1 DEF IInv, AllRead, Uncut
  <2> QED
    BY <2>2 DEF IInv, TypeOK, StreamTypeOK
<1> QED
  BY <1>1, Invariance, PTL
=============================================================================
