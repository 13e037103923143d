------------------------- MODULE LiveCaptureProofs --------------------------
(***************************************************************************)
(* Proofs about LiveCapture for any number of workers, captures and paths: *)
(* the inductive invariant IInv, the safety properties it implies, and     *)
(* that the slot implements CaptureLease.  IInv is preserved by every step *)
(* of a worker (entering a call, start_capture, stop_capture, loading), of *)
(* a capture thread and of the outside world; each lemma below is one of   *)
(* these groups, each case one action, and under it one step each for the  *)
(* types, the claims, the thread and the file conjuncts of IInv.           *)
(***************************************************************************)
EXTENDS LiveCapture, TLAPS

USE LiveCaptureAssumption
USE DEF sessionVars, workerVars, threadVars, Goto, Leave, Return, Answer

(* The invariant holds before the first call. *)
LEMMA InitIInv == Init => IInv
BY DEF Init, IInv, TypeOK, Content, Nothing, ThreadOwnsSlot, ExclusiveClaim, Claims,
       LiveAnswerIsTrue, PhaseOfSlot, ToolOfPc, ThreadOfPc, Alive, FileOfThread, ReadyOfPc

(* Returning from a call leaves well-typed locals. *)
LEMMA ReturnTypes ==
  ASSUME TypeOK, NEW w \in Workers, Return(w)
  PROVE  /\ pc' = [pc EXCEPT ![w] = "idle"]
         /\ tool' \in [Workers -> {"none", "start", "stop", "load"}]
         /\ claim' \in [Workers -> Captures \cup {NoCapture}]
         /\ verdict' \in [Workers -> {"none", "stopped", "failed", "retry"}]
         /\ loaded' \in [Workers -> Content]
BY DEF TypeOK, Nothing, Content

(* A worker enters a tool call: the slot is reserved, claimed or found free. *)
LEMMA EntryKeepsIInv ==
  ASSUME IInv, NEW w \in Workers,
         BeginLoad(w) \/ BeginStop(w) \/ \E c \in Captures, p \in Paths : Reserve(w, c, p)
  PROVE  IInv'
<1>1. CASE BeginLoad(w)
  <2>1. TypeOK'
    BY <1>1 DEF BeginLoad, IInv, TypeOK
  <2>2. ExclusiveClaim' /\ PhaseOfSlot' /\ ToolOfPc'
    BY <1>1 DEF BeginLoad, IInv, TypeOK, ExclusiveClaim, Claims, PhaseOfSlot, ToolOfPc
  <2>3. ThreadOwnsSlot' /\ ThreadOfPc'
    BY <1>1 DEF BeginLoad, IInv, TypeOK, ThreadOwnsSlot, ThreadOfPc, Alive, ExclusiveClaim, Claims, ToolOfPc
  <2>4. LiveAnswerIsTrue' /\ FileOfThread' /\ ReadyOfPc'
    BY <1>1 DEF BeginLoad, IInv, TypeOK, LiveAnswerIsTrue, FileOfThread, ReadyOfPc, ExclusiveClaim, Claims, ToolOfPc, PhaseOfSlot, ThreadOfPc
  <2> QED BY <2>1, <2>2, <2>3, <2>4 DEF IInv
<1>2. CASE BeginStop(w)
  <2>1. TypeOK'
    BY <1>2 DEF BeginStop, IInv, TypeOK
  <2>2. ExclusiveClaim' /\ PhaseOfSlot' /\ ToolOfPc'
    BY <1>2 DEF BeginStop, IInv, TypeOK, ExclusiveClaim, Claims, PhaseOfSlot, ToolOfPc
  <2>3. ThreadOwnsSlot' /\ ThreadOfPc'
    BY <1>2 DEF BeginStop, IInv, TypeOK, ThreadOwnsSlot, ThreadOfPc, Alive, ExclusiveClaim, Claims, ToolOfPc
  <2>4. LiveAnswerIsTrue' /\ FileOfThread' /\ ReadyOfPc'
    BY <1>2 DEF BeginStop, IInv, TypeOK, LiveAnswerIsTrue, FileOfThread, ReadyOfPc, ExclusiveClaim, Claims, ToolOfPc, PhaseOfSlot, ThreadOfPc
  <2> QED BY <2>1, <2>2, <2>3, <2>4 DEF IInv
<1>3. ASSUME NEW c \in Captures, NEW p \in Paths, Reserve(w, c, p) PROVE IInv'
  <2>1. TypeOK'
    BY <1>3 DEF Reserve, IInv, TypeOK
  <2>2. ExclusiveClaim' /\ PhaseOfSlot' /\ ToolOfPc'
    BY <1>3 DEF Reserve, IInv, TypeOK, ExclusiveClaim, Claims, PhaseOfSlot, ToolOfPc
  <2>3. ThreadOwnsSlot' /\ ThreadOfPc'
    BY <1>3 DEF Reserve, IInv, TypeOK, ThreadOwnsSlot, ThreadOfPc, Alive, ExclusiveClaim, Claims, ToolOfPc
  <2>4. LiveAnswerIsTrue' /\ FileOfThread' /\ ReadyOfPc'
    BY <1>3 DEF Reserve, IInv, TypeOK, LiveAnswerIsTrue, FileOfThread, ReadyOfPc, ExclusiveClaim, Claims, ToolOfPc, PhaseOfSlot, ThreadOfPc
  <2> QED BY <2>1, <2>2, <2>3, <2>4 DEF IInv
<1> QED BY <1>1, <1>2, <1>3

(* start_capture up to its successful return or its finally clause. *)
LEMMA StartKeepsIInv ==
  ASSUME IInv, NEW w \in Workers, StartStep(w)
  PROVE  IInv'
<1>1. CASE Launch(w)
  <2>1. TypeOK'
    BY <1>1 DEF Launch, IInv, TypeOK
  <2>2. ExclusiveClaim' /\ PhaseOfSlot' /\ ToolOfPc'
    BY <1>1 DEF Launch, IInv, TypeOK, ExclusiveClaim, Claims, PhaseOfSlot, ToolOfPc
  <2>3. ThreadOwnsSlot' /\ ThreadOfPc'
    BY <1>1 DEF Launch, IInv, TypeOK, ThreadOwnsSlot, ThreadOfPc, Alive, ExclusiveClaim, Claims, ToolOfPc
  <2>4. LiveAnswerIsTrue' /\ FileOfThread' /\ ReadyOfPc'
    BY <1>1 DEF Launch, IInv, TypeOK, LiveAnswerIsTrue, FileOfThread, ReadyOfPc, ExclusiveClaim, Claims, ToolOfPc, PhaseOfSlot, ThreadOfPc
  <2> QED BY <2>1, <2>2, <2>3, <2>4 DEF IInv
<1>2. CASE LaunchFails(w)
  <2>1. TypeOK'
    BY <1>2 DEF LaunchFails, IInv, TypeOK
  <2>2. ExclusiveClaim' /\ PhaseOfSlot' /\ ToolOfPc'
    BY <1>2 DEF LaunchFails, IInv, TypeOK, ExclusiveClaim, Claims, PhaseOfSlot, ToolOfPc
  <2>3. ThreadOwnsSlot' /\ ThreadOfPc'
    BY <1>2 DEF LaunchFails, IInv, TypeOK, ThreadOwnsSlot, ThreadOfPc, Alive, ExclusiveClaim, Claims, ToolOfPc
  <2>4. LiveAnswerIsTrue' /\ FileOfThread' /\ ReadyOfPc'
    BY <1>2 DEF LaunchFails, IInv, TypeOK, LiveAnswerIsTrue, FileOfThread, ReadyOfPc, ExclusiveClaim, Claims, ToolOfPc, PhaseOfSlot, ThreadOfPc
  <2> QED BY <2>1, <2>2, <2>3, <2>4 DEF IInv
<1>3. CASE WaitReturns(w)
  <2>1. TypeOK'
    BY <1>3 DEF WaitReturns, StartRaises, Finished, IInv, TypeOK
  <2>2. ExclusiveClaim' /\ PhaseOfSlot' /\ ToolOfPc'
    BY <1>3 DEF WaitReturns, StartRaises, Finished, IInv, TypeOK, ExclusiveClaim, Claims, PhaseOfSlot, ToolOfPc
  <2>3. ThreadOwnsSlot' /\ ThreadOfPc'
    BY <1>3 DEF WaitReturns, StartRaises, Finished, IInv, TypeOK, ThreadOwnsSlot, ThreadOfPc, Alive, ExclusiveClaim, Claims, ToolOfPc
  <2>4. LiveAnswerIsTrue' /\ FileOfThread' /\ ReadyOfPc'
    BY <1>3 DEF WaitReturns, StartRaises, Finished, IInv, TypeOK, LiveAnswerIsTrue, FileOfThread, ReadyOfPc, ExclusiveClaim, Claims, ToolOfPc, PhaseOfSlot, ThreadOfPc
  <2> QED BY <2>1, <2>2, <2>3, <2>4 DEF IInv
<1>4. CASE WaitExpires(w)
  <2>1. TypeOK'
    BY <1>4 DEF WaitExpires, Finished, IInv, TypeOK
  <2>2. ExclusiveClaim' /\ PhaseOfSlot' /\ ToolOfPc'
    BY <1>4 DEF WaitExpires, Finished, IInv, TypeOK, ExclusiveClaim, Claims, PhaseOfSlot, ToolOfPc
  <2>3. ThreadOwnsSlot' /\ ThreadOfPc'
    BY <1>4 DEF WaitExpires, Finished, IInv, TypeOK, ThreadOwnsSlot, ThreadOfPc, Alive, ExclusiveClaim, Claims, ToolOfPc
  <2>4. LiveAnswerIsTrue' /\ FileOfThread' /\ ReadyOfPc'
    BY <1>4 DEF WaitExpires, Finished, IInv, TypeOK, LiveAnswerIsTrue, FileOfThread, ReadyOfPc, ExclusiveClaim, Claims, ToolOfPc, PhaseOfSlot, ThreadOfPc
  <2> QED BY <2>1, <2>2, <2>3, <2>4 DEF IInv
<1>5. CASE CheckReady(w)
  <2>1. TypeOK'
    BY <1>5 DEF CheckReady, IInv, TypeOK
  <2>2. ExclusiveClaim' /\ PhaseOfSlot' /\ ToolOfPc'
    BY <1>5 DEF CheckReady, IInv, TypeOK, ExclusiveClaim, Claims, PhaseOfSlot, ToolOfPc
  <2>3. ThreadOwnsSlot' /\ ThreadOfPc'
    BY <1>5 DEF CheckReady, IInv, TypeOK, ThreadOwnsSlot, ThreadOfPc, Alive, ExclusiveClaim, Claims, ToolOfPc
  <2>4. LiveAnswerIsTrue' /\ FileOfThread' /\ ReadyOfPc'
    BY <1>5 DEF CheckReady, IInv, TypeOK, LiveAnswerIsTrue, FileOfThread, ReadyOfPc, ExclusiveClaim, Claims, ToolOfPc, PhaseOfSlot, ThreadOfPc
  <2> QED BY <2>1, <2>2, <2>3, <2>4 DEF IInv
<1>6. CASE CheckExc(w)
  <2>1. TypeOK'
    BY <1>6 DEF CheckExc, StartRaises, IInv, TypeOK
  <2>2. ExclusiveClaim' /\ PhaseOfSlot' /\ ToolOfPc'
    BY <1>6 DEF CheckExc, StartRaises, IInv, TypeOK, ExclusiveClaim, Claims, PhaseOfSlot, ToolOfPc
  <2>3. ThreadOwnsSlot' /\ ThreadOfPc'
    BY <1>6 DEF CheckExc, StartRaises, IInv, TypeOK, ThreadOwnsSlot, ThreadOfPc, Alive, ExclusiveClaim, Claims, ToolOfPc
  <2>4. LiveAnswerIsTrue' /\ FileOfThread' /\ ReadyOfPc'
    BY <1>6 DEF CheckExc, StartRaises, IInv, TypeOK, LiveAnswerIsTrue, FileOfThread, ReadyOfPc, ExclusiveClaim, Claims, ToolOfPc, PhaseOfSlot, ThreadOfPc
  <2> QED BY <2>1, <2>2, <2>3, <2>4 DEF IInv
<1>7. CASE Confirm(w)
  <2>1. TypeOK'
    BY <1>7 DEF Confirm, IsRunning, Finished, IInv, TypeOK
  <2>2. ExclusiveClaim' /\ PhaseOfSlot' /\ ToolOfPc'
    BY <1>7 DEF Confirm, IsRunning, Finished, IInv, TypeOK, ExclusiveClaim, Claims, PhaseOfSlot, ToolOfPc
  <2>3. ThreadOwnsSlot' /\ ThreadOfPc'
    BY <1>7 DEF Confirm, IsRunning, Finished, IInv, TypeOK, ThreadOwnsSlot, ThreadOfPc, Alive, ExclusiveClaim, Claims, ToolOfPc
  <2>4. LiveAnswerIsTrue' /\ FileOfThread' /\ ReadyOfPc'
    BY <1>7 DEF Confirm, IsRunning, Finished, IInv, TypeOK, LiveAnswerIsTrue, FileOfThread, ReadyOfPc, ExclusiveClaim, Claims, ToolOfPc, PhaseOfSlot, ThreadOfPc
  <2> QED BY <2>1, <2>2, <2>3, <2>4 DEF IInv
<1>8. CASE MarkRunning(w)
  <2>1. TypeOK'
    <3>1. slot = claim[w]
      BY <1>8 DEF MarkRunning, IInv, TypeOK, ExclusiveClaim, Claims, ToolOfPc
    <3>2. Return(w) /\ phase' = "running" /\ told' = [told EXCEPT ![claim[w]] = "live"]
      BY <1>8, <3>1 DEF MarkRunning
    <3> QED BY <1>8, <3>2, ReturnTypes DEF MarkRunning, IInv, TypeOK
  <2>2. ExclusiveClaim' /\ PhaseOfSlot' /\ ToolOfPc'
    BY <1>8 DEF MarkRunning, IInv, TypeOK, ExclusiveClaim, Claims, PhaseOfSlot, ToolOfPc
  <2>3. ThreadOwnsSlot' /\ ThreadOfPc'
    BY <1>8 DEF MarkRunning, IInv, TypeOK, ThreadOwnsSlot, ThreadOfPc, Alive, ExclusiveClaim, Claims, ToolOfPc
  <2>4. LiveAnswerIsTrue' /\ FileOfThread' /\ ReadyOfPc'
    BY <1>8 DEF MarkRunning, IInv, TypeOK, LiveAnswerIsTrue, FileOfThread, ReadyOfPc, ExclusiveClaim, Claims, ToolOfPc, PhaseOfSlot, ThreadOfPc
  <2> QED BY <2>1, <2>2, <2>3, <2>4 DEF IInv
<1> QED BY <1>1, <1>2, <1>3, <1>4, <1>5, <1>6, <1>7, <1>8 DEF StartStep

(* stop_capture, the cleanup of start_capture, and both finally clauses. *)
LEMMA StopKeepsIInv ==
  ASSUME IInv, NEW w \in Workers, StopStep(w)
  PROVE  IInv'
<1>1. CASE SignalStop(w)
  <2>1. TypeOK'
    BY <1>1 DEF SignalStop, IInv, TypeOK
  <2>2. ExclusiveClaim' /\ PhaseOfSlot' /\ ToolOfPc'
    BY <1>1 DEF SignalStop, IInv, TypeOK, ExclusiveClaim, Claims, PhaseOfSlot, ToolOfPc
  <2>3. ThreadOwnsSlot' /\ ThreadOfPc'
    BY <1>1 DEF SignalStop, IInv, TypeOK, ThreadOwnsSlot, ThreadOfPc, Alive, ExclusiveClaim, Claims, ToolOfPc
  <2>4. LiveAnswerIsTrue' /\ FileOfThread' /\ ReadyOfPc'
    BY <1>1 DEF SignalStop, IInv, TypeOK, LiveAnswerIsTrue, FileOfThread, ReadyOfPc, ExclusiveClaim, Claims, ToolOfPc, PhaseOfSlot, ThreadOfPc
  <2> QED BY <2>1, <2>2, <2>3, <2>4 DEF IInv
<1>2. CASE StopJoins(w)
  <2>1. TypeOK'
    BY <1>2 DEF StopJoins, Alive, IInv, TypeOK
  <2>2. ExclusiveClaim' /\ PhaseOfSlot' /\ ToolOfPc'
    BY <1>2 DEF StopJoins, Alive, IInv, TypeOK, ExclusiveClaim, Claims, PhaseOfSlot, ToolOfPc
  <2>3. ThreadOwnsSlot' /\ ThreadOfPc'
    BY <1>2 DEF StopJoins, Alive, IInv, TypeOK, ThreadOwnsSlot, ThreadOfPc, Alive, ExclusiveClaim, Claims, ToolOfPc
  <2>4. LiveAnswerIsTrue' /\ FileOfThread' /\ ReadyOfPc'
    BY <1>2 DEF StopJoins, Alive, IInv, TypeOK, LiveAnswerIsTrue, FileOfThread, ReadyOfPc, ExclusiveClaim, Claims, ToolOfPc, PhaseOfSlot, ThreadOfPc
  <2> QED BY <2>1, <2>2, <2>3, <2>4 DEF IInv
<1>3. CASE StopJoinExpires(w)
  <2>1. TypeOK'
    BY <1>3 DEF StopJoinExpires, Alive, IInv, TypeOK
  <2>2. ExclusiveClaim' /\ PhaseOfSlot' /\ ToolOfPc'
    BY <1>3 DEF StopJoinExpires, Alive, IInv, TypeOK, ExclusiveClaim, Claims, PhaseOfSlot, ToolOfPc
  <2>3. ThreadOwnsSlot' /\ ThreadOfPc'
    BY <1>3 DEF StopJoinExpires, Alive, IInv, TypeOK, ThreadOwnsSlot, ThreadOfPc, Alive, ExclusiveClaim, Claims, ToolOfPc
  <2>4. LiveAnswerIsTrue' /\ FileOfThread' /\ ReadyOfPc'
    BY <1>3 DEF StopJoinExpires, Alive, IInv, TypeOK, LiveAnswerIsTrue, FileOfThread, ReadyOfPc, ExclusiveClaim, Claims, ToolOfPc, PhaseOfSlot, ThreadOfPc
  <2> QED BY <2>1, <2>2, <2>3, <2>4 DEF IInv
<1>4. CASE CleanupFailed(w)
  <2>1. TypeOK'
    BY <1>4 DEF CleanupFailed, Alive, IInv, TypeOK
  <2>2. ExclusiveClaim' /\ PhaseOfSlot' /\ ToolOfPc'
    BY <1>4 DEF CleanupFailed, Alive, IInv, TypeOK, ExclusiveClaim, Claims, PhaseOfSlot, ToolOfPc
  <2>3. ThreadOwnsSlot' /\ ThreadOfPc'
    BY <1>4 DEF CleanupFailed, Alive, IInv, TypeOK, ThreadOwnsSlot, ThreadOfPc, Alive, ExclusiveClaim, Claims, ToolOfPc
  <2>4. LiveAnswerIsTrue' /\ FileOfThread' /\ ReadyOfPc'
    BY <1>4 DEF CleanupFailed, Alive, IInv, TypeOK, LiveAnswerIsTrue, FileOfThread, ReadyOfPc, ExclusiveClaim, Claims, ToolOfPc, PhaseOfSlot, ThreadOfPc
  <2> QED BY <2>1, <2>2, <2>3, <2>4 DEF IInv
<1>5. CASE CheckOwner(w)
  <2>1. TypeOK'
    BY <1>5 DEF CheckOwner, IInv, TypeOK
  <2>2. ExclusiveClaim' /\ PhaseOfSlot' /\ ToolOfPc'
    BY <1>5 DEF CheckOwner, IInv, TypeOK, ExclusiveClaim, Claims, PhaseOfSlot, ToolOfPc
  <2>3. ThreadOwnsSlot' /\ ThreadOfPc'
    BY <1>5 DEF CheckOwner, IInv, TypeOK, ThreadOwnsSlot, ThreadOfPc, Alive, ExclusiveClaim, Claims, ToolOfPc
  <2>4. LiveAnswerIsTrue' /\ FileOfThread' /\ ReadyOfPc'
    BY <1>5 DEF CheckOwner, IInv, TypeOK, LiveAnswerIsTrue, FileOfThread, ReadyOfPc, ExclusiveClaim, Claims, ToolOfPc, PhaseOfSlot, ThreadOfPc
  <2> QED BY <2>1, <2>2, <2>3, <2>4 DEF IInv
<1>6. CASE Collect(w)
  <2>1. TypeOK'
    BY <1>6 DEF Collect, IInv, TypeOK
  <2>2. ExclusiveClaim' /\ PhaseOfSlot' /\ ToolOfPc'
    BY <1>6 DEF Collect, IInv, TypeOK, ExclusiveClaim, Claims, PhaseOfSlot, ToolOfPc
  <2>3. ThreadOwnsSlot' /\ ThreadOfPc'
    BY <1>6 DEF Collect, IInv, TypeOK, ThreadOwnsSlot, ThreadOfPc, Alive, ExclusiveClaim, Claims, ToolOfPc
  <2>4. LiveAnswerIsTrue' /\ FileOfThread' /\ ReadyOfPc'
    BY <1>6 DEF Collect, IInv, TypeOK, LiveAnswerIsTrue, FileOfThread, ReadyOfPc, ExclusiveClaim, Claims, ToolOfPc, PhaseOfSlot, ThreadOfPc
  <2> QED BY <2>1, <2>2, <2>3, <2>4 DEF IInv
<1>7. CASE Summarize(w)
  <2>1. TypeOK'
    BY <1>7 DEF Summarize, IInv, TypeOK
  <2>2. ExclusiveClaim' /\ PhaseOfSlot' /\ ToolOfPc'
    BY <1>7 DEF Summarize, IInv, TypeOK, ExclusiveClaim, Claims, PhaseOfSlot, ToolOfPc
  <2>3. ThreadOwnsSlot' /\ ThreadOfPc'
    BY <1>7 DEF Summarize, IInv, TypeOK, ThreadOwnsSlot, ThreadOfPc, Alive, ExclusiveClaim, Claims, ToolOfPc
  <2>4. LiveAnswerIsTrue' /\ FileOfThread' /\ ReadyOfPc'
    BY <1>7 DEF Summarize, IInv, TypeOK, LiveAnswerIsTrue, FileOfThread, ReadyOfPc, ExclusiveClaim, Claims, ToolOfPc, PhaseOfSlot, ThreadOfPc
  <2> QED BY <2>1, <2>2, <2>3, <2>4 DEF IInv
<1>8. CASE Finally(w)
  <2>1. TypeOK'
    BY <1>8 DEF Finally, Alive, IInv, TypeOK
  <2>2. ExclusiveClaim' /\ PhaseOfSlot' /\ ToolOfPc'
    BY <1>8 DEF Finally, Alive, IInv, TypeOK, ExclusiveClaim, Claims, PhaseOfSlot, ToolOfPc
  <2>3. ThreadOwnsSlot' /\ ThreadOfPc'
    BY <1>8 DEF Finally, Alive, IInv, TypeOK, ThreadOwnsSlot, ThreadOfPc, Alive, ExclusiveClaim, Claims, ToolOfPc
  <2>4. LiveAnswerIsTrue' /\ FileOfThread' /\ ReadyOfPc'
    BY <1>8 DEF Finally, Alive, IInv, TypeOK, LiveAnswerIsTrue, FileOfThread, ReadyOfPc, ExclusiveClaim, Claims, ToolOfPc, PhaseOfSlot, ThreadOfPc
  <2> QED BY <2>1, <2>2, <2>3, <2>4 DEF IInv
<1>9. CASE Keep(w)
  <2>1. TypeOK'
    BY <1>9 DEF Keep, IInv, TypeOK, Nothing, Content, ExclusiveClaim, Claims, PhaseOfSlot, ToolOfPc
  <2>2. ExclusiveClaim' /\ PhaseOfSlot' /\ ToolOfPc'
    BY <1>9 DEF Keep, IInv, TypeOK, ExclusiveClaim, Claims, PhaseOfSlot, ToolOfPc
  <2>3. ThreadOwnsSlot' /\ ThreadOfPc'
    BY <1>9 DEF Keep, IInv, TypeOK, ThreadOwnsSlot, ThreadOfPc, Alive, ExclusiveClaim, Claims, ToolOfPc
  <2>4. LiveAnswerIsTrue' /\ FileOfThread' /\ ReadyOfPc'
    BY <1>9 DEF Keep, IInv, TypeOK, LiveAnswerIsTrue, FileOfThread, ReadyOfPc, ExclusiveClaim, Claims, ToolOfPc, PhaseOfSlot, ThreadOfPc
  <2> QED BY <2>1, <2>2, <2>3, <2>4 DEF IInv
<1>10. CASE Free(w)
  <2>1. TypeOK'
    BY <1>10 DEF Free, IInv, TypeOK, Nothing, Content, ExclusiveClaim, Claims, PhaseOfSlot, ToolOfPc
  <2>2. ExclusiveClaim' /\ PhaseOfSlot' /\ ToolOfPc'
    BY <1>10 DEF Free, IInv, TypeOK, ExclusiveClaim, Claims, PhaseOfSlot, ToolOfPc
  <2>3. ThreadOwnsSlot' /\ ThreadOfPc'
    BY <1>10 DEF Free, IInv, TypeOK, ThreadOwnsSlot, ThreadOfPc, Alive, ExclusiveClaim, Claims, ToolOfPc
  <2>4. LiveAnswerIsTrue' /\ FileOfThread' /\ ReadyOfPc'
    BY <1>10 DEF Free, IInv, TypeOK, LiveAnswerIsTrue, FileOfThread, ReadyOfPc, ExclusiveClaim, Claims, ToolOfPc, PhaseOfSlot, ThreadOfPc
  <2> QED BY <2>1, <2>2, <2>3, <2>4 DEF IInv
<1> QED BY <1>1, <1>2, <1>3, <1>4, <1>5, <1>6, <1>7, <1>8, <1>9, <1>10 DEF StopStep

(* Loading a file, by load_capture or at the end of stop_capture. *)
LEMMA LoadKeepsIInv ==
  ASSUME IInv, NEW w \in Workers, LoadStep(w)
  PROVE  IInv'
<1>1. ASSUME NEW p \in Paths, ReadFile(w, p) PROVE IInv'
  <2>1. TypeOK'
    BY <1>1 DEF ReadFile, ContentAt, Sealed, IInv, TypeOK, Content
  <2>2. ExclusiveClaim' /\ PhaseOfSlot' /\ ToolOfPc'
    BY <1>1 DEF ReadFile, ContentAt, Sealed, IInv, TypeOK, ExclusiveClaim, Claims, PhaseOfSlot, ToolOfPc
  <2>3. ThreadOwnsSlot' /\ ThreadOfPc'
    BY <1>1 DEF ReadFile, ContentAt, Sealed, IInv, TypeOK, ThreadOwnsSlot, ThreadOfPc, Alive, ExclusiveClaim, Claims, ToolOfPc
  <2>4. LiveAnswerIsTrue' /\ FileOfThread' /\ ReadyOfPc'
    BY <1>1 DEF ReadFile, ContentAt, Sealed, IInv, TypeOK, LiveAnswerIsTrue, FileOfThread, ReadyOfPc, ExclusiveClaim, Claims, ToolOfPc, PhaseOfSlot, ThreadOfPc
  <2> QED BY <2>1, <2>2, <2>3, <2>4 DEF IInv
<1>2. CASE ReadFails(w)
  <2>1. TypeOK'
    <3>1. CASE tool[w] = "stop"
      BY <1>2, <3>1 DEF ReadFails, IInv, TypeOK
    <3>2. CASE tool[w] # "stop"
      <4>1. Return(w)
        BY <1>2, <3>2 DEF ReadFails
      <4> QED BY <1>2, <4>1, ReturnTypes DEF ReadFails, IInv, TypeOK
    <3> QED BY <3>1, <3>2
  <2>2. ExclusiveClaim' /\ PhaseOfSlot' /\ ToolOfPc'
    BY <1>2 DEF ReadFails, IInv, TypeOK, ExclusiveClaim, Claims, PhaseOfSlot, ToolOfPc
  <2>3. ThreadOwnsSlot' /\ ThreadOfPc'
    BY <1>2 DEF ReadFails, IInv, TypeOK, ThreadOwnsSlot, ThreadOfPc, Alive, ExclusiveClaim, Claims, ToolOfPc
  <2>4. LiveAnswerIsTrue' /\ FileOfThread' /\ ReadyOfPc'
    BY <1>2 DEF ReadFails, IInv, TypeOK, LiveAnswerIsTrue, FileOfThread, ReadyOfPc, ExclusiveClaim, Claims, ToolOfPc, PhaseOfSlot, ThreadOfPc
  <2> QED BY <2>1, <2>2, <2>3, <2>4 DEF IInv
<1>3. CASE Publish(w)
  <2>1. TypeOK'
    <3>1. CASE tool[w] = "stop"
      BY <1>3, <3>1 DEF Publish, IInv, TypeOK
    <3>2. CASE tool[w] # "stop"
      <4>1. Return(w)
        BY <1>3, <3>2 DEF Publish
      <4> QED BY <1>3, <4>1, ReturnTypes DEF Publish, IInv, TypeOK
    <3> QED BY <3>1, <3>2
  <2>2. ExclusiveClaim' /\ PhaseOfSlot' /\ ToolOfPc'
    BY <1>3 DEF Publish, IInv, TypeOK, ExclusiveClaim, Claims, PhaseOfSlot, ToolOfPc
  <2>3. ThreadOwnsSlot' /\ ThreadOfPc'
    BY <1>3 DEF Publish, IInv, TypeOK, ThreadOwnsSlot, ThreadOfPc, Alive, ExclusiveClaim, Claims, ToolOfPc
  <2>4. LiveAnswerIsTrue' /\ FileOfThread' /\ ReadyOfPc'
    BY <1>3 DEF Publish, IInv, TypeOK, LiveAnswerIsTrue, FileOfThread, ReadyOfPc, ExclusiveClaim, Claims, ToolOfPc, PhaseOfSlot, ThreadOfPc
  <2> QED BY <2>1, <2>2, <2>3, <2>4 DEF IInv
<1> QED BY <1>1, <1>2, <1>3 DEF LoadStep

(* The capture thread. *)
LEMMA ThreadKeepsIInv ==
  ASSUME IInv, NEW c \in Captures,
         OpenSource(c) \/ RecordingFails(c) \/ ThreadStep(c)
  PROVE  IInv'
<1>1. CASE OpenSource(c)
  <2>1. TypeOK'
    BY <1>1 DEF OpenSource, Ends, Advance, IInv, TypeOK
  <2>2. ExclusiveClaim' /\ PhaseOfSlot' /\ ToolOfPc'
    BY <1>1 DEF OpenSource, Ends, Advance, IInv, TypeOK, ExclusiveClaim, Claims, PhaseOfSlot, ToolOfPc
  <2>3. ThreadOwnsSlot' /\ ThreadOfPc'
    BY <1>1 DEF OpenSource, Ends, Advance, IInv, TypeOK, ThreadOwnsSlot, ThreadOfPc, Alive, ExclusiveClaim, Claims, ToolOfPc
  <2>4. LiveAnswerIsTrue' /\ FileOfThread' /\ ReadyOfPc'
    BY <1>1 DEF OpenSource, Ends, Advance, IInv, TypeOK, LiveAnswerIsTrue, FileOfThread, ReadyOfPc, ExclusiveClaim, Claims, ToolOfPc, PhaseOfSlot, ThreadOfPc
  <2> QED BY <2>1, <2>2, <2>3, <2>4 DEF IInv
<1>2. CASE RecordingFails(c)
  <2>1. TypeOK'
    BY <1>2 DEF RecordingFails, Ends, IInv, TypeOK
  <2>2. ExclusiveClaim' /\ PhaseOfSlot' /\ ToolOfPc'
    BY <1>2 DEF RecordingFails, Ends, IInv, TypeOK, ExclusiveClaim, Claims, PhaseOfSlot, ToolOfPc
  <2>3. ThreadOwnsSlot' /\ ThreadOfPc'
    BY <1>2 DEF RecordingFails, Ends, IInv, TypeOK, ThreadOwnsSlot, ThreadOfPc, Alive, ExclusiveClaim, Claims, ToolOfPc
  <2>4. LiveAnswerIsTrue' /\ FileOfThread' /\ ReadyOfPc'
    BY <1>2 DEF RecordingFails, Ends, IInv, TypeOK, LiveAnswerIsTrue, FileOfThread, ReadyOfPc, ExclusiveClaim, Claims, ToolOfPc, PhaseOfSlot, ThreadOfPc
  <2> QED BY <2>1, <2>2, <2>3, <2>4 DEF IInv
<1>3. CASE ProbeOutput(c)
  <2>1. TypeOK'
    BY <1>3 DEF ProbeOutput, Ends, Advance, IInv, TypeOK
  <2>2. ExclusiveClaim' /\ PhaseOfSlot' /\ ToolOfPc'
    BY <1>3 DEF ProbeOutput, Ends, Advance, IInv, TypeOK, ExclusiveClaim, Claims, PhaseOfSlot, ToolOfPc
  <2>3. ThreadOwnsSlot' /\ ThreadOfPc'
    BY <1>3 DEF ProbeOutput, Ends, Advance, IInv, TypeOK, ThreadOwnsSlot, ThreadOfPc, Alive, ExclusiveClaim, Claims, ToolOfPc
  <2>4. LiveAnswerIsTrue' /\ FileOfThread' /\ ReadyOfPc'
    BY <1>3 DEF ProbeOutput, Ends, Advance, IInv, TypeOK, LiveAnswerIsTrue, FileOfThread, ReadyOfPc, ExclusiveClaim, Claims, ToolOfPc, PhaseOfSlot, ThreadOfPc
  <2> QED BY <2>1, <2>2, <2>3, <2>4 DEF IInv
<1>4. CASE StopTest(c)
  <2>1. TypeOK'
    BY <1>4 DEF StopTest, Ends, Advance, IInv, TypeOK
  <2>2. ExclusiveClaim' /\ PhaseOfSlot' /\ ToolOfPc'
    BY <1>4 DEF StopTest, Ends, Advance, IInv, TypeOK, ExclusiveClaim, Claims, PhaseOfSlot, ToolOfPc
  <2>3. ThreadOwnsSlot' /\ ThreadOfPc'
    BY <1>4 DEF StopTest, Ends, Advance, IInv, TypeOK, ThreadOwnsSlot, ThreadOfPc, Alive, ExclusiveClaim, Claims, ToolOfPc
  <2>4. LiveAnswerIsTrue' /\ FileOfThread' /\ ReadyOfPc'
    BY <1>4 DEF StopTest, Ends, Advance, IInv, TypeOK, LiveAnswerIsTrue, FileOfThread, ReadyOfPc, ExclusiveClaim, Claims, ToolOfPc, PhaseOfSlot, ThreadOfPc
  <2> QED BY <2>1, <2>2, <2>3, <2>4 DEF IInv
<1>5. CASE CreateOutput(c)
  <2>1. TypeOK'
    BY <1>5 DEF CreateOutput, Ends, Advance, IInv, TypeOK
  <2>2. ExclusiveClaim' /\ PhaseOfSlot' /\ ToolOfPc'
    BY <1>5 DEF CreateOutput, Ends, Advance, IInv, TypeOK, ExclusiveClaim, Claims, PhaseOfSlot, ToolOfPc
  <2>3. ThreadOwnsSlot' /\ ThreadOfPc'
    BY <1>5 DEF CreateOutput, Ends, Advance, IInv, TypeOK, ThreadOwnsSlot, ThreadOfPc, Alive, ExclusiveClaim, Claims, ToolOfPc
  <2>4. LiveAnswerIsTrue' /\ FileOfThread' /\ ReadyOfPc'
    BY <1>5 DEF CreateOutput, Ends, Advance, IInv, TypeOK, LiveAnswerIsTrue, FileOfThread, ReadyOfPc, ExclusiveClaim, Claims, ToolOfPc, PhaseOfSlot, ThreadOfPc
  <2> QED BY <2>1, <2>2, <2>3, <2>4 DEF IInv
<1>6. CASE CreateFails(c)
  <2>1. TypeOK'
    BY <1>6 DEF CreateFails, Ends, IInv, TypeOK
  <2>2. ExclusiveClaim' /\ PhaseOfSlot' /\ ToolOfPc'
    BY <1>6 DEF CreateFails, Ends, IInv, TypeOK, ExclusiveClaim, Claims, PhaseOfSlot, ToolOfPc
  <2>3. ThreadOwnsSlot' /\ ThreadOfPc'
    BY <1>6 DEF CreateFails, Ends, IInv, TypeOK, ThreadOwnsSlot, ThreadOfPc, Alive, ExclusiveClaim, Claims, ToolOfPc
  <2>4. LiveAnswerIsTrue' /\ FileOfThread' /\ ReadyOfPc'
    BY <1>6 DEF CreateFails, Ends, IInv, TypeOK, LiveAnswerIsTrue, FileOfThread, ReadyOfPc, ExclusiveClaim, Claims, ToolOfPc, PhaseOfSlot, ThreadOfPc
  <2> QED BY <2>1, <2>2, <2>3, <2>4 DEF IInv
<1>7. CASE GoLive(c)
  <2>1. TypeOK'
    BY <1>7 DEF GoLive, Advance, IInv, TypeOK
  <2>2. ExclusiveClaim' /\ PhaseOfSlot' /\ ToolOfPc'
    BY <1>7 DEF GoLive, Advance, IInv, TypeOK, ExclusiveClaim, Claims, PhaseOfSlot, ToolOfPc
  <2>3. ThreadOwnsSlot' /\ ThreadOfPc'
    BY <1>7 DEF GoLive, Advance, IInv, TypeOK, ThreadOwnsSlot, ThreadOfPc, Alive, ExclusiveClaim, Claims, ToolOfPc
  <2>4. LiveAnswerIsTrue' /\ FileOfThread' /\ ReadyOfPc'
    BY <1>7 DEF GoLive, Advance, IInv, TypeOK, LiveAnswerIsTrue, FileOfThread, ReadyOfPc, ExclusiveClaim, Claims, ToolOfPc, PhaseOfSlot, ThreadOfPc
  <2> QED BY <2>1, <2>2, <2>3, <2>4 DEF IInv
<1>8. CASE HeaderFails(c)
  <2>1. TypeOK'
    BY <1>8 DEF HeaderFails, Ends, IInv, TypeOK
  <2>2. ExclusiveClaim' /\ PhaseOfSlot' /\ ToolOfPc'
    BY <1>8 DEF HeaderFails, Ends, IInv, TypeOK, ExclusiveClaim, Claims, PhaseOfSlot, ToolOfPc
  <2>3. ThreadOwnsSlot' /\ ThreadOfPc'
    BY <1>8 DEF HeaderFails, Ends, IInv, TypeOK, ThreadOwnsSlot, ThreadOfPc, Alive, ExclusiveClaim, Claims, ToolOfPc
  <2>4. LiveAnswerIsTrue' /\ FileOfThread' /\ ReadyOfPc'
    BY <1>8 DEF HeaderFails, Ends, IInv, TypeOK, LiveAnswerIsTrue, FileOfThread, ReadyOfPc, ExclusiveClaim, Claims, ToolOfPc, PhaseOfSlot, ThreadOfPc
  <2> QED BY <2>1, <2>2, <2>3, <2>4 DEF IInv
<1>9. CASE WindUp(c)
  <2>1. TypeOK'
    BY <1>9 DEF WindUp, Ends, IInv, TypeOK
  <2>2. ExclusiveClaim' /\ PhaseOfSlot' /\ ToolOfPc'
    BY <1>9 DEF WindUp, Ends, IInv, TypeOK, ExclusiveClaim, Claims, PhaseOfSlot, ToolOfPc
  <2>3. ThreadOwnsSlot' /\ ThreadOfPc'
    BY <1>9 DEF WindUp, Ends, IInv, TypeOK, ThreadOwnsSlot, ThreadOfPc, Alive, ExclusiveClaim, Claims, ToolOfPc
  <2>4. LiveAnswerIsTrue' /\ FileOfThread' /\ ReadyOfPc'
    BY <1>9 DEF WindUp, Ends, IInv, TypeOK, LiveAnswerIsTrue, FileOfThread, ReadyOfPc, ExclusiveClaim, Claims, ToolOfPc, PhaseOfSlot, ThreadOfPc
  <2> QED BY <2>1, <2>2, <2>3, <2>4 DEF IInv
<1>10. CASE SetFinished(c)
  <2>1. TypeOK'
    BY <1>10 DEF SetFinished, Advance, IInv, TypeOK
  <2>2. ExclusiveClaim' /\ PhaseOfSlot' /\ ToolOfPc'
    BY <1>10 DEF SetFinished, Advance, IInv, TypeOK, ExclusiveClaim, Claims, PhaseOfSlot, ToolOfPc
  <2>3. ThreadOwnsSlot' /\ ThreadOfPc'
    BY <1>10 DEF SetFinished, Advance, IInv, TypeOK, ThreadOwnsSlot, ThreadOfPc, Alive, ExclusiveClaim, Claims, ToolOfPc
  <2>4. LiveAnswerIsTrue' /\ FileOfThread' /\ ReadyOfPc'
    BY <1>10 DEF SetFinished, Advance, IInv, TypeOK, LiveAnswerIsTrue, FileOfThread, ReadyOfPc, ExclusiveClaim, Claims, ToolOfPc, PhaseOfSlot, ThreadOfPc
  <2> QED BY <2>1, <2>2, <2>3, <2>4 DEF IInv
<1>11. CASE ThreadExits(c)
  <2>1. TypeOK'
    BY <1>11 DEF ThreadExits, Advance, IInv, TypeOK
  <2>2. ExclusiveClaim' /\ PhaseOfSlot' /\ ToolOfPc'
    BY <1>11 DEF ThreadExits, Advance, IInv, TypeOK, ExclusiveClaim, Claims, PhaseOfSlot, ToolOfPc
  <2>3. ThreadOwnsSlot' /\ ThreadOfPc'
    BY <1>11 DEF ThreadExits, Advance, IInv, TypeOK, ThreadOwnsSlot, ThreadOfPc, Alive, ExclusiveClaim, Claims, ToolOfPc
  <2>4. LiveAnswerIsTrue' /\ FileOfThread' /\ ReadyOfPc'
    BY <1>11 DEF ThreadExits, Advance, IInv, TypeOK, LiveAnswerIsTrue, FileOfThread, ReadyOfPc, ExclusiveClaim, Claims, ToolOfPc, PhaseOfSlot, ThreadOfPc
  <2> QED BY <2>1, <2>2, <2>3, <2>4 DEF IInv
<1> QED BY <1>1, <1>2, <1>3, <1>4, <1>5, <1>6, <1>7, <1>8, <1>9, <1>10, <1>11 DEF ThreadStep

(* Another program creates a file where there was none. *)
LEMMA ForeignKeepsIInv ==
  ASSUME IInv, NEW p \in Paths, ForeignWrite(p)
  PROVE  IInv'
BY DEF ForeignWrite, IInv, TypeOK, ThreadOwnsSlot, ExclusiveClaim, Claims,
       LiveAnswerIsTrue, PhaseOfSlot, ToolOfPc, ThreadOfPc, Alive, FileOfThread, ReadyOfPc

(* IInv is inductive. *)
LEMMA StepIInv == IInv /\ [Next]_vars => IInv'
<1> SUFFICES ASSUME IInv, [Next]_vars PROVE IInv'
  OBVIOUS
<1>1. ASSUME NEW w \in Workers, BeginLoad(w) \/ BeginStop(w) PROVE IInv'
  BY <1>1, EntryKeepsIInv
<1>2. ASSUME NEW w \in Workers, NEW c \in Captures, NEW p \in Paths, Reserve(w, c, p)
      PROVE  IInv'
  BY <1>2, EntryKeepsIInv
<1>3. ASSUME NEW w \in Workers, WorkerStep(w) PROVE IInv'
  BY <1>3, StartKeepsIInv, StopKeepsIInv, LoadKeepsIInv DEF WorkerStep
<1>4. ASSUME NEW c \in Captures, OpenSource(c) \/ RecordingFails(c) \/ ThreadStep(c)
      PROVE  IInv'
  BY <1>4, ThreadKeepsIInv
<1>5. ASSUME NEW p \in Paths, ForeignWrite(p) PROVE IInv'
  BY <1>5, ForeignKeepsIInv
<1>6. CASE UNCHANGED vars
  BY <1>6 DEF vars, IInv, TypeOK, ThreadOwnsSlot, ExclusiveClaim, Claims,
     LiveAnswerIsTrue, PhaseOfSlot, ToolOfPc, ThreadOfPc, Alive, FileOfThread, ReadyOfPc
<1> QED BY <1>1, <1>2, <1>3, <1>4, <1>5, <1>6 DEF Next

(***************************************************************************)
(* The inductive invariant holds in every reachable state.                 *)
(***************************************************************************)
THEOREM Invariance == Spec => []IInv
<1>1. Init => IInv
  BY InitIInv
<1>2. IInv /\ [Next]_vars => IInv'
  BY StepIInv
<1> QED BY <1>1, <1>2, PTL DEF Spec

(***************************************************************************)
(* Type correctness of the session, the workers and the capture threads.   *)
(***************************************************************************)
THEOREM TypeCorrect == Spec => []TypeOK
<1>1. IInv => TypeOK
  BY DEF IInv
<1> QED BY <1>1, Invariance, PTL

(***************************************************************************)
(* No start or stop call, however it fails, lets the session go while its  *)
(* capture thread lives, so at most one capture runs per session.          *)
(***************************************************************************)
THEOREM ThreadsOwnTheSlot == Spec => []ThreadOwnsSlot
<1>1. IInv => ThreadOwnsSlot
  BY DEF IInv
<1> QED BY <1>1, Invariance, PTL

(***************************************************************************)
(* One start or stop call at a time works on the slot, until its automatic *)
(* load is done, and a starting or stopping slot is never orphaned.        *)
(***************************************************************************)
THEOREM ClaimsAreExclusive == Spec => []ExclusiveClaim
<1>1. IInv => ExclusiveClaim
  BY DEF IInv
<1> QED BY <1>1, Invariance, PTL

(***************************************************************************)
(* A capture start_capture called live went live, owns its output file and *)
(* still holds the session.                                                *)
(***************************************************************************)
THEOREM LiveAnswersAreTrue == Spec => []LiveAnswerIsTrue
<1>1. IInv => LiveAnswerIsTrue
  BY DEF IInv
<1> QED BY <1>1, Invariance, PTL

-----------------------------------------------------------------------------
(* Files *)

(***************************************************************************)
(* No step overwrites or removes another program's file or the output of a *)
(* capture that went live, whatever fails and whoever creates files in the *)
(* moment between the existence test and the exclusive open.               *)
(***************************************************************************)
THEOREM FilesStaySafe == Spec => FilesAreSafe
<1> DEFINE Guarded(p) == file[p] = Foreign \/ \E c \in Captures : file[p] = c /\ ready[c]
<1>1. ASSUME IInv, [Next]_vars, NEW p \in Paths, Guarded(p)
      PROVE  file'[p] = file[p]
  <2>1. ASSUME NEW c \in Captures, CreateOutput(c) PROVE file'[p] = file[p]
    BY <1>1, <2>1 DEF CreateOutput, IInv, TypeOK
  <2>2. ASSUME NEW c \in Captures, HeaderFails(c) PROVE file'[p] = file[p]
    <3>1. file[dest[c]] = c /\ ~ready[c]
      BY <1>1, <2>2 DEF HeaderFails, IInv, FileOfThread
    <3>2. p # dest[c]
      BY <1>1, <3>1
    <3>3. file' = [file EXCEPT ![dest[c]] = NoFile] \/ UNCHANGED file
      BY <2>2 DEF HeaderFails
    <3>4. file \in [Paths -> {NoFile, Foreign} \cup Captures]
      BY <1>1 DEF IInv, TypeOK
    <3> QED BY <3>2, <3>3, <3>4
  <2>3. ASSUME NEW q \in Paths, ForeignWrite(q) PROVE file'[p] = file[p]
    BY <1>1, <2>3 DEF ForeignWrite, IInv, TypeOK
  <2>4. ASSUME NEW w \in Workers, BeginLoad(w) \/ BeginStop(w) \/ WorkerStep(w)
        PROVE  UNCHANGED file
    BY <2>4 DEF BeginLoad, BeginStop, WorkerStep, StartStep, StopStep, LoadStep, Launch,
       LaunchFails, WaitReturns, WaitExpires, CheckReady, CheckExc, Confirm, MarkRunning,
       SignalStop, StopJoins, StopJoinExpires, CleanupFailed, CheckOwner, Collect,
       Summarize, Finally, Keep, Free, ReadFile, ReadFails, Publish
  <2>5. ASSUME NEW w \in Workers, NEW c \in Captures, NEW q \in Paths, Reserve(w, c, q)
        PROVE  UNCHANGED file
    BY <2>5 DEF Reserve
  <2>6. ASSUME NEW c \in Captures,
               OpenSource(c) \/ RecordingFails(c) \/ ProbeOutput(c) \/ StopTest(c)
                 \/ CreateFails(c) \/ GoLive(c) \/ WindUp(c) \/ SetFinished(c)
                 \/ ThreadExits(c)
        PROVE  UNCHANGED file
    BY <2>6 DEF OpenSource, RecordingFails, ProbeOutput, StopTest, CreateFails, GoLive,
       WindUp, SetFinished, ThreadExits
  <2>7. CASE UNCHANGED vars
    BY <2>7 DEF vars
  <2> QED BY <1>1, <2>1, <2>2, <2>3, <2>4, <2>5, <2>6, <2>7 DEF Next, ThreadStep
<1>2. IInv /\ [Next]_vars
        => [\A p \in Paths : Guarded(p) => file'[p] = file[p]]_vars
  BY <1>1
<1> QED BY <1>2, Invariance, PTL DEF Spec, FilesAreSafe

-----------------------------------------------------------------------------
(* The slot implements CaptureLease. *)

Busy == phase \in {"starting", "stopping"}

(* A step that leaves the slot, its phase class and every life alone. *)
LEMMA LeaseStutter ==
  ASSUME UNCHANGED <<slot, phase, thread>>
  PROVE  UNCHANGED Lease!vars
BY DEF Lease!vars, Life

(* Entering a call acquires or claims the lease. *)
LEMMA EntryIsLease ==
  ASSUME IInv, NEW w \in Workers,
         BeginLoad(w) \/ BeginStop(w) \/ \E c \in Captures, p \in Paths : Reserve(w, c, p)
  PROVE  [Lease!Next]_(Lease!vars)
<1>1. CASE BeginLoad(w)
  BY <1>1, LeaseStutter DEF BeginLoad
<1>2. CASE BeginStop(w)
  <2>1. Lease!Claim
    BY <1>2 DEF BeginStop, Lease!Claim, Life
  <2> QED BY <2>1 DEF Lease!Next
<1>3. ASSUME NEW c \in Captures, NEW p \in Paths, Reserve(w, c, p)
      PROVE  [Lease!Next]_(Lease!vars)
  <2>1. Life(c) = "unborn"
    BY <1>3 DEF Reserve, IInv, ThreadOfPc, Life
  <2>2. Lease!Acquire(c)
    BY <1>3, <2>1 DEF Reserve, Lease!Acquire, Life
  <2> QED BY <2>2 DEF Lease!Next
<1> QED BY <1>1, <1>2, <1>3

(* Inside start_capture only the thread's launch and the successful return *)
(* move the lease.                                                         *)
LEMMA StartIsLease ==
  ASSUME IInv, NEW w \in Workers, StartStep(w)
  PROVE  [Lease!Next]_(Lease!vars)
<1>1. CASE Launch(w)
  <2>1. claim[w] \in Captures /\ slot = claim[w] /\ phase = "starting"
    BY <1>1 DEF Launch, IInv, TypeOK, ToolOfPc, ExclusiveClaim, Claims, PhaseOfSlot
  <2>2. thread[claim[w]] = "unborn"
    BY <1>1 DEF Launch, IInv, ThreadOfPc
  <2>3. Lease!Spawn(claim[w])
    BY <1>1, <2>1, <2>2 DEF Launch, Lease!Spawn, Life, IInv, TypeOK
  <2> QED BY <2>1, <2>3 DEF Lease!Next
<1>2. CASE MarkRunning(w)
  <2>1. slot = claim[w] /\ slot # NoCapture /\ phase = "starting"
    BY <1>2 DEF MarkRunning, IInv, TypeOK, ToolOfPc, ExclusiveClaim, Claims, PhaseOfSlot
  <2>2. Lease!Park
    BY <1>2, <2>1 DEF MarkRunning, Lease!Park, Life
  <2> QED BY <2>2 DEF Lease!Next
<1>3. CASE LaunchFails(w) \/ WaitReturns(w) \/ WaitExpires(w) \/ CheckReady(w)
             \/ CheckExc(w) \/ Confirm(w)
  BY <1>3, LeaseStutter DEF LaunchFails, WaitReturns, WaitExpires, CheckReady, CheckExc,
     Confirm
<1> QED BY <1>1, <1>2, <1>3 DEF StartStep

(* The finally clauses park or release the lease, the rest leaves it alone. *)
LEMMA StopIsLease ==
  ASSUME IInv, NEW w \in Workers, StopStep(w)
  PROVE  [Lease!Next]_(Lease!vars)
<1>1. ASSUME pc[w] \in {"keep", "free"}
      PROVE  slot = claim[w] /\ slot \in Captures /\ Busy
  BY <1>1 DEF IInv, TypeOK, ToolOfPc, ExclusiveClaim, Claims, PhaseOfSlot, Busy
<1>2. CASE Keep(w)
  <2>1. Lease!Park
    BY <1>1, <1>2 DEF Keep, Lease!Park, Life, Busy
  <2> QED BY <2>1 DEF Lease!Next
<1>3. CASE Free(w)
  <2>1. Life(slot) # "alive"
    BY <1>1, <1>3 DEF Free, IInv, TypeOK, ThreadOfPc, Alive, Life
  <2>2. Lease!Release
    BY <1>1, <1>3, <2>1 DEF Free, Lease!Release, Life, Busy
  <2> QED BY <2>2 DEF Lease!Next
<1>4. CASE SignalStop(w) \/ StopJoins(w) \/ StopJoinExpires(w) \/ CleanupFailed(w)
             \/ CheckOwner(w) \/ Collect(w) \/ Summarize(w) \/ Finally(w)
  BY <1>4, LeaseStutter DEF SignalStop, StopJoins, StopJoinExpires, CleanupFailed,
     CheckOwner, Collect, Summarize, Finally
<1> QED BY <1>2, <1>3, <1>4 DEF StopStep

(* Loading a file does not touch the lease. *)
LEMMA LoadIsLease ==
  ASSUME NEW w \in Workers, LoadStep(w)
  PROVE  [Lease!Next]_(Lease!vars)
BY LeaseStutter DEF LoadStep, ReadFile, ReadFails, Publish

(* Of the thread's steps only its end is visible in the lease. *)
LEMMA ThreadIsLease ==
  ASSUME IInv, NEW c \in Captures,
         OpenSource(c) \/ RecordingFails(c) \/ ThreadStep(c)
  PROVE  [Lease!Next]_(Lease!vars)
<1>1. CASE ThreadExits(c)
  <2>1. Lease!Die(c)
    BY <1>1 DEF ThreadExits, Advance, Lease!Die, Life, IInv, TypeOK
  <2> QED BY <2>1 DEF Lease!Next
<1>2. ASSUME ~ThreadExits(c) PROVE UNCHANGED Lease!vars
  <2>1. UNCHANGED <<slot, phase>>
    BY <1>2 DEF OpenSource, RecordingFails, ThreadStep, ProbeOutput, StopTest, CreateOutput,
       CreateFails, GoLive, HeaderFails, WindUp, SetFinished
  <2>2. \E s \in {"opening", "opened", "creating", "created", "live", "ending", "exiting"} :
          /\ thread[c] \notin {"unborn", "dead"}
          /\ thread' = [thread EXCEPT ![c] = s]
    BY <1>2 DEF OpenSource, RecordingFails, ThreadStep, ProbeOutput, StopTest, CreateOutput,
       CreateFails, GoLive, HeaderFails, WindUp, SetFinished, Ends, Advance
  <2>3. \A d \in Captures : Life(d)' = Life(d)
    BY <2>2 DEF Life, IInv, TypeOK
  <2> QED BY <2>1, <2>3 DEF Lease!vars
<1> QED BY <1>1, <1>2

(***************************************************************************)
(* The session's slot is a lease: a capture acquires it once, its thread   *)
(* is spawned and lives only under it, and no call, failure or timeout     *)
(* releases it before that thread is gone.                                 *)
(***************************************************************************)
THEOREM SlotIsLease == Spec => LeaseSpec
<1>1. Init => Lease!Init
  BY DEF Init, Lease!Init, Life
<1>2. IInv /\ [Next]_vars => [Lease!Next]_(Lease!vars)
  <2> SUFFICES ASSUME IInv, [Next]_vars PROVE [Lease!Next]_(Lease!vars)
    OBVIOUS
  <2>1. ASSUME NEW w \in Workers, BeginLoad(w) \/ BeginStop(w)
        PROVE  [Lease!Next]_(Lease!vars)
    BY <2>1, EntryIsLease
  <2>2. ASSUME NEW w \in Workers, NEW c \in Captures, NEW p \in Paths, Reserve(w, c, p)
        PROVE  [Lease!Next]_(Lease!vars)
    BY <2>2, EntryIsLease
  <2>3. ASSUME NEW w \in Workers, WorkerStep(w) PROVE [Lease!Next]_(Lease!vars)
    BY <2>3, StartIsLease, StopIsLease, LoadIsLease DEF WorkerStep
  <2>4. ASSUME NEW c \in Captures, OpenSource(c) \/ RecordingFails(c) \/ ThreadStep(c)
        PROVE  [Lease!Next]_(Lease!vars)
    BY <2>4, ThreadIsLease
  <2>5. ASSUME NEW p \in Paths, ForeignWrite(p) PROVE [Lease!Next]_(Lease!vars)
    BY <2>5, LeaseStutter DEF ForeignWrite
  <2>6. CASE UNCHANGED vars
    BY <2>6, LeaseStutter DEF vars
  <2> QED BY <2>1, <2>2, <2>3, <2>4, <2>5, <2>6 DEF Next
<1> QED BY <1>1, <1>2, Invariance, PTL DEF Spec, LeaseSpec, Lease!Spec
-----------------------------------------------------------------------------
(* What stop_capture summarizes, when tool calls do not overlap. *)

(* One call at a time, which is how the MCP SDK dispatches them. *)
SerialDispatch == \A v, w \in Workers : v = w

(* From the join on, a stop call holds a capture that ended without an     *)
(* exception, and a live one's file is read, published and collected whole.*)
Whole(c) == [of |-> c, whole |-> TRUE]
SummaryOfPc ==
  \A w \in Workers : tool[w] = "stop" =>
    /\ pc[w] \in {"checkOwner", "read", "publish", "collect", "summarize"}
         => ~Alive(claim[w]) /\ exc[claim[w]] = "none"
    /\ ready[claim[w]] =>
         /\ pc[w] \in {"publish", "summarize"} => loaded[w] = Whole(claim[w])
         /\ pc[w] \in {"collect", "summarize"} => active = Whole(claim[w])

(* A stopped capture that was live has its whole file at its path. *)
LEMMA StoppedIsWhole ==
  ASSUME IInv, NEW c \in Captures, ready[c], ~Alive(c), exc[c] = "none"
  PROVE  ContentAt(dest[c]) = Whole(c)
BY DEF IInv, TypeOK, FileOfThread, Alive, Sealed, ContentAt, Whole

LEMMA SummaryStep ==
  ASSUME SerialDispatch, IInv, SummaryOfPc, [Next]_vars
  PROVE  SummaryOfPc'
<1> USE DEF IInv, TypeOK, SummaryOfPc, SerialDispatch, Alive
<1>1. ASSUME NEW w \in Workers, BeginLoad(w) \/ BeginStop(w) PROVE SummaryOfPc'
  BY <1>1 DEF BeginLoad, BeginStop
<1>2. ASSUME NEW w \in Workers, NEW c \in Captures, NEW p \in Paths, Reserve(w, c, p)
      PROVE  SummaryOfPc'
  BY <1>2 DEF Reserve
<1>3. ASSUME NEW w \in Workers, StartStep(w) PROVE SummaryOfPc'
  BY <1>3 DEF StartStep, Launch, LaunchFails, WaitReturns, WaitExpires, CheckReady, CheckExc,
     Confirm, MarkRunning, StartRaises, ToolOfPc
<1>4. ASSUME NEW w \in Workers, StopStep(w) PROVE SummaryOfPc'
  BY <1>4 DEF StopStep, SignalStop, StopJoins, StopJoinExpires, CleanupFailed, CheckOwner,
     Collect, Summarize, Finally, Keep, Free, ToolOfPc
<1>5. ASSUME NEW w \in Workers, LoadStep(w) PROVE SummaryOfPc'
  <2>1. ASSUME NEW p \in Paths, ReadFile(w, p) PROVE SummaryOfPc'
    <3>1. ASSUME tool[w] = "stop", ready[claim[w]] PROVE loaded'[w] = Whole(claim[w])
      <4>1. claim[w] \in Captures
        BY <3>1 DEF ExclusiveClaim, Claims, PhaseOfSlot
      <4> QED BY <2>1, <3>1, <4>1, StoppedIsWhole DEF ReadFile
    <3> QED BY <2>1, <3>1 DEF ReadFile
  <2>2. CASE ReadFails(w)
    BY <2>2 DEF ReadFails
  <2>3. CASE Publish(w)
    BY <2>3 DEF Publish
  <2> QED BY <1>5, <2>1, <2>2, <2>3 DEF LoadStep
<1>6. ASSUME NEW c \in Captures, OpenSource(c) \/ RecordingFails(c) \/ ThreadStep(c)
      PROVE  SummaryOfPc'
  <2>1. UNCHANGED <<pc, tool, claim, loaded, active>> /\ thread[c] \notin {"unborn", "dead"}
    BY <1>6 DEF OpenSource, RecordingFails, ThreadStep, ProbeOutput, StopTest, CreateOutput,
       CreateFails, GoLive, HeaderFails, WindUp, SetFinished, ThreadExits, Advance
  <2>2. \A d \in Captures \ {c} : thread'[d] = thread[d] /\ exc'[d] = exc[d] /\ ready'[d] = ready[d]
    BY <1>6 DEF OpenSource, RecordingFails, ThreadStep, ProbeOutput, StopTest, CreateOutput,
       CreateFails, GoLive, HeaderFails, WindUp, SetFinished, ThreadExits, Advance, Ends
  <2>3. ASSUME NEW w \in Workers, tool[w] = "stop" PROVE claim[w] \in Captures
    BY <2>3 DEF ExclusiveClaim, Claims, PhaseOfSlot
  <2> QED BY <2>1, <2>2, <2>3
<1>7. ASSUME NEW p \in Paths, ForeignWrite(p) PROVE SummaryOfPc'
  BY <1>7 DEF ForeignWrite
<1>8. CASE UNCHANGED vars
  BY <1>8 DEF vars
<1> QED BY <1>1, <1>2, <1>3, <1>4, <1>5, <1>6, <1>7, <1>8 DEF Next, WorkerStep

(***************************************************************************)
(* Where calls do not overlap, a successful stop_capture of a capture that *)
(* went live summarizes that capture, complete, and leaves it active,      *)
(* whatever other programs do to the disk and however the threads race.    *)
(***************************************************************************)
THEOREM SummariesAreOwn == SerialDispatch => (Spec => []StopSummarizesItsCapture)
<1> SUFFICES ASSUME SerialDispatch PROVE Spec => []StopSummarizesItsCapture
  OBVIOUS
<1>1. Init => SummaryOfPc
  BY DEF Init, SummaryOfPc
<1>2. IInv /\ SummaryOfPc /\ [Next]_vars => SummaryOfPc'
  BY SummaryStep
<1>3. SummaryOfPc /\ IInv => StopSummarizesItsCapture
  BY DEF SummaryOfPc, IInv, ToolOfPc, StopSummarizesItsCapture, Whole
<1> QED BY <1>1, <1>2, <1>3, Invariance, PTL DEF Spec
=============================================================================
