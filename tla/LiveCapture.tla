---------------------------- MODULE LiveCapture -----------------------------
(***************************************************************************)
(* Live capture: the session's capture slot (session.py), the start, stop  *)
(* and load tools (mcp/tools/live_capture.py, mcp/tools/capture.py), the   *)
(* CaptureController and the capture thread (sniffer.py), with the output  *)
(* files and the active loaded capture they share.                         *)
(*                                                                         *)
(* Grain: a step ends where another thread can first see its effect, so    *)
(* every lock region, every Event read and every thread test is one step.  *)
(*                                                                         *)
(* Abstractions.  A call that is refused without changing anything (slot   *)
(* busy, wrong suffix) is a stuttering step and has no action.  A file is  *)
(* who wrote it; whether its tail was written is Sealed.  Exceptions are   *)
(* "timeout" (a TimeoutError, which an OSError with ETIMEDOUT is too) or   *)
(* "error" (all the others): nothing in the tools tells more apart.        *)
(***************************************************************************)
EXTENDS FiniteSets

CONSTANTS
  Workers,    \* threads that execute tool calls: one is serial dispatch
  Captures,   \* LiveCapture objects; each start_capture call uses a new one
  Paths,      \* output paths, all ending with .pcapng
  NoCapture,  \* Python's None for live_capture, session.capture, a claim
  NoPath,     \* a capture no start_capture has used yet
  NoFile,     \* nothing exists at the path
  Foreign,    \* a file some other program wrote
  Faults      \* the exceptions the bus and the disk may raise

ASSUME LiveCaptureAssumption ==
  /\ NoCapture \notin Captures
  /\ NoPath \notin Paths
  /\ NoFile # Foreign
  /\ {NoFile, Foreign} \cap Captures = {}
  /\ NoCapture # Foreign
  /\ Faults \subseteq {"error", "timeout"}

VARIABLES
  slot,       \* Session.live_capture
  phase,      \* Session._live_capture_phase
  active,     \* Session.capture: what was loaded last
  pc,         \* where each worker is in its tool call
  tool,       \* which tool the worker runs
  claim,      \* the local live_capture of a start or a stop
  verdict,    \* how the call will answer (retry_stop and the raised error)
  loaded,     \* the local capture of a load, before and after publication
  thread,     \* how far capture() and its thread got
  ready,      \* CaptureController._ready
  stopSet,    \* CaptureController._stop
  exc,        \* CaptureController._exc
  dest,       \* LiveCapture.output_path
  file,       \* the file system
  told        \* the last answer the analyst got about each capture

sessionVars == <<slot, phase, active>>
workerVars  == <<pc, tool, claim, verdict, loaded>>
threadVars  == <<thread, ready, exc>>
vars == <<sessionVars, workerVars, threadVars, stopSet, dest, file, told>>

-----------------------------------------------------------------------------
\* Thread.is_alive(): the thread outlives its _finished event by a moment.
Alive(c) == thread[c] \notin {"unborn", "dead"}

\* CaptureController._finished
Finished(c) == thread[c] \in {"exiting", "dead"}

\* CaptureController.is_running
IsRunning(c) == ready[c] /\ ~Finished(c)

\* The capture went live and closed its file without an exception.
Sealed(c) == ready[c] /\ exc[c] = "none" /\ thread[c] \in {"ending", "exiting", "dead"}

Content == [of : Captures \cup {Foreign, NoCapture}, whole : BOOLEAN]
Nothing == [of |-> NoCapture, whole |-> TRUE]

\* What reading the file at p yields while nobody completes it meanwhile.
ContentAt(p) == [of |-> file[p], whole |-> (file[p] \in Captures => Sealed(file[p]))]

Goto(w, label) == pc' = [pc EXCEPT ![w] = label]

\* The call leaves its try block with answer v and enters the finally clause.
Leave(w, v) ==
  /\ Goto(w, "finally")
  /\ verdict' = [verdict EXCEPT ![w] = v]

\* The worker returns; its locals are gone.
Return(w) ==
  /\ Goto(w, "idle")
  /\ tool' = [tool EXCEPT ![w] = "none"]
  /\ claim' = [claim EXCEPT ![w] = NoCapture]
  /\ verdict' = [verdict EXCEPT ![w] = "none"]
  /\ loaded' = [loaded EXCEPT ![w] = Nothing]

Answer(c, v) == told' = [told EXCEPT ![c] = v]

Init ==
  /\ slot = NoCapture
  /\ phase = "none"
  /\ active = Nothing
  /\ pc = [w \in Workers |-> "idle"]
  /\ tool = [w \in Workers |-> "none"]
  /\ claim = [w \in Workers |-> NoCapture]
  /\ verdict = [w \in Workers |-> "none"]
  /\ loaded = [w \in Workers |-> Nothing]
  /\ thread = [c \in Captures |-> "unborn"]
  /\ ready = [c \in Captures |-> FALSE]
  /\ stopSet = [c \in Captures |-> FALSE]
  /\ exc = [c \in Captures |-> "none"]
  /\ dest = [c \in Captures |-> NoPath]
  /\ file \in [Paths -> {NoFile, Foreign}]
  /\ told = [c \in Captures |-> "nothing"]

-----------------------------------------------------------------------------
(* start_capture *)

\* Mutant: reserve_live_capture without its test.
ReserveUnchecked(w, c, p) ==
  /\ pc[w] = "idle"
  /\ dest[c] = NoPath
  /\ slot' = c
  /\ phase' = "starting"
  /\ dest' = [dest EXCEPT ![c] = p]
  /\ Goto(w, "launch")
  /\ tool' = [tool EXCEPT ![w] = "start"]
  /\ claim' = [claim EXCEPT ![w] = c]
  /\ UNCHANGED <<active, verdict, loaded, threadVars, stopSet, file, told>>

\* Session.reserve_live_capture for a new controller.
Reserve(w, c, p) ==
  /\ pc[w] = "idle"
  /\ dest[c] = NoPath
  /\ slot = NoCapture
  /\ slot' = c
  /\ phase' = "starting"
  /\ dest' = [dest EXCEPT ![c] = p]
  /\ Goto(w, "launch")
  /\ tool' = [tool EXCEPT ![w] = "start"]
  /\ claim' = [claim EXCEPT ![w] = c]
  /\ UNCHANGED <<active, verdict, loaded, threadVars, stopSet, file, told>>

\* CaptureController.start spawns the capture thread ...
Launch(w) ==
  /\ pc[w] = "launch"
  /\ thread' = [thread EXCEPT ![claim[w]] = "started"]
  /\ Goto(w, "waiting")
  /\ UNCHANGED <<sessionVars, tool, claim, verdict, loaded, ready, exc, stopSet, dest, file, told>>

\* ... or the operating system has no thread to give.
LaunchFails(w) ==
  /\ pc[w] = "launch"
  /\ Leave(w, "failed")
  /\ UNCHANGED <<sessionVars, tool, claim, loaded, threadVars, stopSet, dest, file, told>>

\* The except clauses of start_capture for what start() raised.
StartRaises(w, e) ==
  IF e = "timeout"
    THEN Goto(w, "signal") /\ UNCHANGED verdict
    ELSE Leave(w, "failed")

\* _wait_ready returns because an event fired; both are stable from then on.
WaitReturns(w) ==
  LET c == claim[w] IN
  /\ pc[w] = "waiting"
  /\ ready[c] \/ Finished(c)
  /\ IF ready[c]
       THEN Goto(w, "confirm") /\ UNCHANGED verdict
       ELSE StartRaises(w, exc[c])
  /\ UNCHANGED <<sessionVars, tool, claim, loaded, threadVars, stopSet, dest, file, told>>

\* _wait_ready runs into its deadline.
WaitExpires(w) ==
  LET c == claim[w] IN
  /\ pc[w] = "waiting"
  /\ ~ready[c] /\ ~Finished(c)
  /\ Goto(w, "checkReady")
  /\ UNCHANGED <<sessionVars, tool, claim, verdict, loaded, threadVars, stopSet, dest, file, told>>

\* After the deadline start() looks at _ready, then at _exc, one after the other.
CheckReady(w) ==
  /\ pc[w] = "checkReady"
  /\ Goto(w, IF ready[claim[w]] THEN "confirm" ELSE "checkExc")
  /\ UNCHANGED <<sessionVars, tool, claim, verdict, loaded, threadVars, stopSet, dest, file, told>>

CheckExc(w) ==
  LET e == exc[claim[w]] IN
  /\ pc[w] = "checkExc"
  /\ StartRaises(w, IF e = "none" THEN "timeout" ELSE e)
  /\ UNCHANGED <<sessionVars, tool, claim, loaded, threadVars, stopSet, dest, file, told>>

\* start_capture's own test of CaptureController.is_running.
Confirm(w) ==
  /\ pc[w] = "confirm"
  /\ IF IsRunning(claim[w])
       THEN Goto(w, "mark") /\ UNCHANGED verdict
       ELSE Leave(w, "failed")
  /\ UNCHANGED <<sessionVars, tool, claim, loaded, threadVars, stopSet, dest, file, told>>

\* mark_live_capture_running, then the successful return.
MarkRunning(w) ==
  LET c == claim[w] IN
  /\ pc[w] = "mark"
  /\ IF slot = c
       THEN phase' = "running" /\ Return(w) /\ Answer(c, "live")
       ELSE Leave(w, "failed") /\ UNCHANGED <<phase, tool, claim, loaded, told>>
  /\ UNCHANGED <<slot, active, threadVars, stopSet, dest, file>>

-----------------------------------------------------------------------------
(* stop_capture, and CaptureController.stop which start_capture's timeout   *)
(* handler calls as well.                                                   *)

\* Mutant: begin_stop_live_capture that does not look at the phase.
BeginStopAnyPhase(w) ==
  /\ pc[w] = "idle"
  /\ slot # NoCapture
  /\ phase' = "stopping"
  /\ Goto(w, "signal")
  /\ tool' = [tool EXCEPT ![w] = "stop"]
  /\ claim' = [claim EXCEPT ![w] = slot]
  /\ UNCHANGED <<slot, active, verdict, loaded, threadVars, stopSet, dest, file, told>>

\* Session.begin_stop_live_capture
BeginStop(w) ==
  /\ pc[w] = "idle"
  /\ slot # NoCapture
  /\ phase = "running"
  /\ phase' = "stopping"
  /\ Goto(w, "signal")
  /\ tool' = [tool EXCEPT ![w] = "stop"]
  /\ claim' = [claim EXCEPT ![w] = slot]
  /\ UNCHANGED <<slot, active, verdict, loaded, threadVars, stopSet, dest, file, told>>

\* Mutant: stop() joins the thread without setting the stop event.
SignalStopForgotten(w) ==
  /\ pc[w] = "signal"
  /\ Goto(w, "join")
  /\ UNCHANGED <<sessionVars, tool, claim, verdict, loaded, threadVars, stopSet, dest, file, told>>

SignalStop(w) ==
  /\ pc[w] = "signal"
  /\ stopSet' = [stopSet EXCEPT ![claim[w]] = TRUE]
  /\ Goto(w, "join")
  /\ UNCHANGED <<sessionVars, tool, claim, verdict, loaded, threadVars, dest, file, told>>

\* Mutant: stop() returns without looking at the exception of the thread.
StopJoinsBlindly(w) ==
  /\ pc[w] = "join"
  /\ ~Alive(claim[w])
  /\ IF tool[w] = "stop"
       THEN Goto(w, "checkOwner") /\ UNCHANGED verdict
       ELSE Leave(w, "failed")
  /\ UNCHANGED <<sessionVars, tool, claim, loaded, threadVars, stopSet, dest, file, told>>

\* join() returned a dead thread: stop() raises its exception or returns stats.
\* stop_capture takes any TimeoutError for "did not stop in time".
StopJoins(w) ==
  LET c == claim[w] IN
  /\ pc[w] = "join"
  /\ ~Alive(c)
  /\ IF tool[w] = "stop" /\ exc[c] = "none"
       THEN Goto(w, "checkOwner") /\ UNCHANGED verdict
       ELSE Leave(w, IF tool[w] = "stop" /\ exc[c] = "timeout" THEN "retry" ELSE "failed")
  /\ UNCHANGED <<sessionVars, tool, claim, loaded, threadVars, stopSet, dest, file, told>>

\* Mutant: join() without a timeout.
StopJoinNeverExpires(w) == FALSE

\* join() timed out.  stop_capture decides to retry at once, start_capture
\* still asks whether the thread is active.
StopJoinExpires(w) ==
  /\ pc[w] = "join"
  /\ Alive(claim[w])
  /\ IF tool[w] = "stop"
       THEN Leave(w, "retry")
       ELSE Goto(w, "cleanupFailed") /\ UNCHANGED verdict
  /\ UNCHANGED <<sessionVars, tool, claim, loaded, threadVars, stopSet, dest, file, told>>

CleanupFailed(w) ==
  /\ pc[w] = "cleanupFailed"
  /\ Leave(w, IF Alive(claim[w]) THEN "retry" ELSE "failed")
  /\ UNCHANGED <<sessionVars, tool, claim, loaded, threadVars, stopSet, dest, file, told>>

\* Session.load_stopped_capture's ownership test.
CheckOwner(w) ==
  /\ pc[w] = "checkOwner"
  /\ IF slot = claim[w]
       THEN Goto(w, "read") /\ UNCHANGED verdict
       ELSE Leave(w, "failed")
  /\ UNCHANGED <<sessionVars, tool, claim, loaded, threadVars, stopSet, dest, file, told>>

-----------------------------------------------------------------------------
(* Loading: load_capture, and the load at the end of stop_capture. *)

\* Session.load tests the slot under the lock and drops the lock.
BeginLoad(w) ==
  /\ pc[w] = "idle"
  /\ slot = NoCapture
  /\ Goto(w, "read")
  /\ tool' = [tool EXCEPT ![w] = "load"]
  /\ UNCHANGED <<sessionVars, claim, verdict, loaded, threadVars, stopSet, dest, file, told>>

\* _load_capture reads and decodes the whole file before it assigns anything.
ReadFile(w, p) ==
  /\ pc[w] = "read"
  /\ tool[w] = "stop" => p = dest[claim[w]]
  /\ file[p] # NoFile
  /\ loaded' = [loaded EXCEPT ![w] = ContentAt(p)]
  /\ Goto(w, "publish")
  /\ UNCHANGED <<sessionVars, tool, claim, verdict, threadVars, stopSet, dest, file, told>>

\* No such file, a truncated block, an undecodable header: the old capture stays.
ReadFails(w) ==
  /\ pc[w] = "read"
  /\ IF tool[w] = "stop"
       THEN Leave(w, "failed") /\ UNCHANGED <<tool, claim, loaded>>
       ELSE Return(w)
  /\ UNCHANGED <<sessionVars, threadVars, stopSet, dest, file, told>>

\* self.capture = Capture(...)
Publish(w) ==
  /\ pc[w] = "publish"
  /\ active' = loaded[w]
  /\ IF tool[w] = "stop"
       THEN Goto(w, "collect") /\ UNCHANGED <<tool, claim, verdict, loaded>>
       ELSE Return(w)
  /\ UNCHANGED <<slot, phase, threadVars, stopSet, dest, file, told>>

\* return self.capture: a second read of the attribute.
Collect(w) ==
  /\ pc[w] = "collect"
  /\ loaded' = [loaded EXCEPT ![w] = active]
  /\ Goto(w, "summarize")
  /\ UNCHANGED <<sessionVars, tool, claim, verdict, threadVars, stopSet, dest, file, told>>

\* Mutant: the successful return that records no answer.
SummarizeUnanswered(w) ==
  /\ pc[w] = "summarize"
  /\ Goto(w, "finally")
  /\ UNCHANGED <<sessionVars, tool, claim, verdict, loaded, threadVars, stopSet, dest, file, told>>

\* The answer mixes the collected capture with session.list_devices().
Summarize(w) ==
  /\ pc[w] = "summarize"
  /\ Leave(w, "stopped")
  /\ UNCHANGED <<sessionVars, tool, claim, loaded, threadVars, stopSet, dest, file, told>>

-----------------------------------------------------------------------------
(* The finally clauses of both tools: keep the slot for a retry or free it. *)

\* Mutant: only retry_stop keeps the slot, is_active is not asked.
FinallyIgnoresThread(w) ==
  /\ pc[w] = "finally"
  /\ Goto(w, IF verdict[w] = "retry" THEN "keep" ELSE "free")
  /\ UNCHANGED <<sessionVars, tool, claim, verdict, loaded, threadVars, stopSet, dest, file, told>>

Finally(w) ==
  /\ pc[w] = "finally"
  /\ Goto(w, IF verdict[w] = "retry" \/ Alive(claim[w]) THEN "keep" ELSE "free")
  /\ UNCHANGED <<sessionVars, tool, claim, verdict, loaded, threadVars, stopSet, dest, file, told>>

\* mark_live_capture_running
Keep(w) ==
  /\ pc[w] = "keep"
  /\ phase' = IF slot = claim[w] THEN "running" ELSE phase
  /\ Answer(claim[w], verdict[w])
  /\ Return(w)
  /\ UNCHANGED <<slot, active, threadVars, stopSet, dest, file>>

\* release_live_capture
Free(w) ==
  /\ pc[w] = "free"
  /\ IF slot = claim[w]
       THEN slot' = NoCapture /\ phase' = "none"
       ELSE UNCHANGED <<slot, phase>>
  /\ Answer(claim[w], verdict[w])
  /\ Return(w)
  /\ UNCHANGED <<active, threadVars, stopSet, dest, file>>

-----------------------------------------------------------------------------
(* The capture thread: _run and capture(). *)

\* capture() ends with exception e, or with stats when e is "none".
Ends(c, e) ==
  /\ thread' = [thread EXCEPT ![c] = "ending"]
  /\ exc' = [exc EXCEPT ![c] = e]

Advance(c, from, to) ==
  /\ thread[c] = from
  /\ thread' = [thread EXCEPT ![c] = to]
  /\ UNCHANGED exc

\* output_path.exists() before anything is opened; it may itself fail.
ProbeOutput(c) ==
  /\ thread[c] = "started"
  /\ \/ IF file[dest[c]] = NoFile
            THEN Advance(c, "started", "opening")
            ELSE Ends(c, "error")
     \/ \E e \in Faults : Ends(c, e)
  /\ UNCHANGED <<sessionVars, workerVars, ready, stopSet, dest, file, told>>

\* UsbmonSource.__enter__: may also never return, so it has no fairness.
OpenSource(c) ==
  /\ thread[c] = "opening"
  /\ \/ Advance(c, "opening", "opened")
     \/ \E e \in Faults : Ends(c, e)
  /\ UNCHANGED <<sessionVars, workerVars, ready, stopSet, dest, file, told>>

\* Mutant: ready_event.set() once the device is polled, before there is a file.
StopTestAnnounces(c) ==
  /\ thread[c] = "opened"
  /\ IF stopSet[c]
       THEN Ends(c, "none") /\ UNCHANGED ready
       ELSE Advance(c, "opened", "creating") /\ ready' = [ready EXCEPT ![c] = TRUE]
  /\ UNCHANGED <<sessionVars, workerVars, stopSet, dest, file, told>>

\* A stop that arrived meanwhile ends the capture before it has a file.
StopTest(c) ==
  /\ thread[c] = "opened"
  /\ IF stopSet[c]
       THEN Ends(c, "none")
       ELSE Advance(c, "opened", "creating")
  /\ UNCHANGED <<sessionVars, workerVars, ready, stopSet, dest, file, told>>

\* Mutant: open("wb").
CreateOutputOverwrites(c) ==
  /\ Advance(c, "creating", "created")
  /\ file' = [file EXCEPT ![dest[c]] = c]
  /\ UNCHANGED <<sessionVars, workerVars, ready, stopSet, dest, told>>

\* open("xb"): creates the file or fails because it exists.
CreateOutput(c) ==
  /\ thread[c] = "creating"
  /\ IF file[dest[c]] = NoFile
       THEN /\ Advance(c, "creating", "created")
            /\ file' = [file EXCEPT ![dest[c]] = c]
       ELSE Ends(c, "error") /\ UNCHANGED file
  /\ UNCHANGED <<sessionVars, workerVars, ready, stopSet, dest, told>>

\* Any other failure to open the output: no directory, no space, no answer.
CreateFails(c) ==
  /\ thread[c] = "creating"
  /\ \E e \in Faults : Ends(c, e)
  /\ UNCHANGED <<sessionVars, workerVars, ready, stopSet, dest, file, told>>

\* Section header and interface block written: the capture is live.
GoLive(c) ==
  /\ Advance(c, "created", "live")
  /\ ready' = [ready EXCEPT ![c] = TRUE]
  /\ UNCHANGED <<sessionVars, workerVars, stopSet, dest, file, told>>

\* A failure before the capture is live removes the file it created; the
\* removal may fail too, which only adds a note to the exception.
HeaderFails(c) ==
  /\ thread[c] = "created"
  /\ \E e \in Faults : Ends(c, e)
  /\ \/ file' = [file EXCEPT ![dest[c]] = NoFile]
     \/ UNCHANGED file
  /\ UNCHANGED <<sessionVars, workerVars, ready, stopSet, dest, told>>

\* UsbmonSource.__next__ sees the stop event; the file is closed and measured.
WindUp(c) ==
  /\ thread[c] = "live"
  /\ stopSet[c]
  /\ Ends(c, "none")
  /\ UNCHANGED <<sessionVars, workerVars, ready, stopSet, dest, file, told>>

\* The bus goes away or a write fails while recording or closing.
RecordingFails(c) ==
  /\ thread[c] = "live"
  /\ \E e \in Faults : Ends(c, e)
  /\ UNCHANGED <<sessionVars, workerVars, ready, stopSet, dest, file, told>>

\* _finished.set() in _run, and some time later the thread is gone.
SetFinished(c) ==
  /\ Advance(c, "ending", "exiting")
  /\ UNCHANGED <<sessionVars, workerVars, ready, stopSet, dest, file, told>>

ThreadExits(c) ==
  /\ Advance(c, "exiting", "dead")
  /\ UNCHANGED <<sessionVars, workerVars, ready, stopSet, dest, file, told>>

\* Another program creates a file, e.g. between exists() and open("xb").
ForeignWrite(p) ==
  /\ file[p] = NoFile
  /\ file' = [file EXCEPT ![p] = Foreign]
  /\ UNCHANGED <<sessionVars, workerVars, threadVars, stopSet, dest, told>>

-----------------------------------------------------------------------------
StartStep(w) ==
  \/ Launch(w) \/ LaunchFails(w)
  \/ WaitReturns(w) \/ WaitExpires(w) \/ CheckReady(w) \/ CheckExc(w)
  \/ Confirm(w) \/ MarkRunning(w)

StopStep(w) ==
  \/ SignalStop(w) \/ StopJoins(w) \/ StopJoinExpires(w) \/ CleanupFailed(w)
  \/ CheckOwner(w) \/ Collect(w) \/ Summarize(w)
  \/ Finally(w) \/ Keep(w) \/ Free(w)

LoadStep(w) ==
  \/ \E p \in Paths : ReadFile(w, p)
  \/ ReadFails(w) \/ Publish(w)

\* A worker continues the call it is in.
WorkerStep(w) == StartStep(w) \/ StopStep(w) \/ LoadStep(w)

\* A capture thread continues, once its usbmon device is open.
ThreadStep(c) ==
  \/ ProbeOutput(c) \/ StopTest(c) \/ CreateOutput(c) \/ CreateFails(c)
  \/ GoLive(c) \/ HeaderFails(c) \/ WindUp(c) \/ SetFinished(c) \/ ThreadExits(c)

Next ==
  \/ \E w \in Workers : BeginLoad(w) \/ BeginStop(w) \/ WorkerStep(w)
  \/ \E w \in Workers, c \in Captures, p \in Paths : Reserve(w, c, p)
  \/ \E c \in Captures : OpenSource(c) \/ RecordingFails(c) \/ ThreadStep(c)
  \/ \E p \in Paths : ForeignWrite(p)

Spec == Init /\ [][Next]_vars

\* Timeouts fire and Python runs every thread that can run: calls progress.
FairSpec == Spec /\ \A w \in Workers : WF_vars(WorkerStep(w))

\* Besides, usbmon and the disk answer, and the analyst follows the tools'
\* advice to call stop_capture for as long as a capture is held.
Retries ==
  /\ \A c \in Captures : WF_vars(OpenSource(c)) /\ WF_vars(ThreadStep(c))
  /\ WF_vars(\E w \in Workers : BeginStop(w))

RetrySpec == FairSpec /\ Retries

-----------------------------------------------------------------------------
(* Properties *)

TypeOK ==
  /\ slot \in Captures \cup {NoCapture}
  /\ phase \in {"none", "starting", "running", "stopping"}
  /\ active \in Content
  /\ pc \in [Workers -> {"idle", "launch", "waiting", "checkReady", "checkExc",
                        "confirm", "mark", "signal", "join", "cleanupFailed",
                        "checkOwner", "read", "publish", "collect", "summarize",
                        "finally", "keep", "free"}]
  /\ tool \in [Workers -> {"none", "start", "stop", "load"}]
  /\ claim \in [Workers -> Captures \cup {NoCapture}]
  /\ verdict \in [Workers -> {"none", "stopped", "failed", "retry"}]
  /\ loaded \in [Workers -> Content]
  /\ thread \in [Captures -> {"unborn", "started", "opening", "opened", "creating",
                             "created", "live", "ending", "exiting", "dead"}]
  /\ ready \in [Captures -> BOOLEAN]
  /\ stopSet \in [Captures -> BOOLEAN]
  /\ exc \in [Captures -> {"none", "error", "timeout"}]
  /\ dest \in [Captures -> Paths \cup {NoPath}]
  /\ file \in [Paths -> {NoFile, Foreign} \cup Captures]
  /\ told \in [Captures -> {"nothing", "live", "stopped", "failed", "retry"}]

(***************************************************************************)
(* A capture thread that is still alive owns the session, whichever way    *)
(* its start or stop call failed: hence no two captures ever run at once   *)
(* ("Only one capture can run per session", start_capture's docstring).    *)
(***************************************************************************)
ThreadOwnsSlot == \A c \in Captures : Alive(c) => slot = c

Claims(w) == tool[w] \in {"start", "stop"}

(***************************************************************************)
(* The claim of a start or stop call is exclusive until the call returns,  *)
(* automatic load included; the phase names that call's tool; and a        *)
(* starting or stopping slot always has its call, which will leave that    *)
(* phase, so no other call is refused forever.                             *)
(***************************************************************************)
ExclusiveClaim ==
  /\ \A w \in Workers : Claims(w) =>
       /\ slot = claim[w]
       /\ phase = IF tool[w] = "start" THEN "starting" ELSE "stopping"
  /\ \A v, w \in Workers : Claims(v) /\ Claims(w) => v = w
  /\ phase \in {"starting", "stopping"} => \E w \in Workers : Claims(w)

(***************************************************************************)
(* When start_capture has answered that a capture runs, that capture did   *)
(* go live and its own output file is at its path; it still holds the      *)
(* session, so that stop_capture will find it, even if it died since.      *)
(***************************************************************************)
LiveAnswerIsTrue ==
  \A c \in Captures : told[c] = "live" =>
    ready[c] /\ file[dest[c]] = c /\ slot = c

(***************************************************************************)
(* A successful stop_capture of a capture that went live summarizes that   *)
(* capture, complete, and leaves it active ("The other analysis tools      *)
(* operate on the newly loaded capture from here on").                     *)
(***************************************************************************)
StopSummarizesItsCapture ==
  \A w \in Workers : pc[w] = "summarize" /\ ready[claim[w]] =>
    loaded[w] = [of |-> claim[w], whole |-> TRUE] /\ active = loaded[w]

(***************************************************************************)
(* No step overwrites or removes a file another program wrote, or the      *)
(* output of a capture that went live.                                     *)
(***************************************************************************)
FilesAreSafe ==
  [][\A p \in Paths :
       (file[p] = Foreign \/ \E c \in Captures : file[p] = c /\ ready[c])
         => file'[p] = file[p]]_vars

(***************************************************************************)
(* The slot is a lease in the sense of CaptureLease.                       *)
(***************************************************************************)
Life(c) ==
  CASE thread[c] = "unborn" -> "unborn"
    [] thread[c] = "dead" -> "dead"
    [] OTHER -> "alive"

Lease == INSTANCE CaptureLease WITH
  holder <- slot,
  busy <- phase \in {"starting", "stopping"},
  life <- [c \in Captures |-> Life(c)]

LeaseSpec == Lease!Spec

-----------------------------------------------------------------------------
(* The inductive strengthening of the safety properties. *)

\* The slot is owned exactly while it has a phase.
PhaseOfSlot == slot = NoCapture <=> phase = "none"

\* Where a worker can be in each tool, and that a call ends with an answer.
ToolOfPc ==
  \A w \in Workers :
    /\ pc[w] = "idle" <=> tool[w] = "none"
    /\ pc[w] \in {"launch", "waiting", "checkReady", "checkExc", "confirm",
                  "mark", "cleanupFailed"} => tool[w] = "start"
    /\ pc[w] \in {"signal", "join", "finally", "keep", "free"} => Claims(w)
    /\ pc[w] \in {"checkOwner", "collect", "summarize"} => tool[w] = "stop"
    /\ pc[w] \in {"read", "publish"} => tool[w] \in {"stop", "load"}
    /\ pc[w] \in {"finally", "keep", "free"} => verdict[w] # "none"

\* A thread is started once, for a reserved capture, and freed only when gone.
ThreadOfPc ==
  /\ \A c \in Captures : dest[c] = NoPath => thread[c] = "unborn" /\ slot # c
  /\ \A w \in Workers : pc[w] = "launch" => thread[claim[w]] = "unborn"
  /\ \A w \in Workers : pc[w] = "free" => ~Alive(claim[w])

\* A capture that created its file, and did not fail before it was live, has it.
FileOfThread ==
  \A c \in Captures :
    /\ ready[c] \/ thread[c] = "created" => file[dest[c]] = c
    /\ ready[c] => thread[c] \in {"live", "ending", "exiting", "dead"}

\* start() has seen the ready event before start_capture goes on.
ReadyOfPc == \A w \in Workers : pc[w] \in {"confirm", "mark"} => ready[claim[w]]

IInv ==
  /\ TypeOK
  /\ ThreadOwnsSlot
  /\ ExclusiveClaim
  /\ LiveAnswerIsTrue
  /\ PhaseOfSlot
  /\ ToolOfPc
  /\ ThreadOfPc
  /\ FileOfThread
  /\ ReadyOfPc

-----------------------------------------------------------------------------
(* Liveness, and what the repository says that does not hold *)

(***************************************************************************)
(* Every tool call returns, even when the capture thread hangs in the      *)
(* kernel: nothing waits on it without a timeout.                          *)
(***************************************************************************)
CallsReturn == \A w \in Workers : pc[w] # "idle" ~> pc[w] = "idle"

(***************************************************************************)
(* A capture that holds the session lets it go in the end if usbmon and    *)
(* the disk answer and the analyst keeps calling stop_capture, as the      *)
(* tools' error messages tell him to; unless it died of a timeout, see     *)
(* DeathFreesSlot.                                                         *)
(***************************************************************************)
SlotRecovers ==
  Retries => \A c \in Captures : slot = c ~> slot # c \/ exc[c] = "timeout"

(***************************************************************************)
(* "A capture that died after going live reports its error without wedging *)
(* the slot" (test_live_capture.py): whatever it died of, repeated calls   *)
(* of stop_capture free the session.                                       *)
(***************************************************************************)
DeathFreesSlot ==
  \A c \in Captures : slot = c /\ ready[c] /\ thread[c] = "dead" ~> slot # c

(***************************************************************************)
(* "A startup failure becomes a clear tool error and does not wedge the    *)
(* capture slot" (test_live_capture.py): once the analyst was told that a  *)
(* capture failed, without advice to retry, it does not hold the session.  *)
(***************************************************************************)
FailureFreesSlot == \A c \in Captures : told[c] = "failed" => slot # c
=============================================================================
