---------------------------- MODULE HumanChannel ----------------------------
(***************************************************************************)
(* The analyst channel of the guided server (guided/human.py): one         *)
(* terminal, one analyst, and tool calls that may overlap.  _HumanChannel  *)
(* serializes the calls with an anyio lock, offloads the blocking read to  *)
(* a worker thread and latches the first abort.                            *)
(*                                                                         *)
(* Grain: a call runs alone between two awaits, so a step is what happens  *)
(* from one await to the next, or one terminal operation of its worker     *)
(* thread.  The lock hands the turn to any waiting call, which includes    *)
(* the first-come order of anyio.  An answer is the question it was typed  *)
(* for; its text is left out.                                              *)
(***************************************************************************)
CONSTANTS
  Calls,      \* the wait_for_human calls of a session, each made once
  NoCall,     \* nobody has the turn, nothing on the screen, nothing typed
  Reasons,    \* the names of the aborting exceptions of human.py
  NoReason    \* Python's None for _aborted_reason

ASSUME HumanChannelAssumption ==
  /\ NoCall \notin Calls
  /\ NoReason \notin Reasons
  /\ {"none", "answered", "raised", "cancelled", NoReason} \cap Reasons = {}

VARIABLES
  stage,      \* where each call is in ask()
  owner,      \* the call that holds _turn
  latch,      \* _aborted_reason
  result,     \* how each call ended
  screen,     \* the question the analyst has been shown and not answered
  line,       \* the question whose answer waits in the input buffer
  heard,      \* the question whose answer each call returned
  failed,     \* calls whose read raised an aborting exception
  output      \* the terminal accepts output

callVars == <<stage, owner, latch, result>>
terminalVars == <<screen, line, heard, failed>>
vars == <<callVars, terminalVars, output>>

-----------------------------------------------------------------------------
Init ==
  /\ stage = [c \in Calls |-> "new"]
  /\ owner = NoCall
  /\ latch = NoReason
  /\ result = [c \in Calls |-> "none"]
  /\ screen = NoCall
  /\ line = NoCall
  /\ heard = [c \in Calls |-> NoCall]
  /\ failed = {}
  /\ output = TRUE

Waiting(c) == stage[c] = "queued" /\ owner # c

\* Leaving the async with block: the lock goes to a waiting call, if any.
Release ==
  \/ \E d \in Calls : Waiting(d) /\ owner' = d
  \/ (\A d \in Calls : ~Waiting(d)) /\ owner' = NoCall

\* Call c ends with outcome r, inside the async with block or not.
End(c, r) ==
  /\ stage' = [stage EXCEPT ![c] = "done"]
  /\ result' = [result EXCEPT ![c] = r]

\* A call enters ask() and takes the lock or queues for it.
Call(c) ==
  /\ stage[c] = "new"
  /\ stage' = [stage EXCEPT ![c] = "queued"]
  /\ owner' = IF owner = NoCall THEN c ELSE owner
  /\ UNCHANGED <<latch, result, terminalVars, output>>

\* Mutant: the latch is not tested again once the turn is taken.
TakeUnchecked(c) ==
  /\ stage[c] = "queued"
  /\ owner = c
  /\ stage' = [stage EXCEPT ![c] = "asking"]
  /\ UNCHANGED <<owner, latch, result, terminalVars, output>>

\* With the turn taken and no abort so far, the exchange goes to a thread.
Take(c) ==
  /\ stage[c] = "queued"
  /\ owner = c
  /\ latch = NoReason
  /\ stage' = [stage EXCEPT ![c] = "asking"]
  /\ UNCHANGED <<owner, latch, result, terminalVars, output>>

\* Mutant: the early return forgets the lock.
TakeLatchedKeepsTurn(c) ==
  /\ stage[c] = "queued"
  /\ owner = c
  /\ latch # NoReason
  /\ End(c, latch)
  /\ UNCHANGED <<owner, latch, terminalVars, output>>

\* With the turn taken after an abort, the call repeats that abort.
TakeLatched(c) ==
  /\ stage[c] = "queued"
  /\ owner = c
  /\ latch # NoReason
  /\ End(c, latch)
  /\ Release
  /\ UNCHANGED <<latch, terminalVars, output>>

\* ask_human writes the question.
Prompt(c) ==
  /\ stage[c] = "asking"
  /\ output
  /\ stage' = [stage EXCEPT ![c] = "reading"]
  /\ screen' = c
  /\ UNCHANGED <<owner, latch, result, line, heard, failed, output>>

\* That write raises: it is outside the try, so the call raises.
PromptFails(c) ==
  /\ stage[c] = "asking"
  /\ ~output
  /\ End(c, "raised")
  /\ Release
  /\ UNCHANGED <<latch, terminalVars, output>>

\* The reader returns the line in the buffer.
Read(c) ==
  /\ stage[c] = "reading"
  /\ line # NoCall
  /\ heard' = [heard EXCEPT ![c] = line]
  /\ line' = NoCall
  /\ End(c, "answered")
  /\ Release
  /\ UNCHANGED <<latch, screen, failed, output>>

\* Mutant: an aborted exchange is reported but not remembered.
ReadAbortsUnlatched(c) ==
  /\ stage[c] = "reading"
  /\ output
  /\ failed' = failed \cup {c}
  /\ screen' = NoCall
  /\ line' = NoCall
  /\ \E r \in Reasons : End(c, r)
  /\ Release
  /\ UNCHANGED <<latch, heard, output>>

\* The reader raises (ctrl-d, hangup, a line that is not UTF-8) and the
\* newline still goes out: the exchange is aborted, and ask() latches it.
ReadAborts(c) ==
  /\ stage[c] = "reading"
  /\ output
  /\ failed' = failed \cup {c}
  /\ screen' = NoCall
  /\ line' = NoCall
  /\ \E r \in Reasons : End(c, r) /\ latch' = r
  /\ Release
  /\ UNCHANGED <<heard, output>>

\* The reader raises and so does the write of the newline in the handler.
ReadRaises(c) ==
  /\ stage[c] = "reading"
  /\ ~output
  /\ failed' = failed \cup {c}
  /\ screen' = NoCall
  /\ line' = NoCall
  /\ End(c, "raised")
  /\ Release
  /\ UNCHANGED <<latch, heard, output>>

\* Mutant: run_sync(abandon_on_cancel=True) gives the turn up and leaves the
\* thread at the terminal.
CancelAbandons(c) ==
  /\ stage[c] \in {"queued", "asking", "reading"}
  /\ IF stage[c] = "queued"
     THEN /\ End(c, "cancelled")
          /\ IF owner = c THEN Release ELSE UNCHANGED owner
     ELSE owner = c /\ Release /\ UNCHANGED <<stage, result>>
  /\ UNCHANGED <<latch, terminalVars, output>>

\* The client cancels a call.  A waiting call leaves, with its turn if it was
\* just given one; run_sync shields a call whose thread is at the terminal,
\* so cancelling that one changes nothing until the thread returns.
Cancel(c) ==
  /\ stage[c] = "queued"
  /\ End(c, "cancelled")
  /\ IF owner = c THEN Release ELSE UNCHANGED owner
  /\ UNCHANGED <<latch, terminalVars, output>>

\* The analyst answers the question on the screen.
TypeLine ==
  /\ screen # NoCall
  /\ line = NoCall
  /\ line' = screen
  /\ screen' = NoCall
  /\ UNCHANGED <<callVars, heard, failed, output>>

\* The terminal stops taking output: hangup, closed window, broken pipe.
OutputGone ==
  /\ output
  /\ output' = FALSE
  /\ UNCHANGED <<callVars, terminalVars>>

Step(c) ==
  \/ Take(c) \/ TakeLatched(c)
  \/ Prompt(c) \/ PromptFails(c)
  \/ Read(c) \/ ReadAborts(c) \/ ReadRaises(c)

Next ==
  \/ \E c \in Calls : Call(c) \/ Step(c) \/ Cancel(c)
  \/ TypeLine
  \/ OutputGone

Spec == Init /\ [][Next]_vars

\* The event loop and the worker threads run, and the analyst answers, ends
\* the input or loses the terminal: a read always comes to an end.
FairSpec == Spec /\ WF_vars(TypeLine) /\ \A c \in Calls : WF_vars(Step(c))

-----------------------------------------------------------------------------
Stages == {"new", "queued", "asking", "reading", "done"}

TypeOK ==
  /\ stage \in [Calls -> Stages]
  /\ owner \in Calls \cup {NoCall}
  /\ latch \in Reasons \cup {NoReason}
  /\ result \in [Calls -> {"none", "answered", "raised", "cancelled"} \cup Reasons]
  /\ screen \in Calls \cup {NoCall}
  /\ line \in Calls \cup {NoCall}
  /\ heard \in [Calls -> Calls \cup {NoCall}]
  /\ failed \in SUBSET Calls
  /\ output \in BOOLEAN

\* No call returns an answer the analyst typed for another question, however
\* calls overlap and are cancelled (human.py:82: "whichever thread wins takes
\* the analyst's line").
AnswersMatch == \A c \in Calls : heard[c] \in {c, NoCall}

\* The two inductive parts under it: only the owner of the turn is at the
\* terminal, and what is on the screen or in the buffer belongs to its read.
TurnIsExclusive ==
  /\ \A c \in Calls : stage[c] \in {"asking", "reading"} => owner = c
  /\ owner # NoCall => stage[owner] \in {"queued", "asking", "reading"}
TerminalFollowsTurn ==
  /\ \A q \in {screen, line} : q # NoCall => q = owner /\ stage[q] = "reading"
  /\ line # NoCall => screen = NoCall

\* Every aborted call has told the reason that is latched, so all of them
\* told the same one; and nobody is at the terminal of an ended session.
AbortsAreLatched ==
  /\ \A c \in Calls : result[c] \in Reasons => result[c] = latch
  /\ \A c \in Calls : stage[c] \in {"asking", "reading"} => latch = NoReason

\* The inductive invariant.
IInv ==
  /\ TypeOK
  /\ AnswersMatch
  /\ TurnIsExclusive
  /\ TerminalFollowsTurn
  /\ AbortsAreLatched

\* An ended session stays ended: once some call reported an abort, no other
\* call, queued before or made after, gets to the terminal any more.
EndedStaysEnded ==
  [][(\E c \in Calls : result[c] \in Reasons) =>
       \A d \in Calls : stage'[d] \in {"asking", "reading"} => stage[d] = stage'[d]]_vars

\* What human.py:14 and human.py:88 say: a read that ends because the input
\* ended is reported as an abort.
EndOfInputAborts ==
  \A c \in failed : stage[c] = "done" => result[c] \in Reasons

\* Every call returns: nobody waits for a turn that is never given on.
CallsReturn == \A c \in Calls : stage[c] = "queued" ~> stage[c] = "done"

=============================================================================
