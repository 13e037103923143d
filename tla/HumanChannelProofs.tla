------------------------- MODULE HumanChannelProofs -------------------------
(***************************************************************************)
(* HumanChannel for any number of calls: its inductive invariant, that     *)
(* answers match questions, and that an ended session stays ended.         *)
(***************************************************************************)
EXTENDS HumanChannel, TLAPS

\* Init establishes the inductive invariant.
LEMMA InitIInv == Init => IInv
BY HumanChannelAssumption
   DEF Init, IInv, TypeOK, Stages, AnswersMatch, TurnIsExclusive, TerminalFollowsTurn, AbortsAreLatched

\* The lock goes to nobody or to a call that waits for it.
LEMMA ReleaseGivesTurnToWaiter ==
  ASSUME Release
  PROVE  \/ owner' = NoCall
         \/ owner' \in Calls /\ stage[owner'] = "queued" /\ owner' # owner
BY DEF Release, Waiting

\* A call that ends hands the turn on and leaves the terminal alone if what is
\* on it was its own.
LEMMA EndKeepsIInv ==
  ASSUME IInv, NEW c \in Calls, NEW r \in {"answered", "raised", "cancelled"} \cup Reasons,
         stage[c] \in {"queued", "asking", "reading"}, owner = c,
         End(c, r), Release,
         latch' \in Reasons \cup {NoReason},
         latch' = latch \/ latch = NoReason,
         r \in Reasons => r = latch',
         screen' \in {screen, NoCall}, line' \in {line, NoCall},
         stage[c] = "reading" => screen' = NoCall /\ line' = NoCall,
         heard' = heard \/ heard' = [heard EXCEPT ![c] = c],
         failed' \in SUBSET Calls, output' \in BOOLEAN
  PROVE  IInv'
<1>1. c # NoCall
  BY HumanChannelAssumption
<1>2. TypeOK'
  BY ReleaseGivesTurnToWaiter DEF IInv, TypeOK, End, Stages
<1>3. AnswersMatch'
  BY DEF IInv, TypeOK, AnswersMatch
<1>4. TurnIsExclusive'
  BY ReleaseGivesTurnToWaiter DEF IInv, TypeOK, TurnIsExclusive, End
<1>5. TerminalFollowsTurn'
  BY <1>1 DEF IInv, TypeOK, TerminalFollowsTurn
<1>6. AbortsAreLatched'
  BY HumanChannelAssumption DEF IInv, TypeOK, TurnIsExclusive, AbortsAreLatched, End
<1> QED
  BY <1>2, <1>3, <1>4, <1>5, <1>6 DEF IInv

\* Every step keeps the inductive invariant.
LEMMA NextIInv == IInv /\ [Next]_vars => IInv'
<1> SUFFICES ASSUME IInv, [Next]_vars PROVE IInv'
  OBVIOUS
<1> USE HumanChannelAssumption
<1>1. CASE UNCHANGED vars
  BY <1>1 DEF vars, callVars, terminalVars, IInv, TypeOK, AnswersMatch,
     TurnIsExclusive, TerminalFollowsTurn, AbortsAreLatched
<1>2. ASSUME NEW c \in Calls, Call(c) PROVE IInv'
  BY <1>2 DEF Call, terminalVars, IInv, TypeOK, Stages, AnswersMatch,
     TurnIsExclusive, TerminalFollowsTurn, AbortsAreLatched
<1>3. ASSUME NEW c \in Calls, Take(c) PROVE IInv'
  BY <1>3 DEF Take, terminalVars, IInv, TypeOK, Stages, AnswersMatch,
     TurnIsExclusive, TerminalFollowsTurn, AbortsAreLatched
<1>4. ASSUME NEW c \in Calls, TakeLatched(c) PROVE IInv'
  <2>1. latch \in Reasons /\ latch' = latch /\ UNCHANGED <<terminalVars, output>>
    BY <1>4 DEF TakeLatched, IInv, TypeOK
  <2> QED
    BY <1>4, <2>1, EndKeepsIInv DEF TakeLatched, terminalVars, IInv, TypeOK
<1>5. ASSUME NEW c \in Calls, Prompt(c) PROVE IInv'
  BY <1>5 DEF Prompt, IInv, TypeOK, Stages, AnswersMatch,
     TurnIsExclusive, TerminalFollowsTurn, AbortsAreLatched
<1>6. ASSUME NEW c \in Calls, PromptFails(c) PROVE IInv'
  <2>1. owner = c /\ UNCHANGED <<latch, terminalVars, output>>
    BY <1>6 DEF PromptFails, IInv, TurnIsExclusive
  <2> QED
    BY <1>6, <2>1, EndKeepsIInv DEF PromptFails, terminalVars, IInv, TypeOK
<1>7. ASSUME NEW c \in Calls, Read(c) PROVE IInv'
  <2>1. owner = c /\ line = c /\ stage[c] = "reading" /\ screen = NoCall
    BY <1>7 DEF Read, IInv, TurnIsExclusive, TerminalFollowsTurn
  <2> QED
    BY <1>7, <2>1, EndKeepsIInv DEF Read, IInv, TypeOK
<1>8. ASSUME NEW c \in Calls, ReadAborts(c) PROVE IInv'
  <2>1. owner = c /\ latch = NoReason
    BY <1>8 DEF ReadAborts, IInv, TurnIsExclusive, AbortsAreLatched
  <2>2. PICK r \in Reasons : End(c, r) /\ latch' = r
    BY <1>8 DEF ReadAborts
  <2> QED
    BY <1>8, <2>1, <2>2, EndKeepsIInv DEF ReadAborts, IInv, TypeOK
<1>9. ASSUME NEW c \in Calls, ReadRaises(c) PROVE IInv'
  <2>1. owner = c
    BY <1>9 DEF ReadRaises, IInv, TurnIsExclusive
  <2> QED
    BY <1>9, <2>1, EndKeepsIInv DEF ReadRaises, IInv, TypeOK
<1>10. ASSUME NEW c \in Calls, Cancel(c) PROVE IInv'
  <2>1. CASE owner = c
    BY <1>10, <2>1, EndKeepsIInv DEF Cancel, terminalVars, IInv, TypeOK
  <2>2. CASE owner # c
    BY <1>10, <2>2 DEF Cancel, End, terminalVars, IInv, TypeOK, Stages, AnswersMatch,
       TurnIsExclusive, TerminalFollowsTurn, AbortsAreLatched
  <2> QED
    BY <2>1, <2>2
<1>11. CASE TypeLine
  BY <1>11 DEF TypeLine, callVars, IInv, TypeOK, Stages, AnswersMatch,
     TurnIsExclusive, TerminalFollowsTurn, AbortsAreLatched
<1>12. CASE OutputGone
  BY <1>12 DEF OutputGone, callVars, terminalVars, IInv, TypeOK, Stages, AnswersMatch,
     TurnIsExclusive, TerminalFollowsTurn, AbortsAreLatched
<1> QED
  BY <1>1, <1>2, <1>3, <1>4, <1>5, <1>6, <1>7, <1>8, <1>9, <1>10, <1>11, <1>12 DEF Next, Step

\* The inductive invariant holds in every reachable state.
THEOREM Invariance == Spec => []IInv
BY InitIInv, NextIInv, PTL DEF Spec

\* No call returns an answer typed for another question, whatever the number
\* of overlapping and cancelled calls.
THEOREM AnswersMatchQuestions == Spec => []AnswersMatch
<1>1. IInv => AnswersMatch
  BY DEF IInv
<1> QED
  BY <1>1, Invariance, PTL

\* Once a call reported an abort, no other call gets to the terminal.
THEOREM SessionStaysEnded == Spec => EndedStaysEnded
<1> DEFINE Ended == \E c \in Calls : result[c] \in Reasons
           NobodyEnters == \A d \in Calls : stage'[d] \in {"asking", "reading"} => stage[d] = stage'[d]
<1>1. ASSUME IInv, [Next]_vars PROVE [Ended => NobodyEnters]_vars
  <2> SUFFICES ASSUME Next, Ended PROVE NobodyEnters
    BY <1>1
  <2>1. latch # NoReason /\ \A d \in Calls : stage[d] \notin {"asking", "reading"}
    BY <1>1, HumanChannelAssumption DEF IInv, AbortsAreLatched
  <2>2. stage \in [Calls -> Stages]
    BY <1>1 DEF IInv, TypeOK
  <2>3. CASE \E c \in Calls : Call(c)
    BY <2>1, <2>2, <2>3 DEF Call
  <2>4. CASE \E c \in Calls : TakeLatched(c) \/ Cancel(c)
    BY <2>1, <2>2, <2>4 DEF TakeLatched, Cancel, End
  <2>5. CASE TypeLine \/ OutputGone
    BY <2>1, <2>5 DEF TypeLine, OutputGone, callVars
  <2> QED
    BY <2>1, <2>3, <2>4, <2>5
    DEF Next, Step, Take, Prompt, PromptFails, Read, ReadAborts, ReadRaises
<1> QED
  BY <1>1, Invariance, PTL DEF Spec, EndedStaysEnded
=============================================================================
