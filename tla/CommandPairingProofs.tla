------------------------ MODULE CommandPairingProofs ------------------------
(***************************************************************************)
(* CommandPairing for captures and timeouts of any length: pairs are       *)
(* sound, and what is reported unanswered or unsolicited really is.        *)
(***************************************************************************)
EXTENDS CommandPairing, SequenceTheorems, TLAPS

\* The log is a sequence of events inside the capture.
LEMMA LogIsSequence ==
  ASSUME \E m \in 0..MaxEvents : event \in [1..m -> {e \in Event : e.at <= end}]
  PROVE  event \in Seq(Event) /\ Len(event) <= MaxEvents /\ \A i \in Slots : event[i].at <= end
<1>1. PICK m \in 0..MaxEvents : event \in [1..m -> {e \in Event : e.at <= end}]
  OBVIOUS
<1>2. m \in Nat /\ event \in [1..m -> Event]
  BY <1>1, CommandPairingAssumption
<1>3. event \in Seq(Event)
  BY <1>2, SeqDef
<1>4. Len(event) = m
  BY <1>2, <1>3
<1> QED
  BY <1>1, <1>3, <1>4 DEF Slots

\* Init establishes the inductive invariant.
LEMMA InitIInv == Init => IInv
<1> SUFFICES ASSUME Init PROVE IInv
  OBVIOUS
<1> USE CommandPairingAssumption DEF Init
<1>1. TypeOK
  BY LogIsSequence DEF TypeOK, Verdicts
<1>2. Slots \subseteq Nat \ {0} /\ RestIsBlank
  BY LogIsSequence DEF RestIsBlank, Slots
<1>3. VerdictsMean /\ PartnersMatch /\ NoOvertaking /\ PairsAreSound /\ UnansweredIsReal /\ NoCommandIsLeft
  BY DEF VerdictsMean, PartnersMatch, NoOvertaking, PairsAreSound, UnansweredIsReal, NoCommandIsLeft
<1>4. FlushedIsLate /\ OlderFirst
  BY <1>2 DEF FlushedIsLate, OlderFirst
<1> QED
  BY <1>1, <1>2, <1>3, <1>4 DEF IInv

\* What the steps below use of the types: numbers are numbers, the log is in
\* time order, and the next event is not older than any before it.
LEMMA Typed ==
  ASSUME IInv
  PROVE  /\ Slots \subseteq Nat \ {0} /\ n \in Nat /\ end \in Nat /\ Timeout \in Nat
         /\ \A i \in Slots : event[i].at \in Nat /\ event[i].type \in Types /\ event[i].at <= end
         /\ \A i, j \in Slots : i < j => event[i].at <= event[j].at
         /\ \A i \in Slots : i > n => verdict[i] = "none" /\ partner[i] = 0
         /\ \A i \in Slots : \A j \in 1..i : j \in Slots
<1>1. event \in Seq(Event) /\ Slots = 1..Len(event) /\ Len(event) \in Nat
  BY DEF IInv, TypeOK, Slots
<1>2. \A i \in Slots : event[i] \in Event
  BY <1>1
<1>3. \A i \in Slots : event[i].at \in Nat /\ event[i].type \in Types
  BY <1>2, CommandPairingAssumption DEF Event
<1>4. \A i, j \in Slots : i < j => event[i].at <= event[j].at
  <2> SUFFICES ASSUME NEW i \in Slots, NEW j \in Slots, i < j PROVE event[i].at <= event[j].at
    OBVIOUS
  <2>1. Before(event[i], event[j])
    BY DEF IInv, RestIsBlank, Sorted, Slots
  <2> QED
    BY <1>3, <2>1 DEF Before
<1>5. n \in Nat /\ end \in Nat
  BY <1>1, CommandPairingAssumption DEF IInv, TypeOK
<1> QED
  BY <1>1, <1>3, <1>4, <1>5, CommandPairingAssumption DEF IInv, RestIsBlank

\* Flushing commands of a lane whose window is over keeps the invariant while
\* event i is processed; expired commands are pending commands.
LEMMA ExpiredIsLate ==
  ASSUME IInv, NEW i \in Slots, NEW c \in Slots
  PROVE  /\ c \in Expired(i) => verdict[c] = "pending" /\ event[i].at > event[c].at + Timeout
         /\ c \in Waiting(i) => verdict[c] = "pending" /\ event[c].type = event[i].type
                                /\ event[i].at <= event[c].at + Timeout
         /\ verdict[c] = "pending" /\ event[c].type = event[i].type /\ event[i].at <= event[c].at + Timeout
              => c \in Waiting(i)
<1>1. /\ c \in Expired(i) => c \in Pending(event[i].type) /\ event[i].at > event[c].at + Timeout
  BY Typed DEF Expired, Pending
<1>2. ASSUME c \in Pending(event[i].type), event[i].at > event[c].at + Timeout
      PROVE  c \in Expired(i)
  BY <1>2, Typed DEF Expired, Pending
<1>3. c \in Waiting(i) => c \in Pending(event[i].type) /\ ~(event[i].at > event[c].at + Timeout)
  BY <1>2 DEF Waiting
<1> QED
  BY <1>1, <1>3, Typed DEF Waiting, Pending

\* A step that processes event i or none leaves the log alone, and so all that
\* is said of it.
LEMMA LogStays ==
  ASSUME UNCHANGED <<end, event>>
  PROVE  /\ Slots' = Slots
         /\ \A c : Ok(c)' <=> Ok(c)
         /\ \A c : IsCommand(c)' <=> IsCommand(c)
         /\ \A c, r : InWindow(c, r)' <=> InWindow(c, r)
BY DEF Slots, Ok, IsCommand, InWindow, Aside

\* What processing event i amounts to for the counters.
LEMMA ProcessAdvances ==
  ASSUME IInv, NEW i \in Slots, Process(i)
  PROVE  /\ i = n + 1 /\ n' = i /\ i \in Nat /\ UNCHANGED <<end, event, done>>
         /\ verdict[i] = "none" /\ partner[i] = 0 /\ ~done
         /\ \A j \in Slots : j < i => j <= n /\ event[j].at <= event[i].at
         /\ \A j \in Slots : j <= n => j < i
         /\ \A j \in Slots : j > n' => j > n /\ j # i
<1>1. i = n + 1 /\ n' = i /\ UNCHANGED <<end, event, done>>
  BY DEF Process
<1>2. ~done
  BY <1>1 DEF IInv, RestIsBlank
<1> QED
  BY <1>1, <1>2, Typed

\* A command that left its lane without an IN stays out of reach.
LEMMA LateStaysLate ==
  ASSUME IInv, NEW i \in Slots, Process(i),
         NEW c \in Slots, IsCommand(c), c <= n, partner[c] = 0, verdict[c] # "pending"
  PROVE  event[i].at > event[c].at + Timeout
<1>1. n \in Slots
  BY Typed DEF IInv, TypeOK
<1>2. event[n].at > event[c].at + Timeout
  BY ProcessAdvances DEF IInv, FlushedIsLate
<1>3. event[n].at <= event[i].at
  BY <1>1, ProcessAdvances, Typed
<1> QED
  BY <1>1, <1>2, <1>3, Typed

\* An event that enters no lane keeps the invariant.
LEMMA SetAsideKeepsIInv ==
  ASSUME IInv, NEW i \in Slots, SetAside(i)
  PROVE  IInv'
<1>1. Process(i) /\ Aside(i) /\ UNCHANGED partner
  BY DEF SetAside
<1>2. /\ verdict' \in [Slots -> Verdicts]
      /\ \A j \in Slots : j # i => verdict'[j] = verdict[j]
      /\ verdict'[i] \in {"incomplete", "excluded", "unsolicited", "explained"}
      /\ verdict'[i] = "unsolicited" => event[i].quiet
  BY DEF SetAside, IInv, TypeOK, Verdicts, Aside, Ok
<1>3. ~IsCommand(i) /\ \A c : ~InWindow(c, i)
  BY <1>1 DEF IsCommand, InWindow
<1>4. TypeOK'
  BY <1>1, <1>2, ProcessAdvances, LogStays DEF IInv, TypeOK
<1>5. RestIsBlank'
  BY <1>1, <1>2, ProcessAdvances, LogStays DEF IInv, RestIsBlank
<1>6. VerdictsMean'
  BY <1>1, <1>2, ProcessAdvances, LogStays DEF IInv, VerdictsMean
<1>7. PartnersMatch'
  <2>1. \A j \in Slots : partner[j] # 0 => partner[j] \in Slots /\ partner[j] # i /\ j # i
    BY <1>1, ProcessAdvances, Typed DEF IInv, TypeOK, PartnersMatch
  <2> QED
    BY <1>1, <1>2, <2>1, ProcessAdvances, LogStays, Typed DEF IInv, TypeOK, PartnersMatch
<1>8. FlushedIsLate'
  <2> SUFFICES ASSUME NEW c \in Slots, IsCommand(c), c <= n', partner[c] = 0, verdict'[c] # "pending"
               PROVE  event[i].at > event[c].at + Timeout
    BY <1>1, ProcessAdvances, LogStays DEF FlushedIsLate
  <2>1. c # i /\ c <= n
    BY <1>1, <1>3, ProcessAdvances, Typed
  <2> QED
    BY <1>1, <1>2, <2>1, LateStaysLate
<1>9. OlderFirst' /\ NoOvertaking'
  BY <1>1, <1>2, <1>3, ProcessAdvances, LogStays, Typed DEF IInv, OlderFirst, NoOvertaking
<1>10. PairsAreSound'
  BY <1>1, <1>2, ProcessAdvances, LogStays DEF IInv, TypeOK, PairsAreSound
<1>11. NoCommandIsLeft'
  BY <1>1, <1>2, ProcessAdvances, LogStays DEF IInv, NoCommandIsLeft
<1> QED
  BY <1>4, <1>5, <1>6, <1>7, <1>8, <1>9, <1>10, <1>11 DEF IInv

\* A command that joins its lane keeps the invariant.
LEMMA CommandKeepsIInv ==
  ASSUME IInv, NEW i \in Slots, Command(i)
  PROVE  IInv'
<1>1. Process(i) /\ IsCommand(i) /\ UNCHANGED partner
  BY DEF Command, IsCommand
<1>2. /\ verdict' \in [Slots -> Verdicts]
      /\ \A j \in Slots : j # i => verdict'[j] = verdict[j]
      /\ verdict'[i] = "pending"
  BY DEF Command, IInv, TypeOK, Verdicts
<1>3. \A c : ~InWindow(c, i)
  BY <1>1 DEF IsCommand, InWindow
<1>4. TypeOK'
  BY <1>1, <1>2, ProcessAdvances, LogStays DEF IInv, TypeOK
<1>5. RestIsBlank'
  BY <1>1, <1>2, ProcessAdvances, LogStays DEF IInv, RestIsBlank
<1>6. VerdictsMean'
  BY <1>1, <1>2, ProcessAdvances, LogStays DEF IInv, VerdictsMean
<1>7. PartnersMatch'
  <2>1. \A j \in Slots : partner[j] # 0 => partner[j] \in Slots /\ partner[j] # i /\ j # i
    BY <1>1, ProcessAdvances, Typed DEF IInv, TypeOK, PartnersMatch
  <2> QED
    BY <1>1, <1>2, <2>1, ProcessAdvances, LogStays, Typed DEF IInv, TypeOK, PartnersMatch
<1>8. FlushedIsLate'
  <2> SUFFICES ASSUME NEW c \in Slots, IsCommand(c), c <= n', partner[c] = 0, verdict'[c] # "pending"
               PROVE  event[i].at > event[c].at + Timeout
    BY <1>1, ProcessAdvances, LogStays DEF FlushedIsLate
  <2>1. c # i /\ c <= n
    BY <1>1, <1>2, ProcessAdvances, Typed
  <2> QED
    BY <1>1, <1>2, <2>1, LateStaysLate
<1>9. OlderFirst'
  <2>1. \A r \in Slots : InWindow(i, r) => ~(r <= n')
    BY <1>1, ProcessAdvances, Typed DEF InWindow
  <2> QED
    BY <1>1, <1>3, <2>1, ProcessAdvances, LogStays, Typed DEF IInv, OlderFirst
<1>10. NoOvertaking'
  BY <1>1, <1>2, ProcessAdvances, LogStays, Typed DEF IInv, NoOvertaking
<1>11. PairsAreSound'
  BY <1>1, <1>2, ProcessAdvances, LogStays DEF IInv, TypeOK, PairsAreSound
<1>12. NoCommandIsLeft'
  BY <1>1, <1>2, ProcessAdvances, LogStays DEF IInv, NoCommandIsLeft
<1> QED
  BY <1>4, <1>5, <1>6, <1>7, <1>8, <1>9, <1>10, <1>11, <1>12 DEF IInv

\* What _flush_out does to a set of pending commands.
LEMMA FlushFiles ==
  ASSUME IInv, NEW S \in SUBSET Slots, \A c \in S : verdict[c] = "pending"
  PROVE  /\ Flush(S) \in [Slots -> Verdicts]
         /\ \A c \in Slots : c \notin S => Flush(S)[c] = verdict[c]
         /\ \A c \in S : Flush(S)[c] \in {"unanswered", "boundary", "explained"}
         /\ \A c \in S : Flush(S)[c] = "unanswered" => Ok(c) /\ event[c].at + Timeout <= end
<1>1. \A c \in S : /\ Flushed(c) \in {"unanswered", "boundary", "explained"}
                   /\ Flushed(c) = "unanswered" => Ok(c) /\ event[c].at + Timeout <= end
  BY Typed DEF Flushed
<1> QED
  BY <1>1 DEF Flush, IInv, TypeOK, Verdicts

\* An IN that finds no command keeps the invariant.
LEMMA UnpromptedKeepsIInv ==
  ASSUME IInv, NEW i \in Slots, Unprompted(i)
  PROVE  IInv'
<1>1. Process(i) /\ ~Aside(i) /\ event[i].dir = "in" /\ Waiting(i) = {} /\ UNCHANGED partner
  BY DEF Unprompted
<1>2. Expired(i) \in SUBSET Slots /\ \A c \in Expired(i) : verdict[c] = "pending"
  BY ExpiredIsLate DEF Expired, Pending
<1>3. i \notin Expired(i)
  BY <1>1, <1>2, ProcessAdvances
<1>4. /\ verdict' \in [Slots -> Verdicts]
      /\ \A c \in Slots : c # i /\ c \notin Expired(i) => verdict'[c] = verdict[c]
      /\ \A c \in Slots : c \in Expired(i) =>
           /\ verdict'[c] \notin {"none", "pending", "paired", "unsolicited"}
           /\ verdict'[c] = "unanswered" => Ok(c) /\ event[c].at + Timeout <= end
      /\ verdict'[i] \in {"unsolicited", "explained"}
  <2>1. /\ Flush(Expired(i)) \in [Slots -> Verdicts]
        /\ \A c \in Slots : c \notin Expired(i) => Flush(Expired(i))[c] = verdict[c]
        /\ \A c \in Expired(i) : Flush(Expired(i))[c] \in {"unanswered", "boundary", "explained"}
        /\ \A c \in Expired(i) : Flush(Expired(i))[c] = "unanswered" => Ok(c) /\ event[c].at + Timeout <= end
    BY <1>2, FlushFiles
  <2>2. /\ verdict' \in [Slots -> Verdicts]
        /\ \A c \in Slots : c # i => verdict'[c] = Flush(Expired(i))[c]
        /\ verdict'[i] \in {"unsolicited", "explained"}
    BY <2>1 DEF Unprompted, Verdicts
  <2> QED
    BY <1>3, <2>1, <2>2
<1>5. ~IsCommand(i) /\ \A c \in Slots : InWindow(c, i) => c <= n
  BY <1>1, ProcessAdvances DEF IsCommand, InWindow
<1>6. \A c \in Slots : verdict[c] = "pending" => ~InWindow(c, i)
  BY <1>1, ExpiredIsLate DEF InWindow
<1>7. \A c \in Slots : IsCommand(c) /\ InWindow(c, i) => partner[c] # 0
  <2> SUFFICES ASSUME NEW c \in Slots, IsCommand(c), InWindow(c, i), partner[c] = 0 PROVE FALSE
    OBVIOUS
  <2>1. event[i].at > event[c].at + Timeout
    BY <1>1, <1>5, <1>6, LateStaysLate
  <2> QED
    BY <2>1, Typed DEF InWindow
<1>8. TypeOK'
  BY <1>1, <1>4, ProcessAdvances, LogStays DEF IInv, TypeOK
<1>9. RestIsBlank'
  BY <1>1, <1>2, <1>4, ProcessAdvances, LogStays DEF IInv, RestIsBlank
<1>10. VerdictsMean'
  <2>1. \A c \in Expired(i) : IsCommand(c) /\ partner[c] = 0 /\ c # i
    BY <1>2, <1>3 DEF IInv, VerdictsMean
  <2> SUFFICES ASSUME NEW c \in Slots
               PROVE  /\ verdict'[c] = "pending" => IsCommand(c) /\ partner[c] = 0 /\ ~done
                      /\ verdict'[c] = "unanswered" =>
                           IsCommand(c) /\ partner[c] = 0 /\ Ok(c) /\ event[c].at + Timeout <= end
                      /\ verdict'[c] = "paired" => partner[c] # 0 /\ Ok(c)
    BY <1>1, ProcessAdvances, LogStays DEF VerdictsMean
  <2>2. CASE c \in Expired(i)
    BY <1>4, <2>1, <2>2
  <2>3. CASE c = i
    BY <1>4, <2>3
  <2>4. CASE c # i /\ c \notin Expired(i)
    BY <1>4, <2>4 DEF IInv, VerdictsMean
  <2> QED
    BY <2>2, <2>3, <2>4
<1>11. PartnersMatch'
  <2>1. \A j \in Slots : partner[j] # 0 => /\ partner[j] \in Slots /\ partner[j] # i /\ j # i
                                          /\ j \notin Expired(i) /\ partner[j] \notin Expired(i)
    BY <1>1, <1>2, ProcessAdvances, Typed DEF IInv, TypeOK, PartnersMatch, VerdictsMean
  <2> QED
    BY <1>1, <1>4, <2>1, ProcessAdvances, LogStays, Typed DEF IInv, TypeOK, PartnersMatch
<1>12. FlushedIsLate'
  <2> SUFFICES ASSUME NEW c \in Slots, IsCommand(c), c <= n', partner[c] = 0, verdict'[c] # "pending"
               PROVE  event[i].at > event[c].at + Timeout
    BY <1>1, ProcessAdvances, LogStays DEF FlushedIsLate
  <2>1. c # i /\ c <= n
    BY <1>1, <1>5, ProcessAdvances, Typed
  <2>2. CASE c \in Expired(i)
    BY <2>2, ExpiredIsLate
  <2>3. CASE c \notin Expired(i)
    BY <1>1, <1>4, <2>1, <2>3, LateStaysLate
  <2> QED
    BY <2>2, <2>3
<1>13. OlderFirst'
  BY <1>1, <1>7, ProcessAdvances, LogStays, Typed DEF IInv, OlderFirst
<1>14. NoOvertaking'
  <2>1. \A c \in Slots : verdict'[c] = "pending" => verdict[c] = "pending"
    <3>1. \A c \in Expired(i) : c # i /\ verdict'[c] # "pending"
      BY <1>2, <1>3, <1>4
    <3> QED
      BY <1>4, <3>1
  <2> QED
    BY <1>1, <2>1, ProcessAdvances, LogStays DEF IInv, NoOvertaking
<1>15. PairsAreSound'
  <2>1. \A c \in Expired(i) : c # i /\ verdict[c] # "paired" /\ verdict'[c] # "paired"
    BY <1>2, <1>3, <1>4
  <2>2. \A c \in Slots : verdict'[c] = "paired" <=> verdict[c] = "paired"
    BY <1>1, <1>4, <2>1, ProcessAdvances
  <2> QED
    BY <1>1, <2>2, ProcessAdvances, LogStays DEF IInv, PairsAreSound
<1>16. NoCommandIsLeft'
  <2> SUFFICES ASSUME NEW r \in Slots, verdict'[r] = "unsolicited", ~event[r].quiet,
                      NEW c \in Slots, IsCommand(c), InWindow(c, r)
               PROVE  partner[c] \in Slots /\ partner[c] < r
    BY <1>1, ProcessAdvances, LogStays DEF NoCommandIsLeft
  <2>1. CASE r = i
    BY <1>1, <1>7, <2>1, ProcessAdvances, Typed DEF IInv, TypeOK, PartnersMatch
  <2>2. CASE r # i
    <3>1. r \notin Expired(i)
      BY <1>4, <2>2
    <3> QED
      BY <1>4, <2>2, <3>1 DEF IInv, NoCommandIsLeft
  <2> QED
    BY <2>1, <2>2
<1> QED
  BY <1>8, <1>9, <1>10, <1>11, <1>12, <1>13, <1>14, <1>15, <1>16 DEF IInv

\* The first half of PairsAreSound, from what partners are.
LEMMA PartnersArePairs ==
  ASSUME TypeOK, VerdictsMean, PartnersMatch,
         NEW c \in Slots, verdict[c] = "paired", event[c].dir = "out"
  PROVE  /\ partner[c] \in Slots
         /\ verdict[partner[c]] = "paired" /\ partner[partner[c]] = c
         /\ Ok(c) /\ Ok(partner[c]) /\ IsCommand(c)
         /\ InWindow(c, partner[c])
<1>1. partner[c] # 0 /\ partner[c] \in Slots
  BY DEF TypeOK, VerdictsMean
<1> QED
  BY <1>1 DEF VerdictsMean, PartnersMatch

\* An IN that takes a command keeps the invariant.  The command is the oldest
\* successful one, so none of those still waiting is older.
LEMMA AnswerKeepsIInv ==
  ASSUME IInv, NEW i \in Slots, Answer(i)
  PROVE  IInv'
<1>1. Process(i) /\ ~Aside(i) /\ event[i].dir = "in"
  BY DEF Answer
<1>2. PICK c \in Slots :
        /\ Takes(c, Waiting(i))
        /\ verdict' = LET v == IF Ok(c) /\ Ok(i) THEN "paired" ELSE "explained"
                      IN [Flush(Expired(i)) EXCEPT ![c] = v, ![i] = v]
        /\ partner' = [partner EXCEPT ![c] = i, ![i] = c]
  BY DEF Answer
<1>3. /\ c \in Waiting(i)
      /\ \A d \in Waiting(i) : Ok(d) => Ok(c) /\ c <= d
  BY <1>2 DEF Takes, Ok
<1>4. /\ verdict[c] = "pending" /\ event[c].type = event[i].type
      /\ event[i].at <= event[c].at + Timeout
  BY <1>3, ExpiredIsLate
<1>5. IsCommand(c) /\ partner[c] = 0 /\ c # i /\ c < i /\ c <= n /\ c \notin Expired(i)
  BY <1>1, <1>3, <1>4, ProcessAdvances, Typed DEF IInv, VerdictsMean, Waiting
<1>6. InWindow(c, i) /\ ~IsCommand(i) /\ event[c].dir = "out"
  BY <1>1, <1>4, <1>5 DEF InWindow, IsCommand
<1>7. Expired(i) \in SUBSET Slots /\ \A d \in Expired(i) : verdict[d] = "pending"
  BY ExpiredIsLate DEF Expired, Pending
<1>8. i \notin Expired(i)
  BY <1>1, <1>7, ProcessAdvances
<1>9. /\ verdict' \in [Slots -> Verdicts]
      /\ \A d \in Slots : d # i /\ d # c /\ d \notin Expired(i) => verdict'[d] = verdict[d]
      /\ \A d \in Slots : d \in Expired(i) =>
           /\ verdict'[d] \notin {"none", "pending", "paired", "unsolicited"}
           /\ verdict'[d] = "unanswered" => Ok(d) /\ event[d].at + Timeout <= end
      /\ verdict'[i] = verdict'[c]
      /\ verdict'[c] \in {"paired", "explained"}
      /\ verdict'[c] = "paired" => Ok(c) /\ Ok(i)
  <2>1. /\ Flush(Expired(i)) \in [Slots -> Verdicts]
        /\ \A d \in Slots : d \notin Expired(i) => Flush(Expired(i))[d] = verdict[d]
        /\ \A d \in Expired(i) : Flush(Expired(i))[d] \in {"unanswered", "boundary", "explained"}
        /\ \A d \in Expired(i) : Flush(Expired(i))[d] = "unanswered" => Ok(d) /\ event[d].at + Timeout <= end
    BY <1>7, FlushFiles
  <2>2. PICK v \in {"paired", "explained"} :
          /\ v = "paired" => Ok(c) /\ Ok(i)
          /\ verdict' = [Flush(Expired(i)) EXCEPT ![c] = v, ![i] = v]
    <3>1. CASE Ok(c) /\ Ok(i)
      BY <1>2, <3>1
    <3>2. CASE ~(Ok(c) /\ Ok(i))
      BY <1>2, <3>2
    <3> QED
      BY <3>1, <3>2
  <2>3. /\ verdict' \in [Slots -> Verdicts]
        /\ \A d \in Slots : d # i /\ d # c => verdict'[d] = Flush(Expired(i))[d]
        /\ verdict'[i] = v /\ verdict'[c] = v
    BY <2>1, <2>2 DEF Verdicts
  <2> QED
    BY <1>5, <1>8, <2>1, <2>2, <2>3
<1>10. /\ partner' \in [Slots -> Slots \cup {0}]
       /\ partner'[c] = i /\ partner'[i] = c
       /\ \A d \in Slots : d # i /\ d # c => partner'[d] = partner[d]
  BY <1>2, <1>5 DEF IInv, TypeOK
<1>11. \A d \in Slots : partner[d] # 0 =>
          /\ partner[d] \in Slots /\ partner[d] # i /\ partner[d] # c /\ d # i /\ d # c
          /\ d \notin Expired(i) /\ partner[d] \notin Expired(i)
  BY <1>1, <1>5, <1>7, ProcessAdvances, Typed DEF IInv, TypeOK, PartnersMatch, VerdictsMean
<1>12. TypeOK'
  BY <1>1, <1>9, <1>10, ProcessAdvances, LogStays DEF IInv, TypeOK
<1>13. RestIsBlank'
  <2>1. \A d \in Slots : d > n' => d # i /\ d # c /\ d \notin Expired(i) /\ d > n
    BY <1>1, <1>5, <1>7, ProcessAdvances, Typed
  <2>2. \A d \in Slots : d > n' => verdict'[d] = "none" /\ partner'[d] = 0
    BY <1>9, <1>10, <2>1, Typed
  <2> QED
    BY <1>1, <2>2, ProcessAdvances, LogStays DEF IInv, RestIsBlank
<1>14. VerdictsMean'
  <2>1. \A d \in Expired(i) : IsCommand(d) /\ partner'[d] = 0
    BY <1>5, <1>7, <1>8, <1>10 DEF IInv, VerdictsMean
  <2> SUFFICES ASSUME NEW d \in Slots
               PROVE  /\ verdict'[d] = "pending" => IsCommand(d) /\ partner'[d] = 0 /\ ~done
                      /\ verdict'[d] = "unanswered" =>
                           IsCommand(d) /\ partner'[d] = 0 /\ Ok(d) /\ event[d].at + Timeout <= end
                      /\ verdict'[d] = "paired" => partner'[d] # 0 /\ Ok(d)
    BY <1>1, ProcessAdvances, LogStays DEF VerdictsMean
  <2>2. CASE d \in Expired(i)
    BY <1>9, <2>1, <2>2
  <2>3. CASE d = i \/ d = c
    BY <1>9, <1>10, <2>3, Typed
  <2>4. CASE d # i /\ d # c /\ d \notin Expired(i)
    BY <1>9, <1>10, <2>4 DEF IInv, VerdictsMean
  <2> QED
    BY <2>2, <2>3, <2>4
<1>15. PartnersMatch'
  <2> SUFFICES ASSUME NEW d \in Slots, partner'[d] # 0
               PROVE  /\ partner'[d] <= n'
                      /\ partner'[partner'[d]] = d
                      /\ verdict'[partner'[d]] = verdict'[d]
                      /\ event[d].dir = "out" => IsCommand(d) /\ InWindow(d, partner'[d])
    BY <1>1, ProcessAdvances, LogStays DEF PartnersMatch
  <2>1. CASE d = c
    BY <1>1, <1>5, <1>6, <1>9, <1>10, <2>1, ProcessAdvances
  <2>2. CASE d = i
    BY <1>1, <1>5, <1>9, <1>10, <2>2, ProcessAdvances, Typed
  <2>3. CASE d # i /\ d # c
    <3>1. partner[d] # 0 /\ partner'[d] = partner[d]
      BY <1>10, <2>3
    <3>2. /\ partner'[partner[d]] = partner[partner[d]]
          /\ verdict'[partner[d]] = verdict[partner[d]] /\ verdict'[d] = verdict[d]
      BY <1>9, <1>10, <1>11, <2>3, <3>1
    <3>3. partner[d] \in Nat
      BY <1>11, <3>1, Typed
    <3> QED
      BY <1>1, <3>1, <3>2, <3>3, ProcessAdvances, Typed DEF IInv, PartnersMatch
  <2> QED
    BY <2>1, <2>2, <2>3
<1>16. FlushedIsLate'
  <2> SUFFICES ASSUME NEW d \in Slots, IsCommand(d), d <= n', partner'[d] = 0, verdict'[d] # "pending"
               PROVE  event[i].at > event[d].at + Timeout
    BY <1>1, ProcessAdvances, LogStays DEF FlushedIsLate
  <2>1. d # i /\ d # c /\ d <= n /\ partner[d] = 0
    BY <1>1, <1>6, <1>10, ProcessAdvances, Typed
  <2>2. CASE d \in Expired(i)
    BY <2>2, ExpiredIsLate
  <2>3. CASE d \notin Expired(i)
    BY <1>1, <1>9, <2>1, <2>3, LateStaysLate
  <2> QED
    BY <2>2, <2>3
<1>17. OlderFirst'
  <2> SUFFICES ASSUME NEW d \in Slots, IsCommand(d), Ok(d), partner'[d] = 0,
                      NEW r \in Slots, r <= n', InWindow(d, r)
               PROVE  partner'[r] \in Slots /\ partner'[r] < d /\ Ok(partner'[r])
    BY <1>1, ProcessAdvances, LogStays DEF OlderFirst
  <2>1. d # c /\ d # i /\ partner[d] = 0
    BY <1>5, <1>6, <1>10, Typed
  <2>2. CASE r = i
    <3>1. d <= n /\ event[d].type = event[i].type /\ ~(event[i].at > event[d].at + Timeout)
      BY <1>1, <2>2, ProcessAdvances, Typed DEF InWindow
    <3>2. verdict[d] = "pending"
      BY <1>1, <2>1, <3>1, LateStaysLate
    <3>3. d \in Waiting(i)
      BY <3>1, <3>2, ExpiredIsLate, Typed
    <3> QED
      BY <1>3, <1>10, <2>1, <2>2, <3>3, Typed
  <2>3. CASE r # i
    <3>1. r <= n /\ r # c
      BY <1>1, <1>6, <2>3, ProcessAdvances, Typed DEF InWindow
    <3> QED
      BY <1>10, <2>1, <2>3, <3>1 DEF IInv, OlderFirst
  <2> QED
    BY <2>2, <2>3
<1>18. NoOvertaking'
  <2> SUFFICES ASSUME NEW b \in Slots, NEW d \in Slots,
                      verdict'[b] = "pending", Ok(b), b < d, IsCommand(d), event[b].type = event[d].type
               PROVE  partner'[d] = 0
    BY <1>1, ProcessAdvances, LogStays DEF NoOvertaking
  <2>1. b # c /\ b # i /\ b \notin Expired(i) /\ verdict[b] = "pending"
    BY <1>9
  <2>2. partner[d] = 0 /\ d # i
    BY <1>6, <2>1 DEF IInv, NoOvertaking
  <2>3. d # c
    <3> SUFFICES ASSUME d = c PROVE FALSE
      OBVIOUS
    <3>1. b \in Waiting(i)
      BY <1>4, <2>1 DEF Waiting, Pending
    <3> QED
      BY <1>3, <3>1, Typed
  <2> QED
    BY <1>10, <2>2, <2>3
<1>19. PairsAreSound'
  <2>1. \A b \in Slots : verdict'[b] = "paired" /\ event[b].dir = "out" /\ b # c =>
          verdict[b] = "paired" /\ partner'[b] = partner[b] /\ partner[b] # 0 /\ IsCommand(b)
    <3> SUFFICES ASSUME NEW b \in Slots, verdict'[b] = "paired", event[b].dir = "out", b # c
                 PROVE  verdict[b] = "paired" /\ partner'[b] = partner[b] /\ partner[b] # 0 /\ IsCommand(b)
      OBVIOUS
    <3>1. b # i /\ b \notin Expired(i)
      BY <1>1, <1>9
    <3> QED
      BY <1>9, <1>10, <3>1 DEF IInv, VerdictsMean, PartnersMatch
  <2>2. ASSUME NEW b \in Slots, NEW d \in Slots,
               verdict'[b] = "paired", verdict'[d] = "paired",
               event[b].dir = "out", event[d].dir = "out", event[b].type = event[d].type, b < d
        PROVE  partner'[b] < partner'[d]
    <3>1. CASE b = c
      <4>1. d # c /\ partner[d] # 0 /\ IsCommand(d)
        BY <2>1, <2>2, <3>1, Typed
      <4>2. Ok(c)
        BY <1>9, <2>2, <3>1
      <4> QED
        BY <1>4, <2>2, <3>1, <4>1, <4>2 DEF IInv, NoOvertaking
    <3>2. CASE d = c
      <4>1. b # c /\ partner'[b] = partner[b] /\ partner[b] # 0
        BY <2>1, <2>2, <3>2, Typed
      <4>2. partner[b] <= n /\ partner[b] \in Slots
        BY <4>1, <1>11 DEF IInv, PartnersMatch
      <4> QED
        BY <1>1, <1>10, <3>2, <4>1, <4>2, ProcessAdvances
    <3>3. CASE b # c /\ d # c
      <4>1. /\ verdict[b] = "paired" /\ partner'[b] = partner[b]
            /\ verdict[d] = "paired" /\ partner'[d] = partner[d]
        BY <2>1, <2>2, <3>3
      <4> QED
        BY <2>2, <4>1 DEF IInv, PairsAreSound
    <3> QED
      BY <3>1, <3>2, <3>3
  <2>3. ASSUME NEW b \in Slots, verdict'[b] = "paired", event[b].dir = "out"
        PROVE  LET r == partner'[b] IN
                 /\ r \in Slots
                 /\ verdict'[r] = "paired" /\ partner'[r] = b
                 /\ Ok(b) /\ Ok(r) /\ IsCommand(b)
                 /\ InWindow(b, r)
    <3>1. CASE b = c
      BY <1>5, <1>6, <1>9, <1>10, <2>3, <3>1
    <3>2. CASE b # c
      <4>1. verdict[b] = "paired" /\ partner'[b] = partner[b] /\ partner[b] # 0
        BY <2>1, <2>3, <3>2
      <4>2. /\ verdict[partner[b]] = "paired" /\ partner[partner[b]] = b
            /\ partner[b] \in Slots
            /\ Ok(b) /\ Ok(partner[b]) /\ IsCommand(b) /\ InWindow(b, partner[b])
        BY <2>3, <4>1, PartnersArePairs DEF IInv
      <4>3. verdict'[partner[b]] = verdict[partner[b]] /\ partner'[partner[b]] = partner[partner[b]]
        BY <1>9, <1>10, <1>11, <4>1
      <4> QED
        BY <4>1, <4>2, <4>3
    <3> QED
      BY <3>1, <3>2
  <2> QED
    BY <1>1, <2>2, <2>3, ProcessAdvances, LogStays DEF PairsAreSound
<1>20. NoCommandIsLeft'
  <2> SUFFICES ASSUME NEW r \in Slots, verdict'[r] = "unsolicited", ~event[r].quiet,
                      NEW d \in Slots, IsCommand(d), InWindow(d, r)
               PROVE  partner'[d] \in Slots /\ partner'[d] < r
    BY <1>1, ProcessAdvances, LogStays DEF NoCommandIsLeft
  <2>1. r # i /\ r # c /\ r \notin Expired(i)
    BY <1>9
  <2>2. verdict[r] = "unsolicited"
    BY <1>9, <2>1
  <2>3. partner[d] \in Slots /\ partner[d] < r
    BY <2>2 DEF IInv, NoCommandIsLeft
  <2>4. d # i /\ d # c
    BY <1>5, <1>6, <2>3, Typed
  <2> QED
    BY <1>10, <2>3, <2>4
<1> QED
  BY <1>12, <1>13, <1>14, <1>15, <1>16, <1>17, <1>18, <1>19, <1>20 DEF IInv

\* Flushing what is pending at the end keeps the invariant.
LEMMA FinishKeepsIInv ==
  ASSUME IInv, Finish
  PROVE  IInv'
<1>1. ~done /\ done' /\ n + 1 \notin Slots /\ UNCHANGED <<end, event, n, partner>>
  BY DEF Finish
<1> DEFINE S == {c \in Slots : verdict[c] = "pending"}
<1>2. /\ verdict' \in [Slots -> Verdicts]
      /\ \A c \in Slots : c \notin S => verdict'[c] = verdict[c]
      /\ \A c \in S : verdict'[c] \in {"unanswered", "boundary", "explained"}
      /\ \A c \in S : verdict'[c] = "unanswered" => Ok(c) /\ event[c].at + Timeout <= end
  BY FlushFiles DEF Finish
<1>3. \A c \in S : verdict[c] = "pending" /\ IsCommand(c) /\ partner[c] = 0
  BY DEF IInv, VerdictsMean
<1> HIDE DEF S
<1>4. \A c \in Slots : /\ verdict'[c] # "pending"
                       /\ verdict'[c] = "paired" <=> verdict[c] = "paired"
                       /\ verdict'[c] = "unsolicited" <=> verdict[c] = "unsolicited"
  BY <1>2, <1>3 DEF S
<1>5. TypeOK'
  BY <1>1, <1>2, LogStays DEF IInv, TypeOK
<1>6. RestIsBlank'
  BY <1>1, <1>2, <1>3, LogStays DEF IInv, RestIsBlank
<1>7. VerdictsMean'
  <2> SUFFICES ASSUME NEW c \in Slots
               PROVE  /\ verdict'[c] = "unanswered" =>
                           IsCommand(c) /\ partner[c] = 0 /\ Ok(c) /\ event[c].at + Timeout <= end
                      /\ verdict'[c] = "paired" => partner[c] # 0 /\ Ok(c)
    BY <1>1, <1>4, LogStays DEF VerdictsMean
  <2>1. CASE c \in S
    BY <1>2, <1>3, <2>1
  <2>2. CASE c \notin S
    BY <1>2, <2>2 DEF IInv, VerdictsMean
  <2> QED
    BY <2>1, <2>2
<1>8. PartnersMatch'
  <2>1. \A c \in Slots : partner[c] # 0 => partner[c] \in Slots /\ c \notin S /\ partner[c] \notin S
    BY <1>3 DEF IInv, TypeOK, PartnersMatch
  <2> QED
    BY <1>1, <1>2, <2>1, LogStays DEF IInv, PartnersMatch
<1>9. FlushedIsLate' /\ OlderFirst' /\ NoOvertaking'
  BY <1>1, <1>4, LogStays DEF IInv, FlushedIsLate, OlderFirst, NoOvertaking
<1>10. PairsAreSound'
  BY <1>1, <1>4, LogStays DEF IInv, PairsAreSound
<1>11. NoCommandIsLeft'
  BY <1>1, <1>4, LogStays DEF IInv, NoCommandIsLeft
<1> QED
  BY <1>5, <1>6, <1>7, <1>8, <1>9, <1>10, <1>11 DEF IInv

\* A step that changes nothing keeps the invariant.
LEMMA StutterKeepsIInv ==
  ASSUME IInv, UNCHANGED vars
  PROVE  IInv'
BY DEF vars, IInv, TypeOK, RestIsBlank, VerdictsMean, PartnersMatch, FlushedIsLate, OlderFirst,
       NoOvertaking, PairsAreSound, NoCommandIsLeft, Slots, Sorted, Ok, IsCommand, InWindow, Aside

\* IInv holds while the events of a device are paired.
THEOREM Invariance == Spec => []IInv
<1>1. IInv /\ [Next]_vars => IInv'
  <2> SUFFICES ASSUME IInv, [Next]_vars PROVE IInv'
    OBVIOUS
  <2>1. CASE UNCHANGED vars
    BY <2>1, StutterKeepsIInv
  <2>2. CASE \E i \in Slots : SetAside(i)
    BY <2>2, SetAsideKeepsIInv
  <2>3. CASE \E i \in Slots : Command(i)
    BY <2>3, CommandKeepsIInv
  <2>4. CASE \E i \in Slots : Answer(i)
    BY <2>4, AnswerKeepsIInv
  <2>5. CASE \E i \in Slots : Unprompted(i)
    BY <2>5, UnpromptedKeepsIInv
  <2>6. CASE Finish
    BY <2>6, FinishKeepsIInv
  <2> QED
    BY <2>1, <2>2, <2>3, <2>4, <2>5, <2>6 DEF Next
<1> QED
  BY InitIInv, <1>1, PTL DEF Spec

\* _take_command and _pair_lane: however many commands are pending, pairs are
\* plausible, one to one and in order.
THEOREM PairingIsSound == Spec => []PairsAreSound
<1>1. IInv => PairsAreSound
  BY DEF IInv
<1> QED
  BY Invariance, <1>1, PTL

\* _flush_out: a command reported unanswered had its whole window in the
\* capture, and no IN in it that an older command did not take.
THEOREM UnansweredCommandsAreReal == Spec => []UnansweredIsReal
<1>1. ASSUME IInv PROVE UnansweredIsReal
  <2> SUFFICES ASSUME NEW c \in Slots, verdict[c] = "unanswered"
               PROVE  /\ Ok(c) /\ event[c].at + Timeout <= end
                      /\ \A r \in Slots : InWindow(c, r) =>
                           partner[r] \in Slots /\ partner[r] < c /\ Ok(partner[r])
    BY DEF UnansweredIsReal
  <2>1. IsCommand(c) /\ partner[c] = 0 /\ Ok(c) /\ event[c].at + Timeout <= end
    BY <1>1 DEF IInv, VerdictsMean
  <2>2. c <= n
    BY <1>1, Typed
  <2>3. \A r \in Slots : InWindow(c, r) => r <= n
    <3> SUFFICES ASSUME NEW r \in Slots, InWindow(c, r), r > n PROVE FALSE
      BY <1>1, Typed
    <3>1. ~done
      BY <1>1, Typed DEF IInv, RestIsBlank
    <3>2. n \in Slots /\ event[n].at > event[c].at + Timeout
      BY <1>1, <2>1, <2>2, <3>1, Typed DEF IInv, TypeOK, FlushedIsLate
    <3>3. event[n].at <= event[r].at
      BY <1>1, <3>2, Typed
    <3> QED
      BY <1>1, <3>2, <3>3, Typed DEF InWindow
  <2> QED
    BY <1>1, <2>1, <2>3 DEF IInv, OlderFirst
<1> QED
  BY Invariance, <1>1, PTL

\* _pair_lane: a response reported unsolicited had no command left to answer.
THEOREM UnsolicitedHadNoCommand == Spec => []NoCommandIsLeft
<1>1. IInv => NoCommandIsLeft
  BY DEF IInv
<1> QED
  BY Invariance, <1>1, PTL
=============================================================================
