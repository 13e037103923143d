--------------------------- MODULE CommandPairing ---------------------------
(***************************************************************************)
(* The command/response pairing pass for one device (analysis/pairing.py). *)
(* The device's events come in the order _result_for sorts them into: by   *)
(* time, OUT before IN on a tie.  Each is filed once, in one of the lists  *)
(* of PairingResult or as explained traffic that is reported nowhere.      *)
(*                                                                         *)
(* The deque of a lane is the set of its pending events: it is appended to *)
(* in order of arrival, so its head is the smallest number.  An event's    *)
(* payload is whether it has one.  Times are ticks.  A transaction without *)
(* its payload half is no event and is left out.  A quiet event is one of  *)
(* an endpoint that background_endpoints suppresses: an interrupt IN.      *)
(***************************************************************************)
EXTENDS Naturals, Sequences

CONSTANTS
  Types,       \* transfer types of the capture: each is a lane
  Forms,       \* what transactions come to, see Event
  Timeout,     \* COMMAND_RESPONSE_TIMEOUT_SECONDS
  MaxEvents,   \* bound: events of the device in the capture
  MaxTime      \* bound: length of the capture

ASSUME CommandPairingAssumption ==
  /\ Types \subseteq {"bulk", "interrupt"}
  /\ Forms \subseteq {"ok", "failed", "empty", "orphan"}
  /\ Timeout \in Nat
  /\ MaxEvents \in Nat
  /\ MaxTime \in Nat

VARIABLES
  end,         \* capture_end, over all traffic and all devices
  event,       \* the sorted events
  n,           \* how many of them were processed
  verdict,     \* where each event was filed
  partner,     \* the event it was taken out of the lane with, or 0
  done         \* the lanes are flushed

vars == <<end, event, n, verdict, partner, done>>

-----------------------------------------------------------------------------
\* A transaction is successful with a payload ("ok"), not successful,
\* successful without a payload, or half of it is not in the capture.
Event == {e \in [at : 0..MaxTime, dir : {"out", "in"}, type : Types, form : Forms,
                 quiet : BOOLEAN] :
            e.quiet => e.dir = "in" /\ e.type = "interrupt"}

\* The order of _result_for's sort.
Before(d, e) == d.at < e.at \/ (d.at = e.at /\ (e.dir = "out" => d.dir = "out"))

Sorted(log) == \A i, j \in DOMAIN log : i < j => Before(log[i], log[j])

\* background_endpoints suppresses nothing of a device that gets no OUT.
Background(log) ==
  (\E i \in DOMAIN log : log[i].quiet) =>
     \E i \in DOMAIN log : log[i].dir = "out" /\ log[i].form # "orphan"

Slots == DOMAIN event

Init ==
  /\ end \in 0..MaxTime
  /\ \E m \in 0..MaxEvents : event \in [1..m -> {e \in Event : e.at <= end}]
  /\ Sorted(event)
  /\ Background(event)
  /\ n = 0
  /\ verdict = [i \in Slots |-> "none"]
  /\ partner = [i \in Slots |-> 0]
  /\ done = FALSE

Ok(i) == event[i].form = "ok"

\* Mutant: one lane for all transfer types.
PendingAnyType(type) == {i \in Slots : verdict[i] = "pending"}

Pending(type) == {i \in Slots : verdict[i] = "pending" /\ event[i].type = type}

\* Mutant: the comparison of _pair_lane at the boundary.
ExpiredEarly(i) ==
  {c \in Pending(event[i].type) :
     \A d \in Pending(event[i].type) : d <= c => event[i].at >= event[d].at + Timeout}

\* What the loop at the head of _pair_lane pops for the IN i.
Expired(i) ==
  {c \in Pending(event[i].type) :
     \A d \in Pending(event[i].type) : d <= c => event[i].at > event[d].at + Timeout}

\* The commands that IN may answer.
Waiting(i) == Pending(event[i].type) \ Expired(i)

\* Mutant: _flush_out without the boundary rule.
FlushedAnyway(c) == IF Ok(c) THEN "unanswered" ELSE "explained"

\* _flush_out
Flushed(c) ==
  IF ~Ok(c) THEN "explained"
  ELSE IF end < event[c].at + Timeout THEN "boundary" ELSE "unanswered"

\* The verdicts once the commands of S are flushed.
Flush(S) == [c \in Slots |-> IF c \in S THEN Flushed(c) ELSE verdict[c]]

\* Mutant: popleft, whatever is at the head.
TakesHead(c, waiting) ==
  c \in waiting /\ \A d \in waiting : c <= d

\* _take_command: the oldest successful command, else the oldest.
Takes(c, waiting) ==
  /\ c \in waiting
  /\ Ok(c) \/ \A d \in waiting : ~Ok(d)
  /\ \A d \in waiting : Ok(d) = Ok(c) => c <= d

\* Event i is the next one.
Process(i) ==
  /\ i = n + 1
  /\ n' = i
  /\ UNCHANGED <<end, event, done>>

\* The event enters no lane: the other half of its transaction is not in the
\* capture, it is successful and empty, or its endpoint is suppressed.
Aside(i) == event[i].form \in {"orphan", "empty"} \/ event[i].quiet

SetAside(i) ==
  /\ Process(i)
  /\ Aside(i)
  /\ verdict' = [verdict EXCEPT ![i] =
       CASE event[i].form = "orphan" -> "incomplete"
         [] event[i].form = "empty" -> "excluded"
         [] event[i].form = "ok" -> "unsolicited"
         [] OTHER -> "explained"]
  /\ UNCHANGED partner

\* An OUT joins the pending commands of its lane.
Command(i) ==
  /\ Process(i)
  /\ ~Aside(i) /\ event[i].dir = "out"
  /\ verdict' = [verdict EXCEPT ![i] = "pending"]
  /\ UNCHANGED partner

\* An IN takes a command that is still in its window; two successful ones are
\* a pair, and a failure explains the other.
Answer(i) ==
  /\ Process(i)
  /\ ~Aside(i) /\ event[i].dir = "in"
  /\ \E c \in Slots :
       /\ Takes(c, Waiting(i))
       /\ verdict' = LET v == IF Ok(c) /\ Ok(i) THEN "paired" ELSE "explained"
                     IN [Flush(Expired(i)) EXCEPT ![c] = v, ![i] = v]
       /\ partner' = [partner EXCEPT ![c] = i, ![i] = c]

\* An IN finds no command to answer.
Unprompted(i) ==
  /\ Process(i)
  /\ ~Aside(i) /\ event[i].dir = "in"
  /\ Waiting(i) = {}
  /\ verdict' = [Flush(Expired(i)) EXCEPT ![i] = IF Ok(i) THEN "unsolicited" ELSE "explained"]
  /\ UNCHANGED partner

\* The lanes are exhausted: what is pending is flushed.
Finish ==
  /\ ~done
  /\ n + 1 \notin Slots
  /\ done' = TRUE
  /\ verdict' = Flush({c \in Slots : verdict[c] = "pending"})
  /\ UNCHANGED <<end, event, n, partner>>

Next ==
  \/ \E i \in Slots : SetAside(i)
  \/ \E i \in Slots : Command(i)
  \/ \E i \in Slots : Answer(i)
  \/ \E i \in Slots : Unprompted(i)
  \/ Finish

Spec == Init /\ [][Next]_vars

-----------------------------------------------------------------------------
Verdicts == {"none", "pending", "paired", "unanswered", "unsolicited", "explained",
             "boundary", "incomplete", "excluded"}

TypeOK ==
  /\ end \in 0..MaxTime
  /\ event \in Seq(Event) /\ Len(event) <= MaxEvents
  /\ n \in Slots \cup {0}
  /\ verdict \in [Slots -> Verdicts]
  /\ partner \in [Slots -> Slots \cup {0}]
  /\ done \in BOOLEAN

\* An OUT of a lane, and an IN after it in that lane and in the window in
\* which an IN may answer it.
IsCommand(c) == event[c].dir = "out" /\ ~Aside(c)
InWindow(c, r) ==
  /\ c < r
  /\ event[r].dir = "in" /\ ~Aside(r)
  /\ event[r].type = event[c].type
  /\ event[r].at <= event[c].at + Timeout

\* Pairs are plausible and do not cross: both halves are successful, in one
\* lane, within the window, each in one pair only, and of two paired commands
\* of a lane the first has the first response.
PairsAreSound ==
  /\ \A c \in Slots : verdict[c] = "paired" /\ event[c].dir = "out" =>
       LET r == partner[c] IN
         /\ r \in Slots
         /\ verdict[r] = "paired" /\ partner[r] = c
         /\ Ok(c) /\ Ok(r) /\ IsCommand(c)
         /\ InWindow(c, r)
  /\ \A c, d \in Slots :
       /\ verdict[c] = "paired" /\ verdict[d] = "paired"
       /\ event[c].dir = "out" /\ event[d].dir = "out"
       /\ event[c].type = event[d].type
       /\ c < d
       => partner[c] < partner[d]

\* An unanswered command is a real one (_flush_out): it was successful, its
\* whole window lies in the capture, and every IN of its lane in that window,
\* failed or not, was spent on an older successful command.
UnansweredIsReal ==
  \A c \in Slots : verdict[c] = "unanswered" =>
    /\ Ok(c)
    /\ event[c].at + Timeout <= end
    /\ \A r \in Slots : InWindow(c, r) =>
         partner[r] \in Slots /\ partner[r] < c /\ Ok(partner[r])

\* What is reported as unsolicited found no command (pairing.py:413): each OUT of
\* its lane in whose window it lies, failed or not, was taken by an IN before
\* it.  That is no claim that nothing explains it: see RetryIsExplained.
NoCommandIsLeft ==
  \A r \in Slots : verdict[r] = "unsolicited" /\ ~event[r].quiet =>
    \A c \in Slots : IsCommand(c) /\ InWindow(c, r) =>
      partner[c] \in Slots /\ partner[c] < r

\* What makes these inductive.  The log is sorted and ends with the capture,
\* and the events not processed yet are blank.
RestIsBlank ==
  /\ Sorted(event) /\ \A i \in Slots : event[i].at <= end
  /\ \A i \in Slots : i > n => verdict[i] = "none" /\ partner[i] = 0
  /\ done => n + 1 \notin Slots

\* What is pending, was flushed or was paired is what these words mean.
VerdictsMean ==
  \A i \in Slots :
    /\ verdict[i] = "pending" => IsCommand(i) /\ partner[i] = 0 /\ ~done
    /\ verdict[i] = "unanswered" =>
         IsCommand(i) /\ partner[i] = 0 /\ Ok(i) /\ event[i].at + Timeout <= end
    /\ verdict[i] = "paired" => partner[i] # 0 /\ Ok(i)

\* Events are taken out in twos: a command and an IN in its window.
PartnersMatch ==
  \A i \in Slots : partner[i] # 0 =>
    /\ partner[i] <= n
    /\ partner[partner[i]] = i
    /\ verdict[partner[i]] = verdict[i]
    /\ event[i].dir = "out" => IsCommand(i) /\ InWindow(i, partner[i])

\* A command that left its lane without an IN is out of reach of the next.
FlushedIsLate ==
  \A c \in Slots : IsCommand(c) /\ c <= n /\ partner[c] = 0 /\ verdict[c] # "pending" =>
    done \/ event[n].at > event[c].at + Timeout

\* While a successful command has no IN, the INs of its window went to older
\* successful commands ...
OlderFirst ==
  \A c \in Slots : IsCommand(c) /\ Ok(c) /\ partner[c] = 0 =>
    \A r \in Slots : r <= n /\ InWindow(c, r) =>
      partner[r] \in Slots /\ partner[r] < c /\ Ok(partner[r])

\* ... and while it is pending no later command of its lane gets an IN.
NoOvertaking ==
  \A c, d \in Slots :
    verdict[c] = "pending" /\ Ok(c) /\ c < d /\ IsCommand(d) /\ event[c].type = event[d].type
      => partner[d] = 0

\* The inductive invariant.
IInv ==
  /\ TypeOK
  /\ RestIsBlank
  /\ VerdictsMean
  /\ PartnersMatch
  /\ FlushedIsLate
  /\ OlderFirst
  /\ NoOvertaking
  /\ PairsAreSound
  /\ NoCommandIsLeft

\* docs/architecture/m3-engine-spec.md:389: an IN is unsolicited if no compatible OUT is
\* before it in the window, unless failed traffic explains it.  The IN that
\* answers a successful command after an IN that failed is not unsolicited.
RetryIsExplained ==
  \A r \in Slots : verdict[r] = "unsolicited" =>
    ~\E c \in Slots : /\ IsCommand(c) /\ Ok(c) /\ InWindow(c, r)
                      /\ partner[c] # 0 /\ ~Ok(partner[c])

\* docs/architecture/m3-engine-spec.md:392: a command is not unanswered if an incomplete
\* transfer at the boundary of the capture explains it.  No IN whose
\* submission is missing lies in the window of an unanswered command.
BoundaryExplains ==
  \A c \in Slots : verdict[c] = "unanswered" =>
    \A r \in Slots :
      event[r].form = "orphan" /\ event[r].dir = "in" /\ event[r].type = event[c].type =>
        ~(c < r /\ event[r].at <= event[c].at + Timeout)

\* Both exemptions are of one clause (m3-engine-spec.md:389-396).  No log breaks both at once: a
\* log that does refutes each of them.
OneExemptionHolds == BoundaryExplains \/ RetryIsExplained

=============================================================================
