-------------------------- MODULE ProtocolAnalysis --------------------------
(***************************************************************************)
(* From the transactions of one device to what analyze_protocol says of it *)
(* (analyzer.py, analysis/description.py): the events, their streams, the  *)
(* patterns of RepeatedSequences, and what is found once more from the     *)
(* capture: the pairs that time a pattern, the observations that were made *)
(* but once, and the events that are shown for anomalies.                  *)
(*                                                                         *)
(* A transaction stands for its payload record, and a packet index for the *)
(* position of that record in the log.  Time stamps are ticks since the    *)
(* first: records are captured in their order, and several may have one.   *)
(* Markers are added when the capture is loaded, and the description is    *)
(* always that of the current markers.                                     *)
(***************************************************************************)
EXTENDS Normalization, RepeatedSequences

CONSTANTS
  Transactions,      \* what can be in the capture
  MaxTransactions,   \* bound: length of the capture
  MaxTime,           \* bound: its last time stamp
  Names,             \* of markers
  MaxMarkers,        \* bound: markers added
  MarkerWindow,      \* MARKER_CORRELATION_WINDOW_SECONDS
  MaxObservations,   \* MAX_OBSERVATIONS_RETURNED
  AnomalyBytes,      \* _ANOMALY_PREFIX_BYTES
  Tolerance          \* by which stamps may differ that are looked up as one

ASSUME ProtocolAnalysisAssumption ==
  /\ \A x \in Transactions : x.payload \in Seq(Nat)
  /\ MaxTransactions \in Nat /\ MaxTime \in Nat /\ MaxMarkers \in Nat
  /\ MarkerWindow \in Nat /\ MaxObservations \in Nat
  /\ AnomalyBytes \in Nat /\ Tolerance \in Nat

VARIABLES
  log,       \* transactions of the device, in the order of their payload records
  scope,     \* the argument of detect_repeated_sequences
  markers    \* Capture.markers, in the order they were added

vars == <<log, scope, markers, detectVars>>

-----------------------------------------------------------------------------
InOrder(S) == [k \in 1..Cardinality(S) |-> CHOOSE i \in S : Cardinality({j \in S : j <= i}) = k]

\* build_analysis_events: not control, and the payload record was captured.
AnalysisEvents(records) ==
  Select({i \in DOMAIN records : records[i].type # "control" /\ records[i].form # "missing"}, records)

Ok(e) == e.form # "failed"

\* What detect_repeated_sequences normalizes, and which of it it counts.
Considered(records, sc) ==
  LET ev == AnalysisEvents(records)
      quiet == IF sc = "device" THEN Background(ev) ELSE {}
  IN Select({i \in DOMAIN ev : ev[i].ep \notin quiet}, ev)
Usable(ev) == {i \in DOMAIN ev : Ok(ev[i])}

\* _streams: the one of the device, or one for each endpoint and transfer type.
DeviceStream == <<0, "device">>
StreamKey(e, sc) == IF sc = "device" THEN DeviceStream ELSE <<e.ep, e.type>>
StreamOf(ev, sc, g) == InOrder({i \in Usable(ev) : StreamKey(ev[i], sc) = g})

AnalysisInit ==
  /\ \E m \in 0..MaxTransactions : log \in [1..m -> Transactions]
  /\ scope \in {"device", "endpoint_lane"}
  /\ markers = <<>>
  /\ time \in {t \in [DOMAIN log -> 0..MaxTime] :
                /\ \A i, j \in DOMAIN log : i < j => t[i] <= t[j]
                /\ 1 \in DOMAIN log => t[1] = 0}
  /\ LET ev == Considered(log, scope)
     IN \E messages \in {Normalize(ev)} :
          /\ stream = [g \in Streams |-> StreamOf(ev, scope, g)]
          /\ token = [g \in Streams |->
                        [k \in DOMAIN stream[g] |-> TokenOf(messages, stream[g][k])]]
  /\ DetectInit

Detect == DetectNext /\ UNCHANGED <<log, scope, markers>>

\* assemble_protocol_hypotheses works on the device scope, after the detection.
Described == listed # <<>> /\ scope = "device"

\* Session.add_marker
AddMarker ==
  /\ Len(markers) < MaxMarkers
  /\ Described
  /\ \E name \in Names, i \in DOMAIN log :
       /\ \A k \in DOMAIN markers : markers[k].name # name
       /\ markers' = Append(markers, [name |-> name, index |-> i])
  /\ UNCHANGED <<log, scope, detectVars>>

AnalysisNext == Detect \/ AddMarker

AnalysisSpec == AnalysisInit /\ [][AnalysisNext]_vars

-----------------------------------------------------------------------------
End(w) == stream[w[1]][w[3]]

\* Mutant: the end of an occurrence is not part of it.
TimesOpen(c, q) ==
  \E w \in Occurrences(q) : time[Start(w)] <= time[c] /\ time[c] < time[End(w)]

\* _attach_response_timing: the pair of this command counts for the pattern.
Times(c, q) ==
  \E w \in Occurrences(q) : time[Start(w)] <= time[c] /\ time[c] <= time[End(w)]

-----------------------------------------------------------------------------
\* _single_occurrence_observations counts once more, and normalizes other events: those
\* that did not fail, polls included.
Fresh == LET ev == AnalysisEvents(log) IN Select(Usable(ev), ev)
FreshOrder == InOrder(DOMAIN Fresh)

\* How far two packets are apart in time.
Apart(i, j) == IF time[i] < time[j] THEN time[j] - time[i] ELSE time[i] - time[j]

\* _nearest_marker: its distance is the least of these.
Distances(i) == {Apart(i, markers[k].index) : k \in DOMAIN markers}
NearMarker(i) == \E d \in Distances(i) : d <= MarkerWindow

\* Mutant: patterns are not left out.
CandidatesPromoted(order, all) ==
  {x \in all : \A y \in all : y.tokens = x.tokens => y = x}

\* The windows that become observations, if there is room.
Candidates(order, all) ==
  {x \in all :
     /\ \A y \in all : y.tokens = x.tokens => y = x
     /\ x.tokens \notin Listed
     /\ \/ NearMarker(order[x.first])
        \/ {log[order[k]].dir : k \in x.first..x.last} = {"in", "out"}}

\* _observation_sort_key
ObservedBefore(order, x, y) ==
  LET near(z) == NearMarker(order[z.first])
      distance(z) == Min(Distances(order[z.first]))
      closer(v, w) == near(v) /\ (near(w) => distance(v) < distance(w))
      longer(v, w) == v.last - v.first > w.last - w.first
  IN \/ closer(x, y)
     \/ ~closer(y, x) /\ (longer(x, y) \/ (~longer(y, x) /\ x.first < y.first))

\* The observations, as the sets of their packets.
Observations ==
  LET order == FreshOrder
      messages == Normalize(Fresh)
      windows == {w \in (DOMAIN order) \X (DOMAIN order) : w[1] <= w[2] /\ w[2] - w[1] < MaxWindow}
      all == {[first |-> w[1], last |-> w[2], tokens |-> [k \in 1..w[2] - w[1] + 1 |-> TokenOf(messages, order[w[1] + k - 1])]]
                : w \in windows}
      found == Candidates(order, all)
      top == {x \in found : Cardinality({y \in found : ObservedBefore(order, y, x)}) < MaxObservations}
  IN {{order[k] : k \in x.first..x.last} : x \in top}

-----------------------------------------------------------------------------
\* What the pairing pass may report, as an unanswered command or as an unsolicited response.
Anomalous ==
  {i \in DOMAIN AnalysisEvents(log) : log[i].form = "ok" /\ log[i].payload # <<>>}

\* The events that _find_event_sample takes for one, but for their time.
Like(c) ==
  {i \in DOMAIN AnalysisEvents(log) :
     /\ log[i].ep = log[c].ep /\ log[i].dir = log[c].dir
     /\ Len(log[i].payload) = Len(log[c].payload)}

\* Mutant: whenever they were.
SamplesAnytime(c) == {i \in Like(c) : \A j \in Like(c) : i <= j}

\* _find_event_sample: the first event with the time of the anomaly, as near as can be
\* told after rounding, is shown for it.
Samples(c) ==
  {i \in Like(c) : Apart(i, c) <= Tolerance /\ \A j \in Like(c) : time[j] = time[c] => i <= j}

\* What can be shown for each of some anomalies.
Lookups(A) == {f \in [A -> DOMAIN log] : \A c \in A : f[c] \in Samples(c)}

\* _anomaly_groups: the events that are reported in one group with that of c.
Reported(f, c) ==
  LET kind(i) == <<Lane(log[i]), First(AnomalyBytes, log[i].payload)>>
  IN {f[d] : d \in {d \in DOMAIN f : kind(f[d]) = kind(f[c])}}

-----------------------------------------------------------------------------
AnalysisTypeOK ==
  /\ log \in Seq(Transactions) /\ Len(log) <= MaxTransactions
  /\ width \in MinWindow - 1..MaxWindow
  /\ \A i \in DOMAIN listed : listed[i] \in Seq(Tokens)
  /\ DOMAIN parent = DOMAIN listed
  /\ time \in [DOMAIN log -> 0..MaxTime]
  /\ markers \in Seq([name : Names, index : DOMAIN log])

\* A token tells what it stands for (analyzer.py:495-556): the payload of each event agrees with the
\* bytes its signature does not mask, and unless the header of its lane tells
\* nothing, its length is one of those reported.
TokensDescribe ==
  width = MinWindow - 1 /\ listed = <<>> =>
    LET ev == Considered(log, scope)
        messages == Normalize(ev)
    IN \A i \in DOMAIN ev :
         LET t == TokenOf(messages, i)
         IN /\ t[1] = Lane(ev[i])
            /\ \A p \in DOMAIN t[3] : p <= Len(ev[i].payload) => t[3][p] \in {Masked, ev[i].payload[p]}
            /\ t[2] # "full_prefix" => Len(ev[i].payload) \in ReportedLengths(messages, t)

\* A pattern's response time is that of its own commands (description.py:764): each of them
\* is joined to it, and one that is joined by its time alone is one of the
\* events of the occurrence, although polls and failures are not in the stream,
\* or has the time stamp of its first or of its last event.
TimingIsNear ==
  Described => \A q \in Listed, c \in DOMAIN log :
    log[c].type # "control" /\ log[c].dir = "out" /\ log[c].form = "ok" =>
      LET own(w) == \E k \in w[2]..w[3] : stream[w[1]][k] = c
          edge(w) == time[c] \in {time[Start(w)], time[End(w)]}
      IN /\ (\E w \in Occurrences(q) : own(w)) => Times(c, q)
         /\ Times(c, q) => \E w \in Occurrences(q) : own(w) \/ edge(w)

\* What is reported as seen but once is not also reported as repeated
\* (description.py:874), although the observations are counted in another stream
\* of events: the polls cut it up, but do not make a pattern look single.
ObservationsAreSingle ==
  Described /\ (\A i \in DOMAIN log : log[i].form # "failed") =>
    \A o \in Observations, q \in Listed : \A w \in Occurrences(q) :
      {stream[DeviceStream][k] : k \in w[2]..w[3]} # o

\* An anomaly is found again in the capture by its time stamp (description.py:1071).  The
\* group it is reported in spans its time, to within the tolerance, and it is
\* shown as itself unless another event like it is as near.
AnomaliesAreFound ==
  width = MinWindow - 1 /\ listed = <<>> /\ scope = "device" =>
    \A A \in SUBSET Anomalous : \A f \in Lookups(A), c \in A :
      LET group == Reported(f, c)
      IN /\ time[Min(group)] <= time[c] /\ time[c] <= time[Max(group)] + Tolerance
         /\ f[c] # c => \E i \in Like(c) : i < c /\ Apart(i, c) <= Tolerance
=============================================================================
