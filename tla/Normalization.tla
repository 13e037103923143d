--------------------------- MODULE Normalization ---------------------------
(***************************************************************************)
(* How the analyzer makes the events of one device comparable              *)
(* (analyzer.py, normalize_tokens).  Events of a lane whose payloads begin *)
(* with the same header and have the same length are one message; bytes in *)
(* which they differ are masked.  The operators take the events in capture *)
(* order, as records [ep, dir, type, payload, failed, at], and speak of an *)
(* event by its position.                                                  *)
(***************************************************************************)
EXTENDS Naturals, FiniteSets, Sequences, FiniteSetsExt

CONSTANTS
  MaxHeaderBytes,   \* MAX_HEADER_ID_BYTES
  PrefixBytes,      \* PREFIX_SIGNATURE_BYTES
  LaneSamples,      \* MIN_LANE_SAMPLES_FOR_CARDINALITY_CHECK
  GroupSamples,     \* MIN_NORMALIZATION_SAMPLE_COUNT
  Masked            \* Python's None in a signature

ASSUME NormalizationAssumption ==
  /\ MaxHeaderBytes \in Nat \ {0} /\ PrefixBytes \in Nat /\ MaxHeaderBytes <= PrefixBytes
  /\ LaneSamples \in Nat \ {0, 1} /\ GroupSamples \in Nat
  /\ Masked \notin Nat

HeaderBytes == 1        \* HEADER_ID_BYTES
CardinalityFloor == 2   \* HEADER_CARDINALITY_FLOOR

-----------------------------------------------------------------------------
\* background_endpoints: an endpoint with interrupt INs only, of a device that
\* is sent OUTs.
Background(ev) ==
  {e \in {ev[i].ep : i \in DOMAIN ev} :
     /\ \E i \in DOMAIN ev : ev[i].dir = "out"
     /\ \A i \in DOMAIN ev : ev[i].ep = e => ev[i].dir = "in" /\ ev[i].type = "interrupt"}

\* Some of the events, under their positions.
Select(S, records) == [i \in S |-> records[i]]

Lane(e) == <<e.ep, e.dir, e.type>>

\* payload[:k]
First(k, payload) == SubSeq(payload, 1, IF k < Len(payload) THEN k ELSE Len(payload))

\* The lanes, each with its events.
LaneOf(ev, i) == Select({j \in DOMAIN ev : Lane(ev[j]) = Lane(ev[i])}, ev)
Lanes(ev) == {LaneOf(ev, i) : i \in DOMAIN ev}

\* _choose_header_mode: how many bytes tell the messages of a lane apart, 0 if none do.
HeaderSize(ev) ==
  LET filled == {j \in DOMAIN ev : ev[j].payload # <<>>}
      samples == Cardinality(filled)
      distinct(k) == Cardinality({First(k, ev[j].payload) : j \in filled})
      exceeds(k) == 10 * distinct(k) > 7 * samples
      sparse(k) == IF samples >= LaneSamples THEN exceeds(k) ELSE distinct(k) >= samples
      wider == {k \in HeaderBytes + 1..MaxHeaderBytes :
                  /\ distinct(k) >= CardinalityFloor
                  /\ \A l \in HeaderBytes + 1..k : ~sparse(l)}
  IN CASE filled = {} -> 0
       [] samples >= LaneSamples /\ exceeds(HeaderBytes) -> 0
       [] distinct(HeaderBytes) < CardinalityFloor /\ wider # {} -> Min(wider)
       [] OTHER -> HeaderBytes

\* What the events of a message have in common: a header (or prefix) and a length.
Key(ev, i) == First(LET size == HeaderSize(ev) IN IF size = 0 THEN PrefixBytes ELSE size, ev[i].payload)
Group(ev, i) == {j \in DOMAIN ev : Key(ev, j) = Key(ev, i) /\ Len(ev[j].payload) = Len(ev[i].payload)}

\* The messages of a lane.  A group with too few events to tell what varies is
\* classified together with the other such groups of its header (members).
Messages(ev) ==
  LET size == HeaderSize(ev)
      small(g) == size > 0 /\ Cardinality(g) < GroupSamples
      pool(i) == {j \in DOMAIN ev : Key(ev, j) = Key(ev, i) /\ small(Group(ev, j))}
  IN {LET g == Group(ev, i)
      IN [events |-> g,
          members |-> IF small(g) THEN pool(i) ELSE g,
          mode |-> CASE small(g) -> "prefix" [] size = 0 -> "full_prefix" [] OTHER -> "full"]
        : i \in DOMAIN ev}

Lengths(ev, m) == {Len(ev[j].payload) : j \in m.members}

\* Mutant: nothing is masked.
SignatureUnmasked(ev, m) == ev[Min(m.members)].payload

\* _classify
Signature(ev, m) ==
  LET width == IF m.mode = "full" THEN Max(Lengths(ev, m)) ELSE Min({PrefixBytes, Max(Lengths(ev, m))})
      first == ev[Min(m.members)].payload
      values(p) == {ev[j].payload[p] : j \in {k \in m.members : p <= Len(ev[k].payload)}}
      literal(p) == /\ p <= Len(first)
                    /\ Cardinality(values(p)) = 1 \/ m.mode = "full_prefix"
  IN [p \in 1..width |-> IF literal(p) THEN first[p] ELSE Masked]

\* For each message of a lane its events, their token, and the lengths it reports.
Tokenize(ev) ==
  {[events |-> m.events,
    token |-> <<Lane(ev[Min(m.events)]), m.mode, Signature(ev, m)>>,
    lengths |-> Lengths(ev, m)]
     : m \in Messages(ev)}

\* normalize_tokens
Normalize(ev) == UNION {Tokenize(lane) : lane \in Lanes(ev)}

\* token_by_index
TokenOf(messages, i) == (CHOOSE m \in messages : i \in m.events).token

\* info_by_token: of the groups with a token, the one that begins last in the
\* capture reports its lengths.
ReportedLengths(messages, t) ==
  LET alike == {m \in messages : m.token = t}
  IN (CHOOSE m \in alike : \A n \in alike : Min(n.events) <= Min(m.events)).lengths
=============================================================================
