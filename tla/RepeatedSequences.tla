------------------------- MODULE RepeatedSequences -------------------------
(***************************************************************************)
(* The repeated sequences of one device (analyzer.py, _detect_for_device). *)
(* Every window of a stream of events, of MinWindow to MaxWindow tokens,   *)
(* is counted.  Of the sequences that repeat, the pass goes through the    *)
(* longest first and drops one that a longer kept one explains; the rest   *)
(* is ranked and cut to MaxPatterns.                                       *)
(*                                                                         *)
(* The loop looks only at longer sequences, so the model takes all         *)
(* sequences of a length in one step.  A window is <<stream, first, last>>.*)
(***************************************************************************)
EXTENDS Integers, FiniteSets, Sequences

CONSTANTS
  Tokens,           \* what normalize_tokens makes of events
  Streams,          \* the streams that are counted, see _streams
  MinWindow, MaxWindow, MinOccurrences, MaxPatterns,   \* the arguments
  NoParent          \* Python's None

ASSUME RepeatedSequencesAssumption ==
  /\ IsFiniteSet(Streams)
  /\ MinWindow \in Nat \ {0} /\ MaxWindow \in Nat /\ MinWindow <= MaxWindow
  /\ MinOccurrences \in Nat \ {0, 1}
  /\ MaxPatterns \in Nat
  /\ NoParent \notin Seq(Tokens)

VARIABLES
  time,      \* the time stamps of the packets of the capture
  stream,    \* the positions of the events of each stream in the capture
  token,     \* token_by_index, by stream
  width,     \* the sequences longer than this are decided
  kept,      \* those that were not dropped
  listed,    \* the patterns, in their rank
  parent     \* parent_of, by pattern

detectVars == <<time, stream, token, width, kept, listed, parent>>

-----------------------------------------------------------------------------
\* The windows, what is in one, and where a sequence occurs.
Windows ==
  UNION {{w \in {g} \X (DOMAIN token[g]) \X (DOMAIN token[g]) :
            w[3] - w[2] + 1 \in MinWindow..MaxWindow} : g \in Streams}
Gram(w) == SubSeq(token[w[1]], w[2], w[3])
Occurrences(q) == {w \in Windows : Gram(w) = q}
Count(q) == Cardinality(Occurrences(q))

\* Counter, and what is left of it.
Repeated == {q \in {Gram(w) : w \in Windows} : Count(q) >= MinOccurrences}

\* short is in long, d tokens after its first.
InAt(short, long, d) ==
  d + Len(short) <= Len(long) /\ SubSeq(long, d + 1, d + Len(short)) = short

\* _contains, of a longer sequence.
PartOf(short, long) ==
  Len(short) < Len(long) /\ \E d \in 0..Len(long) : InAt(short, long, d)

\* Mutant: a longer sequence explains a shorter one, however often each occurs.
ExplainedByAny(q) == \E long \in kept : PartOf(q, long)

\* Mutant: only what a longer sequence begins with is a part of it.
ExplainedAsPrefix(q) ==
  \E long \in kept : Len(q) < Len(long) /\ InAt(q, long, 0) /\ Count(long) = Count(q)

\* A longer kept sequence occurs as often.
Explained(q) == \E long \in kept : PartOf(q, long) /\ Count(long) = Count(q)

DetectInit ==
  /\ token \in [Streams -> Seq(Tokens)]
  /\ time \in Seq(Nat)
  /\ stream \in [Streams -> Seq(Nat)]
  /\ \A g \in Streams :
       /\ DOMAIN stream[g] = DOMAIN token[g]
       /\ \A k \in DOMAIN stream[g] : stream[g][k] \in DOMAIN time
  /\ width = MaxWindow
  /\ kept = {}
  /\ listed = <<>>
  /\ parent = <<>>

\* Mutant: the loop goes on below the shortest window.
SubsumeBelow ==
  /\ width >= MinWindow - 1
  /\ kept' = kept \cup {q \in Repeated : Len(q) = width /\ ~Explained(q)}
  /\ width' = width - 1
  /\ UNCHANGED <<time, stream, token, listed, parent>>

\* For each length of a sequence, from the longest.
Subsume ==
  /\ width >= MinWindow
  /\ kept' = kept \cup {q \in Repeated : Len(q) = width /\ ~Explained(q)}
  /\ width' = width - 1
  /\ UNCHANGED <<time, stream, token, listed, parent>>

\* The packet of a sequence's first event.
Start(w) == stream[w[1]][w[2]]

\* When a sequence occurs for the first time.
Earliest(q) ==
  LET starts == {time[Start(w)] : w \in Occurrences(q)}
  IN CHOOSE t \in starts : \A u \in starts : t <= u

\* Mutant: the other way round.
RarerFirst(q, r) == Count(q) < Count(r)

\* surviving.sort
RanksBefore(q, r) ==
  \/ Count(q) > Count(r)
  \/ Count(q) = Count(r) /\ Len(q) > Len(r)
  \/ Count(q) = Count(r) /\ Len(q) = Len(r) /\ Earliest(q) < Earliest(r)

\* What the sort may come to: the order of tokens decides where RanksBefore does not.
Rankings ==
  {f \in [1..Cardinality(kept) -> kept] :
     \A i, j \in DOMAIN f : i < j => f[i] # f[j] /\ ~RanksBefore(f[j], f[i])}

\* parent_of: the first kept sequence around a pattern, which is a longest one
\* (CHOOSE stands for the order of tokens).
Parent(q) ==
  LET around == {long \in kept : PartOf(q, long)}
  IN IF around = {} THEN NoParent
     ELSE CHOOSE long \in around : \A l \in around : Len(l) <= Len(long)

\* identifiers.get: a parent that is not listed has no identifier.
Rank ==
  /\ width = MinWindow - 1
  /\ listed = <<>> /\ kept # {}
  /\ \E ranking \in Rankings :
       LET n == Cardinality(kept)
           top == SubSeq(ranking, 1, IF MaxPatterns < n THEN MaxPatterns ELSE n)
           shown == {top[i] : i \in DOMAIN top}
       IN /\ listed' = top
          /\ parent' = [i \in DOMAIN top |->
                          IF Parent(top[i]) \in shown THEN Parent(top[i]) ELSE NoParent]
  /\ UNCHANGED <<time, stream, token, width, kept>>

DetectNext == Subsume \/ Rank

DetectSpec == DetectInit /\ [][DetectNext]_detectVars

-----------------------------------------------------------------------------
\* v is a part of the window w.
Within(v, w) == v[1] = w[1] /\ w[2] <= v[2] /\ v[3] <= w[3]

\* A sequence that is dropped is fully explained (analyzer.py:818): whatever overlaps,
\* each of its occurrences lies in an occurrence of one longer sequence that is
\* kept and occurs as often.
DroppedIsExplained ==
  \A q \in Repeated : Len(q) > width =>
    \/ q \in kept
    \/ \E long \in kept :
         /\ Len(long) > Len(q)
         /\ Count(long) = Count(q)
         /\ \A v \in Occurrences(q) : \E w \in Occurrences(long) : Within(v, w)

\* What is kept says something of its own (analyzer.py:823): it repeats, and
\* it occurs more often than each kept sequence that it is a part of.
KeptIsNews ==
  /\ kept \subseteq Repeated
  /\ \A q, long \in kept : PartOf(q, long) => Count(long) < Count(q)

Listed == {listed[i] : i \in DOMAIN listed}

\* The list a client sees (analyzer.py:824-864), however ties are broken: no pattern
\* twice; a parent is listed, after its part; and if nothing was cut off, a
\* listed pattern that is a part of another has a parent.
ListIsCoherent ==
  /\ \A i, j \in DOMAIN listed : listed[i] = listed[j] => i = j
  /\ \A i \in DOMAIN listed : parent[i] # NoParent =>
       \E j \in DOMAIN listed : i < j /\ listed[j] = parent[i] /\ PartOf(listed[i], listed[j])
  /\ listed # <<>> /\ Listed = kept =>
       \A i \in DOMAIN listed :
         (\E q \in Listed : PartOf(listed[i], q)) => parent[i] # NoParent
=============================================================================
