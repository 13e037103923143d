----------------------- MODULE ProtocolAnalysisProofs -----------------------
(***************************************************************************)
(* Proofs about RepeatedSequences and ProtocolAnalysis, for captures and   *)
(* streams of any length, and any window, limits and markers: nothing that *)
(* repeats is dropped without being a part, wherever it occurs, of         *)
(* something longer that is kept; the list is coherent; tokens agree with  *)
(* the payloads they stand for; and the commands, the single observations  *)
(* and the anomalies that are looked up again are what they are taken for. *)
(***************************************************************************)
EXTENDS ProtocolAnalysis, OrderLemmas, SequenceTheorems

-----------------------------------------------------------------------------
DetectTypeOK ==
  /\ token \in [Streams -> Seq(Tokens)]
  /\ width \in MinWindow - 1..MaxWindow

\* SubSeq, of a sequence.
LEMMA SubSeqFacts ==
  ASSUME NEW T, NEW t \in Seq(T), NEW f \in 1..Len(t), NEW l \in f..Len(t)
  PROVE  /\ SubSeq(t, f, l) \in Seq(T)
         /\ Len(SubSeq(t, f, l)) = l - f + 1
         /\ \A i \in 1..l - f + 1 : SubSeq(t, f, l)[i] = t[f + i - 1]
<1>1. Len(t) \in Nat /\ \A i \in 1..Len(t) : t[i] \in T
  OBVIOUS
<1>2. \A i \in f..l : t[i] \in T
  BY <1>1
<1>3. f \in Int /\ l \in Int /\ f <= l
  BY <1>1
<1> QED BY <1>2, <1>3, SubSeqProperties

\* The first m of a sequence.
LEMMA FirstsFacts ==
  ASSUME NEW T, NEW t \in Seq(T), NEW m \in 0..Len(t)
  PROVE  /\ SubSeq(t, 1, m) \in Seq(T) /\ Len(SubSeq(t, 1, m)) = m
         /\ \A i \in 1..m : SubSeq(t, 1, m)[i] = t[i]
<1>1. CASE m = 0
  <2>1. SubSeq(t, 1, m) = <<>>
    BY <1>1
  <2> QED BY <1>1, <2>1
<1>2. CASE m # 0
  <2>1. 1 \in 1..Len(t) /\ m \in 1..Len(t) /\ m - 1 + 1 = m
    BY <1>2
  <2>2. SubSeq(t, 1, m) \in Seq(T) /\ Len(SubSeq(t, 1, m)) = m - 1 + 1
        /\ \A i \in 1..m - 1 + 1 : SubSeq(t, 1, m)[i] = t[1 + i - 1]
    BY <2>1, SubSeqFacts
  <2>3. \A i \in 1..m : 1 + i - 1 = i
    OBVIOUS
  <2> QED BY <2>1, <2>2, <2>3
<1> QED BY <1>1, <1>2

\* SubSeq, as an operator that the provers leave alone.
Cut(t, f, l) == SubSeq(t, f, l)

\* A subsequence of a subsequence.
LEMMA SubSubSeq ==
  ASSUME NEW T, NEW t \in Seq(T), NEW f \in DOMAIN t, NEW l \in DOMAIN t,
         NEW d \in Nat, NEW m \in Nat \ {0}, d + m <= l - f + 1
  PROVE  Cut(t, f + d, f + d + m - 1) = Cut(Cut(t, f, l), d + 1, d + m)
<1>1. Len(t) \in Nat /\ f \in 1..Len(t) /\ l \in f..Len(t)
  OBVIOUS
<1> DEFINE u == SubSeq(t, f, l)
           v == SubSeq(u, d + 1, d + m)
           w == SubSeq(t, f + d, f + d + m - 1)
<1>2. u \in Seq(T) /\ Len(u) = l - f + 1 /\ \A i \in 1..l - f + 1 : u[i] = t[f + i - 1]
  BY <1>1, SubSeqFacts
<1> HIDE DEF u
<1>3. w \in Seq(T) /\ Len(w) = m /\ \A i \in 1..m : w[i] = t[(f + d) + i - 1]
  <2>1. f \in Nat /\ l \in Nat /\ 1 <= f /\ l <= Len(t)
    BY <1>1
  <2> DEFINE a == f + d
             b == f + d + m - 1
  <2>2. a \in Nat /\ b \in Nat /\ b = a + m - 1 /\ 1 <= a /\ b <= l
    BY <2>1
  <2> HIDE DEF a, b
  <2>3. a \in 1..Len(t) /\ b \in a..Len(t) /\ b - a + 1 = m
    BY <1>1, <2>1, <2>2
  <2>4. SubSeq(t, a, b) \in Seq(T) /\ Len(SubSeq(t, a, b)) = b - a + 1
        /\ \A i \in 1..b - a + 1 : SubSeq(t, a, b)[i] = t[a + i - 1]
    BY <2>3, SubSeqFacts
  <2> QED BY <2>3, <2>4 DEF a, b
<1>4. v \in Seq(T) /\ Len(v) = m /\ \A i \in 1..m : v[i] = u[(d + 1) + i - 1]
  <2>1. d + 1 \in 1..Len(u) /\ d + m \in d + 1..Len(u) /\ (d + m) - (d + 1) + 1 = m
    BY <1>2
  <2> QED BY <1>2, <2>1, SubSeqFacts
<1> HIDE DEF v, w
<1>5. \A i \in 1..m : v[i] = w[i]
  <2> SUFFICES ASSUME NEW i \in 1..m PROVE v[i] = w[i]
    OBVIOUS
  <2>1. d + i \in 1..l - f + 1 /\ f + (d + i) - 1 = (f + d) + i - 1 /\ (d + 1) + i - 1 = d + i
    BY <1>1
  <2>2. u[d + i] = t[f + (d + i) - 1]
    BY <1>2, <2>1
  <2> QED BY <1>3, <1>4, <2>1, <2>2
<1>6. v = w
  BY <1>3, <1>4, <1>5, SeqEqual
<1> QED BY <1>6 DEF u, v, w, Cut

\* What a window holds.
LEMMA WindowFacts ==
  ASSUME DetectTypeOK, NEW w \in Windows
  PROVE  /\ w[1] \in Streams /\ token[w[1]] \in Seq(Tokens)
         /\ w[2] \in DOMAIN token[w[1]] /\ w[3] \in DOMAIN token[w[1]]
         /\ w[3] - w[2] + 1 \in MinWindow..MaxWindow
         /\ w = <<w[1], w[2], w[3]>>
         /\ Gram(w) \in Seq(Tokens) /\ Len(Gram(w)) = w[3] - w[2] + 1
<1>1. PICK g \in Streams : w \in {g} \X (DOMAIN token[g]) \X (DOMAIN token[g]) /\ w[3] - w[2] + 1 \in MinWindow..MaxWindow
  BY DEF Windows
<1>2. token[g] \in Seq(Tokens)
  BY DEF DetectTypeOK
<1>3. w[1] = g /\ w[2] \in DOMAIN token[g] /\ w[3] \in DOMAIN token[g] /\ w = <<w[1], w[2], w[3]>>
  BY <1>1
<1>4. w[2] \in 1..Len(token[g]) /\ w[3] \in 1..Len(token[g]) /\ w[2] <= w[3]
  <2> DEFINE a == w[2]
             b == w[3]
             t == token[g]
  <2>1. DOMAIN t = 1..Len(t) /\ Len(t) \in Nat
    BY <1>2
  <2>2. a \in DOMAIN t /\ b \in DOMAIN t /\ b - a + 1 \in MinWindow..MaxWindow
    BY <1>1, <1>3
  <2> HIDE DEF a, b, t
  <2>3. a \in 1..Len(t) /\ b \in 1..Len(t)
    BY <2>1, <2>2
  <2>4. a <= b
    BY <2>1, <2>2, <2>3, RepeatedSequencesAssumption
  <2> QED BY <2>3, <2>4 DEF a, b, t
<1>5. SubSeq(token[g], w[2], w[3]) \in Seq(Tokens) /\ Len(SubSeq(token[g], w[2], w[3])) = w[3] - w[2] + 1
  BY <1>2, <1>4
<1> QED BY <1>1, <1>2, <1>3, <1>5 DEF Gram

LEMMA WindowsFinite == DetectTypeOK => IsFiniteSet(Windows)
<1> SUFFICES ASSUME DetectTypeOK PROVE IsFiniteSet(Windows)
  OBVIOUS
<1> DEFINE W(g) == {w \in {g} \X (DOMAIN token[g]) \X (DOMAIN token[g]) : w[3] - w[2] + 1 \in MinWindow..MaxWindow}
           F == [g \in Streams |-> W(g)]
           All == {F[g] : g \in Streams}
<1>1. ASSUME NEW g \in Streams PROVE IsFiniteSet(W(g))
  <2> DEFINE D == DOMAIN token[g]
             P == D \X D
             T == {g} \X D \X D
             h == [p \in P |-> <<g, p[1], p[2]>>]
  <2>1. token[g] \in Seq(Tokens)
    BY DEF DetectTypeOK
  <2>2. IsFiniteSet(D)
    <3>1. D = 1..Len(token[g]) /\ Len(token[g]) \in Nat
      BY <2>1
    <3> QED BY <3>1, FS_Interval
  <2> HIDE DEF D
  <2>3. IsFiniteSet(P)
    BY <2>2, FS_Product
  <2>4. h \in Surjection(P, T)
    <3>1. ASSUME NEW w \in T PROVE \E p \in P : h[p] = w
      <4>1. w = <<g, w[2], w[3]>> /\ <<w[2], w[3]>> \in P
        OBVIOUS
      <4>2. h[<<w[2], w[3]>>] = <<g, w[2], w[3]>>
        BY <4>1
      <4> QED BY <4>1, <4>2
    <3>2. h \in [P -> T]
      OBVIOUS
    <3> HIDE DEF h, P, T
    <3> QED BY <3>1, <3>2 DEF Surjection
  <2>5. IsFiniteSet(T)
    <3> HIDE DEF h, P, T
    <3> QED BY <2>3, <2>4, FS_Surjection
  <2>6. W(g) \subseteq T
    BY DEF D
  <2> HIDE DEF T
  <2> QED BY <2>5, <2>6, FS_Subset
<1> HIDE DEF W
<1>2. IsFiniteSet(All)
  <2>1. F \in Surjection(Streams, All)
    BY DEF Surjection
  <2> HIDE DEF F, All
  <2> QED BY <2>1, FS_Surjection, RepeatedSequencesAssumption
<1>3. \A S \in All : IsFiniteSet(S)
  BY <1>1
<1>4. IsFiniteSet(UNION All)
  <2> HIDE DEF All
  <2> QED BY <1>2, <1>3, FS_UNION
<1>5. Windows = UNION All
  BY DEF Windows, W
<1> QED BY <1>4, <1>5

LEMMA OccurrencesFinite ==
  ASSUME DetectTypeOK, NEW q
  PROVE  IsFiniteSet(Occurrences(q)) /\ Count(q) \in Nat
<1>1. Occurrences(q) \subseteq Windows
  BY DEF Occurrences
<1>2. IsFiniteSet(Occurrences(q))
  BY <1>1, WindowsFinite, FS_Subset
<1> QED BY <1>2, FS_CardinalityType DEF Count

LEMMA RepeatedFacts ==
  ASSUME DetectTypeOK, NEW q \in Repeated
  PROVE  q \in Seq(Tokens) /\ Len(q) \in MinWindow..MaxWindow
<1>1. PICK w \in Windows : q = Gram(w)
  BY DEF Repeated
<1> QED BY <1>1, WindowFacts

-----------------------------------------------------------------------------
\* Where a sequence occurs, a part of it occurs, in another place for each.
LEMMA PartOccurs ==
  ASSUME DetectTypeOK, NEW q \in Seq(Tokens), Len(q) \in MinWindow..MaxWindow,
         NEW long, NEW d \in Nat, InAt(q, long, d),
         NEW w \in Occurrences(long)
  PROVE  LET v == <<w[1], w[2] + d, w[2] + d + Len(q) - 1>>
         IN v \in Occurrences(q) /\ Within(v, w)
<1> DEFINE t == token[w[1]]
           m == Len(q)
           v == <<w[1], w[2] + d, w[2] + d + m - 1>>
<1>1. w \in Windows /\ Gram(w) = long
  BY DEF Occurrences
<1>2. /\ w[1] \in Streams /\ t \in Seq(Tokens)
      /\ w[2] \in DOMAIN t /\ w[3] \in DOMAIN t
      /\ Len(long) = w[3] - w[2] + 1
  BY <1>1, WindowFacts
<1>3. d + m <= w[3] - w[2] + 1 /\ SubSeq(long, d + 1, d + m) = q
  BY <1>2 DEF InAt
<1>4. m \in Nat \ {0} /\ m \in MinWindow..MaxWindow
  BY RepeatedSequencesAssumption
<1>5. Cut(t, w[2] + d, w[2] + d + m - 1) = Cut(Cut(t, w[2], w[3]), d + 1, d + m)
  <2> DEFINE a == w[2]
             b == w[3]
  <2>1. t \in Seq(Tokens) /\ a \in DOMAIN t /\ b \in DOMAIN t /\ d + m <= b - a + 1
    BY <1>2, <1>3
  <2>2. m \in Nat \ {0}
    BY <1>4
  <2> HIDE DEF t, m, a, b
  <2>3. Cut(t, a + d, a + d + m - 1) = Cut(Cut(t, a, b), d + 1, d + m)
    BY <2>1, <2>2, SubSubSeq
  <2> QED BY <2>3 DEF a, b
<1>6. SubSeq(t, w[2] + d, w[2] + d + m - 1) = q
  BY <1>1, <1>3, <1>5 DEF Gram, Cut
<1>7. /\ w[2] + d \in DOMAIN t /\ w[2] + d + m - 1 \in DOMAIN t
      /\ w[2] <= w[2] + d /\ w[2] + d + m - 1 <= w[3]
      /\ (w[2] + d + m - 1) - (w[2] + d) + 1 = m
  <2>1. DOMAIN t = 1..Len(t) /\ Len(t) \in Nat
    BY <1>2
  <2> DEFINE a == w[2]
             b == w[3]
  <2>2. a \in Nat /\ b \in Nat /\ 1 <= a /\ b <= Len(t) /\ d + m <= b - a + 1
    BY <1>2, <1>3, <2>1
  <2> HIDE DEF t, m, a, b
  <2>3. m \in Nat /\ 1 <= m
    BY <1>4
  <2>4. a <= a + d /\ a + d + m - 1 <= b /\ (a + d + m - 1) - (a + d) + 1 = m
    BY <2>2, <2>3
  <2>5. a + d \in 1..Len(t) /\ a + d + m - 1 \in 1..Len(t)
    BY <2>1, <2>2, <2>3, <2>4
  <2> QED BY <2>1, <2>4, <2>5 DEF a, b
<1>8. v[1] = w[1] /\ v[2] = w[2] + d /\ v[3] = w[2] + d + m - 1
  OBVIOUS
<1>9. v \in Windows
  <2>1. v \in {w[1]} \X (DOMAIN t) \X (DOMAIN t)
    BY <1>7
  <2>2. v[3] - v[2] + 1 \in MinWindow..MaxWindow
    BY <1>4, <1>7, <1>8
  <2> HIDE DEF v, m
  <2> QED BY <1>2, <2>1, <2>2 DEF Windows
<1>10. Gram(v) = q
  BY <1>6, <1>8 DEF Gram
<1>11. Within(v, w)
  BY <1>7, <1>8 DEF Within
<1> QED BY <1>9, <1>10, <1>11 DEF Occurrences

\* A part occurs at least as often; and if it does not occur more often, it
\* occurs nowhere else.
LEMMA PartCount ==
  ASSUME DetectTypeOK, NEW q \in Repeated, NEW long, PartOf(q, long)
  PROVE  /\ Count(long) <= Count(q)
         /\ Count(long) = Count(q) =>
              \A v \in Occurrences(q) : \E w \in Occurrences(long) : Within(v, w)
<1>1. PICK d \in 0..Len(long) : InAt(q, long, d)
  BY DEF PartOf
<1>2. d \in Nat
  OBVIOUS
<1>3. q \in Seq(Tokens) /\ Len(q) \in MinWindow..MaxWindow
  BY RepeatedFacts
<1> DEFINE S == Occurrences(long)
           T == Occurrences(q)
           h == [w \in S |-> <<w[1], w[2] + d, w[2] + d + Len(q) - 1>>]
<1>4. \A w \in S : h[w] \in T /\ Within(h[w], w)
  BY <1>1, <1>2, <1>3, PartOccurs
<1>5. ASSUME NEW x \in S, NEW y \in S, h[x] = h[y] PROVE x = y
  <2>1. x \in Windows /\ y \in Windows /\ Gram(x) = long /\ Gram(y) = long
    BY DEF Occurrences
  <2>2. x = <<x[1], x[2], x[3]>> /\ x[2] \in Int /\ x[3] \in Int /\ Len(long) = x[3] - x[2] + 1
    <3>1. DOMAIN token[x[1]] \subseteq Int
      BY <2>1, WindowFacts, LenProperties
    <3> QED BY <2>1, <3>1, WindowFacts
  <2>3. y = <<y[1], y[2], y[3]>> /\ y[2] \in Int /\ y[3] \in Int /\ Len(long) = y[3] - y[2] + 1
    <3>1. DOMAIN token[y[1]] \subseteq Int
      BY <2>1, WindowFacts, LenProperties
    <3> QED BY <2>1, <3>1, WindowFacts
  <2>4. x[1] = y[1] /\ x[2] + d = y[2] + d
    BY <1>5
  <2>5. x[2] = y[2]
    BY <1>2, <2>2, <2>3, <2>4
  <2>6. x[3] = y[3]
    BY <2>2, <2>3, <2>5
  <2> QED BY <2>2, <2>3, <2>4, <2>5, <2>6
<1>6. h \in Injection(S, T)
  <2>1. h \in [S -> T]
    <3> HIDE DEF S, T
    <3> QED BY <1>4
  <2> HIDE DEF h, S, T
  <2> QED BY <1>5, <2>1 DEF Injection, IsInjective
<1>7. IsFiniteSet(S) /\ IsFiniteSet(T) /\ Cardinality(S) \in Nat /\ Cardinality(T) \in Nat
  BY OccurrencesFinite DEF Count
<1> HIDE DEF h, S, T
<1>8. Cardinality(S) <= Cardinality(T) /\ (Cardinality(S) = Cardinality(T) <=> h \in Surjection(S, T))
  BY <1>6, <1>7, FS_Injection
<1>9. ASSUME h \in Surjection(S, T), NEW v \in T PROVE \E w \in S : Within(v, w)
  BY <1>4, <1>9 DEF Surjection
<1> QED BY <1>8, <1>9 DEF S, T, Count

-----------------------------------------------------------------------------
\* What is decided so far: everything longer than width is kept or explained,
\* and nothing is kept beside a longer sequence that occurs as often.
SeqInv ==
  /\ DetectTypeOK
  /\ kept \subseteq Repeated
  /\ \A q \in kept : Len(q) > width
  /\ \A q \in Repeated : Len(q) > width => q \in kept \/ Explained(q)
  /\ \A q, long \in kept : PartOf(q, long) => Count(long) # Count(q)

LEMMA InvInit == DetectInit => SeqInv
<1> SUFFICES ASSUME DetectInit PROVE SeqInv
  OBVIOUS
<1>1. DetectTypeOK
  BY RepeatedSequencesAssumption DEF DetectInit, DetectTypeOK
<1>2. \A q \in Repeated : ~(Len(q) > width)
  <2> SUFFICES ASSUME NEW q \in Repeated PROVE ~(Len(q) > width)
    OBVIOUS
  <2>1. Len(q) \in MinWindow..MaxWindow
    BY <1>1, RepeatedFacts
  <2> QED BY <2>1, RepeatedSequencesAssumption DEF DetectInit
<1> QED BY <1>1, <1>2 DEF SeqInv, DetectInit

\* Windows and counts depend on token alone.
LEMMA CountsStay ==
  ASSUME UNCHANGED token
  PROVE  /\ Windows' = Windows
         /\ Repeated' = Repeated
         /\ \A q : Occurrences(q)' = Occurrences(q) /\ Count(q)' = Count(q)
BY DEF Windows, Repeated, Occurrences, Count, Gram

LEMMA InvSubsume == SeqInv /\ Subsume => SeqInv'
<1> SUFFICES ASSUME SeqInv, Subsume PROVE SeqInv'
  OBVIOUS
<1> DEFINE New == {q \in Repeated : Len(q) = width /\ ~Explained(q)}
<1>1. token' = token /\ kept' = kept \cup New /\ width' = width - 1 /\ width >= MinWindow
  BY DEF Subsume
<1>2. DetectTypeOK'
  BY <1>1, RepeatedSequencesAssumption DEF SeqInv, DetectTypeOK
<1>3. width \in Int /\ \A q \in Repeated : Len(q) \in Int
  BY RepeatedFacts, RepeatedSequencesAssumption DEF SeqInv, DetectTypeOK
<1>4. Repeated' = Repeated /\ \A q : Count(q)' = Count(q)
  BY <1>1, CountsStay
<1>5. kept' \subseteq Repeated'
  BY <1>1, <1>4 DEF SeqInv
<1>6. \A q \in kept' : Len(q) > width'
  BY <1>1, <1>3 DEF SeqInv
<1>7. ASSUME NEW q \in Repeated', Len(q) > width' PROVE q \in kept' \/ Explained(q)'
  <2>1. Explained(q) => Explained(q)'
    <3> SUFFICES ASSUME Explained(q) PROVE Explained(q)'
      OBVIOUS
    <3>1. PICK long \in kept : PartOf(q, long) /\ Count(long) = Count(q)
      BY DEF Explained
    <3>2. long \in kept' /\ Count(long)' = Count(q)'
      BY <1>1, <1>4, <3>1
    <3> QED BY <3>1, <3>2 DEF Explained
  <2>2. CASE Len(q) = width
    BY <1>1, <1>4, <2>1, <2>2
  <2>3. CASE Len(q) # width
    <3>1. Len(q) > width
      BY <1>1, <1>3, <1>4, <1>7, <2>3
    <3> QED BY <1>1, <1>4, <2>1, <3>1 DEF SeqInv
  <2> QED BY <2>2, <2>3
<1>8. ASSUME NEW q \in kept', NEW long \in kept', PartOf(q, long) PROVE Count(long)' # Count(q)'
  <2>1. q \in Repeated /\ long \in Repeated /\ Len(q) < Len(long)
    BY <1>4, <1>5, <1>8 DEF PartOf
  <2>2. long \in kept
    <3>1. Len(q) >= width
      BY <1>1, <1>3, <1>6, <2>1
    <3>2. Len(long) # width
      BY <1>3, <2>1, <3>1
    <3> QED BY <1>1, <3>2
  <2>3. CASE q \in kept
    BY <1>4, <1>8, <2>2, <2>3 DEF SeqInv
  <2>4. CASE q \in New
    BY <1>4, <1>8, <2>2, <2>4 DEF Explained
  <2> QED BY <1>1, <2>3, <2>4
<1> QED BY <1>2, <1>5, <1>6, <1>7, <1>8 DEF SeqInv

\* The rank, or no step at all.
LEMMA InvRest == SeqInv /\ UNCHANGED <<token, width, kept>> => SeqInv'
<1> SUFFICES ASSUME SeqInv, UNCHANGED <<token, width, kept>> PROVE SeqInv'
  OBVIOUS
<1>1. Repeated' = Repeated /\ \A q : Count(q)' = Count(q)
  BY CountsStay
<1>2. \A q : Explained(q)' <=> Explained(q)
  BY <1>1 DEF Explained
<1>3. DetectTypeOK'
  BY DEF SeqInv, DetectTypeOK
<1> QED BY <1>1, <1>2, <1>3 DEF SeqInv

THEOREM InvCorrect == DetectSpec => []SeqInv
<1>1. DetectInit => SeqInv
  BY InvInit
<1>2. SeqInv /\ [DetectNext]_detectVars => SeqInv'
  BY InvSubsume, InvRest DEF DetectNext, Rank, detectVars
<1> QED BY <1>1, <1>2, PTL DEF DetectSpec

-----------------------------------------------------------------------------
\* What the pass drops is explained (analyzer.py:818), for streams of any
\* length: a longer sequence that is kept occurs as often, and around each
\* place where the dropped one occurs.
THEOREM DroppedCorrect == DetectSpec => []DroppedIsExplained
<1>1. SeqInv => DroppedIsExplained
  <2> SUFFICES ASSUME SeqInv, NEW q \in Repeated, Len(q) > width, q \notin kept
               PROVE  \E long \in kept :
                        /\ Len(long) > Len(q)
                        /\ Count(long) = Count(q)
                        /\ \A v \in Occurrences(q) : \E w \in Occurrences(long) : Within(v, w)
    BY DEF DroppedIsExplained
  <2>1. PICK long \in kept : PartOf(q, long) /\ Count(long) = Count(q)
    BY DEF SeqInv, Explained
  <2>2. \A v \in Occurrences(q) : \E w \in Occurrences(long) : Within(v, w)
    BY <2>1, PartCount DEF SeqInv
  <2>3. Len(long) > Len(q)
    <3>1. Len(q) \in Int /\ Len(long) \in Int
      BY RepeatedFacts DEF SeqInv
    <3> QED BY <2>1, <3>1 DEF PartOf
  <2> QED BY <2>1, <2>2, <2>3
<1> QED BY <1>1, InvCorrect, PTL

\* What the pass keeps repeats, and occurs more often than anything kept that
\* it is a part of (analyzer.py:823).
THEOREM KeptCorrect == DetectSpec => []KeptIsNews
<1>1. SeqInv => KeptIsNews
  <2> SUFFICES ASSUME SeqInv, NEW q \in kept, NEW long \in kept, PartOf(q, long)
               PROVE  Count(long) < Count(q)
    BY DEF SeqInv, KeptIsNews
  <2>1. Count(long) <= Count(q)
    BY PartCount DEF SeqInv
  <2>2. Count(long) # Count(q)
    BY DEF SeqInv
  <2>3. Count(long) \in Nat /\ Count(q) \in Nat
    BY OccurrencesFinite DEF SeqInv
  <2> QED BY <2>1, <2>2, <2>3
<1> QED BY <1>1, InvCorrect, PTL

-----------------------------------------------------------------------------
\* The analysis of any capture is one of the streams above: what is added to
\* it, the markers, changes nothing of the patterns.
THEOREM AnalysisDetects == AnalysisSpec => DetectSpec
<1>1. AnalysisInit => DetectInit
  BY DEF AnalysisInit
<1>2. [AnalysisNext]_vars => [DetectNext]_detectVars
  BY DEF AnalysisNext, Detect, AddMarker, vars
<1> QED BY <1>1, <1>2, PTL DEF AnalysisSpec, DetectSpec

\* So it holds of each device of each capture, with or without markers, that
\* what is dropped is explained and what is kept is news.
THEOREM AnalysisCorrect == AnalysisSpec => [](DroppedIsExplained /\ KeptIsNews)
BY AnalysisDetects, DroppedCorrect, KeptCorrect, PTL

-----------------------------------------------------------------------------
\* What is said below of the streams is true of any capture: which events a
\* stream has, what they are made into, and that nothing is changed later.
Seen == Considered(log, scope)
Part(g) == {i \in Usable(Seen) : StreamKey(Seen[i], scope) = g}

CaptureInv ==
  /\ log \in Seq(Transactions) /\ Len(log) <= MaxTransactions
  /\ time \in [DOMAIN log -> 0..MaxTime]
  /\ \A i, j \in DOMAIN log : i < j => time[i] <= time[j]
  /\ scope \in {"device", "endpoint_lane"}
  /\ \A g \in Streams : stream[g] = InOrder(Part(g))
  /\ \A g \in Streams : DOMAIN token[g] = DOMAIN stream[g]
  /\ \A g \in Streams : \A k \in DOMAIN stream[g] : token[g][k] = TokenOf(Normalize(Seen), stream[g][k])

LEMMA CaptureInit == AnalysisInit => CaptureInv
<1> SUFFICES ASSUME AnalysisInit PROVE CaptureInv
  OBVIOUS
<1>1. PICK m \in 0..MaxTransactions : log \in [1..m -> Transactions]
  BY DEF AnalysisInit
<1>2. log \in Seq(Transactions) /\ Len(log) = m
  BY <1>1, ProtocolAnalysisAssumption
<1>3. Len(log) <= MaxTransactions
  BY <1>1, <1>2, ProtocolAnalysisAssumption
<1>4. /\ stream = [g \in Streams |-> StreamOf(Seen, scope, g)]
      /\ token = [g \in Streams |-> [k \in DOMAIN stream[g] |-> TokenOf(Normalize(Seen), stream[g][k])]]
  BY DEF AnalysisInit, Seen
<1>5. \A g \in Streams : stream[g] = InOrder(Part(g))
  BY <1>4 DEF StreamOf, Part
<1>6. scope \in {"device", "endpoint_lane"}
  BY DEF AnalysisInit
<1>7. /\ time \in [DOMAIN log -> 0..MaxTime]
      /\ \A i, j \in DOMAIN log : i < j => time[i] <= time[j]
  BY DEF AnalysisInit
<1> QED BY <1>2, <1>3, <1>4, <1>5, <1>6, <1>7 DEF CaptureInv

LEMMA CaptureStep == CaptureInv /\ [AnalysisNext]_vars => CaptureInv'
<1> SUFFICES ASSUME CaptureInv, [AnalysisNext]_vars PROVE CaptureInv'
  OBVIOUS
<1>1. UNCHANGED <<log, scope, time, stream, token>>
  BY DEF AnalysisNext, Detect, DetectNext, Subsume, Rank, AddMarker, vars, detectVars
<1>2. Seen' = Seen
  BY <1>1 DEF Seen
<1>3. \A g : Part(g)' = Part(g)
  BY <1>1, <1>2 DEF Part
<1> QED BY <1>1, <1>2, <1>3 DEF CaptureInv

\* Each event of a stream is a packet of the capture.
LEMMA SeenFacts ==
  ASSUME CaptureInv
  PROVE  /\ DOMAIN Seen \subseteq 1..Len(log) /\ Len(log) \in Nat
         /\ \A i \in DOMAIN Seen : /\ Seen[i] = log[i] /\ i \in Nat
                                   /\ log[i].type # "control" /\ log[i].form # "missing"
<1> DEFINE ev == AnalysisEvents(log)
           D == {i \in DOMAIN log : log[i].type # "control" /\ log[i].form # "missing"}
           quiet == IF scope = "device" THEN Background(ev) ELSE {}
           E == {i \in D : ev[i].ep \notin quiet}
<1>1. DOMAIN log = 1..Len(log) /\ Len(log) \in Nat
  BY DEF CaptureInv
<1>2. ev = [i \in D |-> log[i]]
  BY DEF AnalysisEvents, Select
<1>3. DOMAIN ev = D
  <2> HIDE DEF ev
  <2> QED BY <1>2
<1>4. Seen = [i \in E |-> ev[i]]
  BY <1>3 DEF Seen, Considered, Select
<1> HIDE DEF ev
<1>5. DOMAIN Seen = E /\ \A i \in E : Seen[i] = log[i]
  BY <1>2, <1>4
<1> QED BY <1>1, <1>5

\* A stream lists its events in the order of the capture.
LEMMA StreamFacts ==
  ASSUME CaptureInv, NEW g \in Streams
  PROVE  /\ Listing(stream[g], Part(g))
         /\ Part(g) \subseteq 1..Len(log) /\ Part(g) \subseteq Nat
         /\ IsFiniteSet(Part(g)) /\ Cardinality(Part(g)) \in Nat
         /\ DOMAIN stream[g] = 1..Cardinality(Part(g))
         /\ DOMAIN token[g] = DOMAIN stream[g]
<1>1. Part(g) \subseteq 1..Len(log) /\ Len(log) \in Nat
  BY SeenFacts DEF Part, Usable
<1>2. IsFiniteSet(Part(g)) /\ Part(g) \in SUBSET Int /\ Part(g) \subseteq Nat
  <2>1. IsFiniteSet(1..Len(log))
    BY <1>1, FS_Interval
  <2>2. IsFiniteSet(Part(g))
    BY <1>1, <2>1, FS_Subset
  <2> QED BY <1>1, <2>2
<1>3. stream[g] = [k \in 1..Cardinality(Part(g)) |-> CHOOSE i \in Part(g) : Cardinality(UpTo(Part(g), i)) = k]
  BY DEF CaptureInv, InOrder, UpTo
<1>4. Listing(stream[g], Part(g)) /\ Cardinality(Part(g)) \in Nat
  BY <1>2, <1>3, Lists
<1>5. DOMAIN stream[g] = 1..Cardinality(Part(g)) /\ DOMAIN token[g] = DOMAIN stream[g]
  BY <1>4 DEF Listing, CaptureInv
<1> QED BY <1>1, <1>2, <1>4, <1>5

\* A window is a stretch of its stream, and no two of the same length begin
\* with the same packet: the streams have no events in common.
LEMMA StartFacts ==
  ASSUME CaptureInv, DetectTypeOK, NEW w \in Windows
  PROVE  /\ w[2] \in 1..Cardinality(Part(w[1])) /\ w[3] \in 1..Cardinality(Part(w[1])) /\ w[2] <= w[3]
         /\ Start(w) \in Part(w[1]) /\ End(w) \in Part(w[1])
         /\ Start(w) \in Nat /\ End(w) \in Nat
<1> DEFINE g == w[1]
           a == w[2]
           b == w[3]
<1>1. g \in Streams /\ a \in DOMAIN token[g] /\ b \in DOMAIN token[g] /\ b - a + 1 \in MinWindow..MaxWindow
  BY WindowFacts
<1>2. /\ Listing(stream[g], Part(g)) /\ Part(g) \subseteq Nat
      /\ DOMAIN token[g] = 1..Cardinality(Part(g)) /\ Cardinality(Part(g)) \in Nat
  BY <1>1, StreamFacts
<1>3. stream[g][a] \in Part(g) /\ stream[g][b] \in Part(g)
  BY <1>1, <1>2 DEF Listing
<1>4. a <= b
  <2> HIDE DEF a, b
  <2> QED BY <1>1, <1>2, RepeatedSequencesAssumption
<1> QED BY <1>1, <1>2, <1>3, <1>4 DEF Start, End

-----------------------------------------------------------------------------
LEMMA KeptFinite == SeqInv => IsFiniteSet(kept) /\ Cardinality(kept) \in Nat
<1> SUFFICES ASSUME SeqInv PROVE IsFiniteSet(kept) /\ Cardinality(kept) \in Nat
  OBVIOUS
<1> DEFINE G == {Gram(w) : w \in Windows}
<1>1. kept \subseteq G
  BY DEF SeqInv, Repeated
<1>2. IsFiniteSet(G)
  <2> DEFINE h == [w \in Windows |-> Gram(w)]
  <2>1. h \in Surjection(Windows, G)
    BY DEF Surjection
  <2> HIDE DEF h, G
  <2> QED BY <2>1, WindowsFinite, FS_Surjection DEF SeqInv
<1> HIDE DEF G
<1> QED BY <1>1, <1>2, FS_Subset, FS_CardinalityType

\* A ranking has each kept sequence once, those that occur more often first.
LEMMA RankingFacts ==
  ASSUME SeqInv, NEW f \in Rankings
  PROVE  /\ f \in Seq(kept) /\ Len(f) = Cardinality(kept)
         /\ \A i, j \in 1..Len(f) : i < j => f[i] # f[j] /\ Count(f[j]) <= Count(f[i])
<1> DEFINE n == Cardinality(kept)
<1>1. n \in Nat
  BY KeptFinite
<1>2. /\ f \in [1..n -> kept]
      /\ \A i, j \in 1..n : i < j => f[i] # f[j] /\ ~RanksBefore(f[j], f[i])
  BY DEF Rankings
<1>3. f \in Seq(kept) /\ Len(f) = n
  <2> HIDE DEF n
  <2> QED BY <1>1, <1>2
<1>4. \A q \in kept : Count(q) \in Nat
  BY OccurrencesFinite DEF SeqInv
<1>5. ASSUME NEW i \in 1..n, NEW j \in 1..n, i < j PROVE Count(f[j]) <= Count(f[i])
  <2>1. f[i] \in kept /\ f[j] \in kept /\ ~(Count(f[j]) > Count(f[i]))
    BY <1>2, <1>5 DEF RanksBefore
  <2> QED BY <1>4, <2>1
<1> QED BY <1>2, <1>3, <1>5

-----------------------------------------------------------------------------
\* The list is the first part of a ranking, and nothing is kept after it is made.
ListInv ==
  /\ listed \in Seq(kept)
  /\ DOMAIN parent = DOMAIN listed
  /\ listed # <<>> => width = MinWindow - 1
  /\ \A i, j \in DOMAIN listed :
       i < j => listed[i] # listed[j] /\ Count(listed[j]) <= Count(listed[i])
  /\ \A i \in DOMAIN listed :
       parent[i] = IF Parent(listed[i]) \in Listed THEN Parent(listed[i]) ELSE NoParent

LEMMA ListInit == DetectInit => ListInv
<1> SUFFICES ASSUME DetectInit PROVE ListInv
  OBVIOUS
<1>1. listed = <<>> /\ parent = <<>>
  BY DEF DetectInit
<1>2. listed \in Seq(kept) /\ DOMAIN listed = {} /\ DOMAIN parent = {}
  BY <1>1
<1> QED BY <1>1, <1>2 DEF ListInv

\* Before the ranking there is no list; after it, kept does not change.
LEMMA ListSubsume == SeqInv /\ ListInv /\ Subsume => ListInv'
<1> SUFFICES ASSUME SeqInv, ListInv, Subsume PROVE ListInv'
  OBVIOUS
<1>1. width >= MinWindow /\ listed' = listed /\ parent' = parent
  BY DEF Subsume
<1>2. listed = <<>>
  BY <1>1, RepeatedSequencesAssumption DEF ListInv, SeqInv, DetectTypeOK
<1>3. listed' = <<>> /\ DOMAIN parent' = DOMAIN listed'
  BY <1>1, <1>2 DEF ListInv
<1>4. listed' \in Seq(kept') /\ DOMAIN listed' = {}
  BY <1>3
<1> QED BY <1>3, <1>4 DEF ListInv

LEMMA ListRest == ListInv /\ UNCHANGED detectVars => ListInv'
<1> SUFFICES ASSUME ListInv, UNCHANGED detectVars PROVE ListInv'
  OBVIOUS
<1>1. UNCHANGED <<token, width, kept, listed, parent>>
  BY DEF detectVars
<1>2. \A q : Count(q)' = Count(q)
  BY <1>1, CountsStay
<1>3. \A q : Parent(q)' = Parent(q)
  BY <1>1 DEF Parent
<1>4. Listed' = Listed
  BY <1>1 DEF Listed
<1> QED BY <1>1, <1>2, <1>3, <1>4 DEF ListInv

LEMMA ListRank == SeqInv /\ ListInv /\ Rank => ListInv'
<1> SUFFICES ASSUME SeqInv, ListInv, Rank PROVE ListInv'
  OBVIOUS
<1> DEFINE n == Cardinality(kept)
           m == IF MaxPatterns < n THEN MaxPatterns ELSE n
           shown(s) == {s[i] : i \in DOMAIN s}
           up(s) == [i \in DOMAIN s |-> IF Parent(s[i]) \in shown(s) THEN Parent(s[i]) ELSE NoParent]
<1>1. UNCHANGED <<token, width, kept>> /\ width = MinWindow - 1
  BY DEF Rank
<1>2. PICK f \in Rankings : listed' = SubSeq(f, 1, m) /\ parent' = up(SubSeq(f, 1, m))
  BY DEF Rank
<1> DEFINE top == SubSeq(f, 1, m)
<1>3. /\ f \in Seq(kept) /\ Len(f) = n /\ n \in Nat
      /\ \A i, j \in 1..n : i < j => f[i] # f[j] /\ Count(f[j]) <= Count(f[i])
  BY RankingFacts, KeptFinite
<1>4. m \in 0..n
  <2> HIDE DEF n
  <2> QED BY <1>3, RepeatedSequencesAssumption
<1>5. top \in Seq(kept) /\ Len(top) = m /\ \A i \in 1..m : top[i] = f[i]
  <2> HIDE DEF m
  <2> QED BY <1>3, <1>4, FirstsFacts
<1> HIDE DEF top, m
<1>6. DOMAIN top = 1..m
  BY <1>5
<1>7. \A i, j \in 1..m : i < j => top[i] # top[j] /\ Count(top[j]) <= Count(top[i])
  <2> HIDE DEF n
  <2>1. \A i \in 1..m : i \in 1..n
    BY <1>3, <1>4
  <2> QED BY <1>3, <1>5, <2>1
<1>8. listed' = top /\ parent' = up(top)
  BY <1>2 DEF top, m
<1>9. \A q : Count(q)' = Count(q)
  BY <1>1, CountsStay
<1>10. \A q : Parent(q)' = Parent(q)
  BY <1>1 DEF Parent
<1>11. Listed' = shown(top)
  BY <1>8 DEF Listed
<1>12. /\ listed' \in Seq(kept') /\ DOMAIN parent' = DOMAIN listed'
       /\ \A i \in DOMAIN listed' : parent'[i] = IF Parent(top[i]) \in shown(top) THEN Parent(top[i]) ELSE NoParent
  <2> HIDE DEF shown
  <2> QED BY <1>1, <1>5, <1>8
<1> HIDE DEF shown, up
<1>13. \A i, j \in DOMAIN listed' :
         i < j => listed'[i] # listed'[j] /\ Count(listed[j])' <= Count(listed[i])'
  BY <1>6, <1>7, <1>8, <1>9
<1>14. \A i \in DOMAIN listed' :
         parent'[i] = IF Parent(listed[i])' \in Listed' THEN Parent(listed[i])' ELSE NoParent
  BY <1>8, <1>10, <1>11, <1>12
<1> QED BY <1>1, <1>12, <1>13, <1>14 DEF ListInv

-----------------------------------------------------------------------------
\* The inductive invariant of the analysis.
MarkersOK == markers \in Seq([name : Names, index : DOMAIN log])
AnalysisInv == CaptureInv /\ SeqInv /\ ListInv /\ MarkersOK

LEMMA MarkersInit == AnalysisInit => MarkersOK
<1> SUFFICES ASSUME AnalysisInit PROVE MarkersOK
  OBVIOUS
<1>1. markers = <<>>
  BY DEF AnalysisInit
<1> QED BY <1>1 DEF MarkersOK

LEMMA MarkersStep == MarkersOK /\ [AnalysisNext]_vars => MarkersOK'
<1> SUFFICES ASSUME MarkersOK, [AnalysisNext]_vars PROVE MarkersOK'
  OBVIOUS
<1>1. CASE AddMarker
  <2>1. PICK name \in Names, i \in DOMAIN log : markers' = Append(markers, [name |-> name, index |-> i])
    BY <1>1 DEF AddMarker
  <2>2. log' = log
    BY <1>1 DEF AddMarker
  <2>3. [name |-> name, index |-> i] \in [name : Names, index : DOMAIN log]
    OBVIOUS
  <2> DEFINE T == [name : Names, index : DOMAIN log]
             e == [name |-> name, index |-> i]
  <2>4. markers \in Seq(T) /\ e \in T /\ markers' = Append(markers, e)
    BY <2>1, <2>3 DEF MarkersOK
  <2> HIDE DEF T, e
  <2>5. markers' \in Seq(T)
    BY <2>4
  <2> QED BY <2>2, <2>5 DEF MarkersOK, T
<1>2. CASE Detect \/ UNCHANGED vars
  <2>1. UNCHANGED <<markers, log>>
    BY <1>2 DEF Detect, vars
  <2> QED BY <2>1 DEF MarkersOK
<1> QED BY <1>1, <1>2 DEF AnalysisNext

THEOREM AnalysisInvariant == AnalysisSpec => []AnalysisInv
<1>1. AnalysisInit => AnalysisInv
  <2>1. AnalysisInit => DetectInit
    BY DEF AnalysisInit
  <2> QED BY <2>1, CaptureInit, InvInit, ListInit, MarkersInit DEF AnalysisInv
<1>2. AnalysisInv /\ [AnalysisNext]_vars => AnalysisInv'
  <2> SUFFICES ASSUME AnalysisInv, [AnalysisNext]_vars PROVE AnalysisInv'
    OBVIOUS
  <2>1. CaptureInv' /\ MarkersOK'
    BY CaptureStep, MarkersStep DEF AnalysisInv
  <2>2. CASE Subsume
    BY <2>1, <2>2, InvSubsume, ListSubsume DEF AnalysisInv
  <2>3. CASE Rank
    <3>1. UNCHANGED <<token, width, kept>>
      BY <2>3 DEF Rank
    <3> QED BY <2>1, <2>3, <3>1, InvRest, ListRank DEF AnalysisInv
  <2>4. CASE UNCHANGED detectVars
    <3>1. UNCHANGED <<token, width, kept>>
      BY <2>4 DEF detectVars
    <3> QED BY <2>1, <2>4, <3>1, InvRest, ListRest DEF AnalysisInv
  <2>5. Subsume \/ Rank \/ UNCHANGED detectVars
    BY DEF AnalysisNext, Detect, DetectNext, AddMarker, vars
  <2> QED BY <2>2, <2>3, <2>4, <2>5
<1> QED BY <1>1, <1>2, PTL DEF AnalysisSpec

\* The types of the analysis: in particular the list has no more than a
\* parent for each pattern, and each marker stands on a packet of the capture.
THEOREM AnalysisTypeCorrect == AnalysisSpec => []AnalysisTypeOK
<1>1. AnalysisInv => AnalysisTypeOK
  <2> SUFFICES ASSUME AnalysisInv PROVE AnalysisTypeOK
    OBVIOUS
  <2>1. CaptureInv /\ SeqInv /\ ListInv /\ MarkersOK /\ DetectTypeOK
    BY DEF AnalysisInv, SeqInv
  <2>2. ASSUME NEW i \in DOMAIN listed PROVE listed[i] \in Seq(Tokens)
    <3>1. listed[i] \in kept
      BY <2>1 DEF ListInv
    <3> QED BY <2>1, <3>1, RepeatedFacts DEF SeqInv
  <2> QED BY <2>1, <2>2 DEF AnalysisTypeOK, CaptureInv, DetectTypeOK, ListInv, MarkersOK
<1> QED BY <1>1, AnalysisInvariant, PTL

\* The parent of a pattern, if it is part of another.
LEMMA ParentFacts ==
  ASSUME SeqInv, NEW q \in kept
  PROVE  \/ Parent(q) = NoParent /\ \A long \in kept : ~PartOf(q, long)
         \/ Parent(q) \in kept /\ PartOf(q, Parent(q))
<1> DEFINE around == {long \in kept : PartOf(q, long)}
           lengths == {Len(long) : long \in around}
<1>1. CASE around = {}
  BY <1>1 DEF Parent
<1>2. CASE around # {}
  <2>1. \A long \in kept : Len(long) \in 0..MaxWindow
    BY RepeatedFacts, RepeatedSequencesAssumption DEF SeqInv
  <2>2. lengths \in SUBSET (0..MaxWindow) /\ lengths # {}
    BY <1>2, <2>1
  <2>3. \E n \in lengths : \A m \in lengths : m <= n
    <3> HIDE DEF lengths
    <3> QED BY <2>2, HasGreatest, RepeatedSequencesAssumption
  <2>4. \E long \in around : \A l \in around : Len(l) <= Len(long)
    BY <2>3
  <2>5. Parent(q) \in around
    BY <1>2, <2>4 DEF Parent
  <2> QED BY <2>5
<1> QED BY <1>1, <1>2

\* The list a client sees (analyzer.py:824-864), whatever the capture and
\* however ties are broken: no pattern twice, a parent listed after its part,
\* and none missing where nothing was cut off.  That a parent comes later rests
\* on KeptIsNews: a part is counted more often.
THEOREM ListCorrect == AnalysisSpec => []ListIsCoherent
<1>1. SeqInv /\ KeptIsNews /\ ListInv => ListIsCoherent
  <2> SUFFICES ASSUME SeqInv, KeptIsNews, ListInv PROVE ListIsCoherent
    OBVIOUS
  <2>1. listed \in Seq(kept) /\ Listed \subseteq kept /\ \A i \in DOMAIN listed : i \in Nat /\ listed[i] \in kept
    <3>1. listed \in Seq(kept)
      BY DEF ListInv
    <3>2. DOMAIN listed = 1..Len(listed) /\ Len(listed) \in Nat /\ \A i \in DOMAIN listed : listed[i] \in kept
      BY <3>1
    <3> QED BY <3>1, <3>2 DEF Listed
  <2>2. \A q \in kept : Count(q) \in Int
    BY OccurrencesFinite DEF SeqInv
  <2>3. ASSUME NEW i \in DOMAIN listed, NEW j \in DOMAIN listed, listed[i] = listed[j] PROVE i = j
    <3>1. ~(i < j) /\ ~(j < i)
      BY <2>3 DEF ListInv
    <3> QED BY <2>1, <3>1
  <2>4. ASSUME NEW i \in DOMAIN listed, parent[i] # NoParent
        PROVE  \E j \in DOMAIN listed : i < j /\ listed[j] = parent[i] /\ PartOf(listed[i], listed[j])
    <3> DEFINE q == listed[i]
    <3>1. q \in kept /\ parent[i] = Parent(q) /\ Parent(q) \in Listed /\ Parent(q) # NoParent
      BY <2>1, <2>4 DEF ListInv
    <3>2. PartOf(q, Parent(q))
      BY <3>1, ParentFacts
    <3>3. PICK j \in DOMAIN listed : listed[j] = Parent(q)
      BY <3>1 DEF Listed
    <3>4. Count(listed[j]) < Count(q)
      BY <2>1, <3>1, <3>2, <3>3 DEF KeptIsNews
    <3>5. ~(j < i)
      <4>1. j < i => Count(q) <= Count(listed[j])
        BY DEF ListInv
      <4>2. listed[j] \in kept
        BY <2>1
      <4> HIDE DEF q
      <4> QED BY <2>2, <3>1, <3>4, <4>1, <4>2
    <3>6. i # j
      <4>1. i = j => Count(q) < Count(q)
        BY <3>4
      <4> HIDE DEF q
      <4> QED BY <2>2, <3>1, <4>1
    <3>7. i < j
      BY <2>1, <3>5, <3>6
    <3> QED BY <3>1, <3>2, <3>3, <3>7
  <2>5. ASSUME Listed = kept, NEW i \in DOMAIN listed, NEW q \in Listed, PartOf(listed[i], q)
        PROVE  parent[i] # NoParent
    <3>1. listed[i] \in kept /\ q \in kept
      BY <2>1, <2>5
    <3>2. Parent(listed[i]) \in kept
      BY <2>5, <3>1, ParentFacts
    <3>3. parent[i] \in kept
      BY <2>5, <3>2 DEF ListInv
    <3>4. kept \subseteq Seq(Tokens)
      BY RepeatedFacts DEF SeqInv
    <3> QED BY <3>3, <3>4, RepeatedSequencesAssumption
  <2> QED BY <2>3, <2>4, <2>5 DEF ListIsCoherent
<1>2. AnalysisInv => SeqInv /\ ListInv
  BY DEF AnalysisInv
<1> QED BY <1>1, <1>2, AnalysisInvariant, AnalysisCorrect, PTL

-----------------------------------------------------------------------------
\* No endpoint that is sent OUTs is a background endpoint.
LEMMA OutsAreSeen ==
  ASSUME CaptureInv, NEW c \in DOMAIN log,
         log[c].type # "control", log[c].dir = "out", log[c].form = "ok"
  PROVE  c \in DOMAIN Seen /\ c \in Usable(Seen)
<1> DEFINE ev == AnalysisEvents(log)
           D == {i \in DOMAIN log : log[i].type # "control" /\ log[i].form # "missing"}
           quiet == IF scope = "device" THEN Background(ev) ELSE {}
<1>1. c \in D /\ ev = [i \in D |-> log[i]]
  BY DEF AnalysisEvents, Select
<1>2. DOMAIN ev = D /\ ev[c] = log[c]
  <2> HIDE DEF ev, D
  <2> QED BY <1>1
<1>3. ev[c].ep \notin Background(ev)
  BY <1>1, <1>2 DEF Background
<1>4. Seen = [i \in {j \in DOMAIN ev : ev[j].ep \notin quiet} |-> ev[i]]
  BY DEF Seen, Considered, Select
<1>5. c \in DOMAIN Seen
  BY <1>1, <1>2, <1>3, <1>4
<1>6. Seen[c] = log[c]
  BY <1>5, SeenFacts
<1> QED BY <1>5, <1>6 DEF Usable, Ok

\* Between two events of a stream, in time, it has no events that are not
\* between them in the stream.
LEMMA BetweenInStream ==
  ASSUME CaptureInv, DetectTypeOK, NEW w \in Windows, NEW c \in Part(w[1]),
         Start(w) <= c, c <= End(w)
  PROVE  \E k \in w[2]..w[3] : stream[w[1]][k] = c
<1> DEFINE g == w[1]
           n == Cardinality(Part(g))
           a == w[2]
           b == w[3]
<1>1. g \in Streams
  BY WindowFacts
<1>2. Listing(stream[g], Part(g)) /\ n \in Nat /\ Part(g) \subseteq Nat
  BY <1>1, StreamFacts
<1>3. a \in 1..n /\ b \in 1..n /\ Start(w) = stream[g][a] /\ End(w) = stream[g][b]
  BY StartFacts DEF Start, End
<1>4. PICK k \in 1..n : stream[g][k] = c
  BY <1>2 DEF Listing
<1>5. \A i, j \in 1..n : i < j <=> stream[g][i] < stream[g][j]
  BY <1>2 DEF Listing
<1>6. ~(k < a) /\ ~(b < k)
  <2>1. stream[g][a] <= stream[g][k] /\ stream[g][k] <= stream[g][b]
    BY <1>3, <1>4
  <2>2. stream[g][a] \in Int /\ stream[g][k] \in Int /\ stream[g][b] \in Int
    BY <1>2, <1>3, <1>4, StartFacts
  <2> HIDE DEF g, n, a, b
  <2> QED BY <1>3, <1>5, <2>1, <2>2
<1>7. k \in a..b
  <2> HIDE DEF n, a, b
  <2> QED BY <1>2, <1>3, <1>6
<1> QED BY <1>4, <1>7

\* A window of the device's stream lies in order, in the capture and in time.
LEMMA WindowInTime ==
  ASSUME CaptureInv, DetectTypeOK, NEW w \in Windows, NEW k \in w[2]..w[3]
  PROVE  LET c == stream[w[1]][k]
         IN c \in DOMAIN log /\ time[Start(w)] <= time[c] /\ time[c] <= time[End(w)]
<1> DEFINE g == w[1]
           n == Cardinality(Part(g))
           a == w[2]
           b == w[3]
           s == stream[g]
<1>1. /\ Listing(s, Part(g)) /\ n \in Nat /\ Part(g) \subseteq DOMAIN log /\ Part(g) \subseteq Nat
  BY WindowFacts, StreamFacts DEF CaptureInv
<1>2. a \in 1..n /\ b \in 1..n
  BY StartFacts
<1>3. k \in 1..n /\ (k = a \/ a < k) /\ (k = b \/ k < b)
  <2>1. k \in a..b
    OBVIOUS
  <2> HIDE DEF a, b, n
  <2> QED BY <1>1, <1>2, <2>1
<1> HIDE DEF n, a, b, s, g
<1>4. s[a] \in DOMAIN log /\ s[k] \in DOMAIN log /\ s[b] \in DOMAIN log
  BY <1>1, <1>2, <1>3 DEF Listing, n
<1>5. (s[k] = s[a] \/ s[a] < s[k]) /\ (s[k] = s[b] \/ s[k] < s[b])
  BY <1>1, <1>2, <1>3 DEF Listing, n
<1>6. time[s[a]] <= time[s[k]] /\ time[s[k]] <= time[s[b]]
  <2>1. \A i \in DOMAIN log : time[i] \in Int
    BY DEF CaptureInv
  <2>2. \A i, j \in DOMAIN log : i < j => time[i] <= time[j]
    BY DEF CaptureInv
  <2> QED BY <1>4, <1>5, <2>1, <2>2
<1> QED BY <1>4, <1>6 DEF Start, End, s, g, a, b

\* A command counts for the response time of a pattern if it is an event of an
\* occurrence, and only then unless it shares the time stamp of the first or
\* the last (description.py:764), whatever else goes on in the meantime: polls,
\* transfers that fail and those without payload record.
THEOREM TimingCorrect == AnalysisSpec => []TimingIsNear
<1>1. AnalysisInv => TimingIsNear
  <2> DEFINE own(w, c) == \E k \in w[2]..w[3] : stream[w[1]][k] = c
             edge(w, c) == time[c] \in {time[Start(w)], time[End(w)]}
  <2> SUFFICES ASSUME AnalysisInv, Described, NEW q \in Listed, NEW c \in DOMAIN log,
                      log[c].type # "control", log[c].dir = "out", log[c].form = "ok"
               PROVE  /\ (\E w \in Occurrences(q) : own(w, c)) => Times(c, q)
                      /\ Times(c, q) => \E w \in Occurrences(q) : own(w, c) \/ edge(w, c)
    BY DEF TimingIsNear
  <2>1. CaptureInv /\ DetectTypeOK
    BY DEF AnalysisInv, SeqInv
  <2>2. ASSUME NEW w \in Occurrences(q), own(w, c) PROVE Times(c, q)
    <3>1. w \in Windows
      BY DEF Occurrences
    <3>2. PICK k \in w[2]..w[3] : stream[w[1]][k] = c
      BY <2>2
    <3>3. time[Start(w)] <= time[c] /\ time[c] <= time[End(w)]
      BY <2>1, <3>1, <3>2, WindowInTime
    <3> QED BY <3>3 DEF Times
  <2>3. ASSUME Times(c, q) PROVE \E w \in Occurrences(q) : own(w, c) \/ edge(w, c)
    <3>1. PICK w \in Occurrences(q) : time[Start(w)] <= time[c] /\ time[c] <= time[End(w)]
      BY <2>3 DEF Times
    <3>2. w \in Windows
      BY DEF Occurrences
    <3>3. w[1] = DeviceStream /\ Start(w) \in Part(w[1]) /\ End(w) \in Part(w[1])
      <4>1. Start(w) \in Part(w[1]) /\ End(w) \in Part(w[1]) /\ scope = "device"
        BY <2>1, <3>2, StartFacts DEF Described
      <4> QED BY <4>1 DEF Part, StreamKey
    <3>4. c \in Part(w[1])
      BY <2>1, <3>3, OutsAreSeen DEF Part, StreamKey, Described
    <3>5. /\ Start(w) \in DOMAIN log /\ End(w) \in DOMAIN log
          /\ Start(w) \in Nat /\ End(w) \in Nat /\ c \in Nat
      <4>1. Part(w[1]) \subseteq DOMAIN log /\ Part(w[1]) \subseteq Nat
        BY <2>1, <3>2, WindowFacts, StreamFacts DEF CaptureInv
      <4> QED BY <3>3, <3>4, <4>1
    <3>6. \A i, j \in DOMAIN log : time[i] \in Int /\ (i < j => time[i] <= time[j])
      BY <2>1 DEF CaptureInv
    <3>7. CASE Start(w) <= c /\ c <= End(w)
      BY <2>1, <3>1, <3>2, <3>4, <3>7, BetweenInStream
    <3>8. CASE c < Start(w) \/ End(w) < c
      <4>1. time[c] <= time[Start(w)] \/ time[End(w)] <= time[c]
        BY <3>5, <3>6, <3>8
      <4>2. time[c] = time[Start(w)] \/ time[c] = time[End(w)]
        BY <3>1, <3>5, <3>6, <4>1
      <4> QED BY <4>2
    <3> QED BY <3>5, <3>7, <3>8
  <2> QED BY <2>2, <2>3
<1> QED BY <1>1, AnalysisInvariant, PTL

-----------------------------------------------------------------------------
\* What normalize_tokens makes of the events of one lane.
EventsOK(l) ==
  /\ IsFiniteSet(DOMAIN l) /\ DOMAIN l \subseteq Nat
  /\ \A i \in DOMAIN l : l[i].payload \in Seq(Nat)

LEMMA HeaderFacts ==
  ASSUME NEW l
  PROVE  HeaderSize(l) \in 0..PrefixBytes
<1> DEFINE filled == {j \in DOMAIN l : l[j].payload # <<>>}
           samples == Cardinality(filled)
           distinct(k) == Cardinality({First(k, l[j].payload) : j \in filled})
           exceeds(k) == 10 * distinct(k) > 7 * samples
           sparse(k) == IF samples >= LaneSamples THEN exceeds(k) ELSE distinct(k) >= samples
           wider == {k \in HeaderBytes + 1..MaxHeaderBytes :
                       /\ distinct(k) >= CardinalityFloor
                       /\ \A n \in HeaderBytes + 1..k : ~sparse(n)}
           narrow == filled = {}
           noisy == samples >= LaneSamples /\ exceeds(HeaderBytes)
           widened == distinct(HeaderBytes) < CardinalityFloor /\ wider # {}
<1>1. HeaderSize(l) = CASE narrow -> 0
                        [] noisy -> 0
                        [] widened -> Min(wider)
                        [] OTHER -> HeaderBytes
  BY DEF HeaderSize
<1>2. wider \subseteq 2..MaxHeaderBytes
  <2>1. HeaderBytes + 1 = 2
    BY DEF HeaderBytes
  <2> HIDE DEF distinct, sparse
  <2> QED BY <2>1
<1> HIDE DEF wider, noisy, narrow
<1>3. widened => Min(wider) \in 2..MaxHeaderBytes
  <2>1. wider \in SUBSET Nat
    BY <1>2
  <2> QED BY <1>2, <2>1, MinIs
<1> HIDE DEF widened
<1>4. HeaderSize(l) \in {0, HeaderBytes} \/ HeaderSize(l) \in 2..MaxHeaderBytes
  BY <1>1, <1>3
<1> QED BY <1>4, NormalizationAssumption DEF HeaderBytes

\* The bytes that key a payload.
KeyWidth(l) == LET size == HeaderSize(l) IN IF size = 0 THEN PrefixBytes ELSE size

LEMMA KeyFacts ==
  ASSUME NEW l, EventsOK(l), NEW i \in DOMAIN l
  PROVE  LET x == l[i].payload
             n == IF KeyWidth(l) < Len(x) THEN KeyWidth(l) ELSE Len(x)
         IN /\ x \in Seq(Nat) /\ Len(x) \in Nat /\ KeyWidth(l) \in 0..PrefixBytes
            /\ Key(l, i) \in Seq(Nat) /\ Len(Key(l, i)) = n
            /\ \A p \in 1..n : Key(l, i)[p] = x[p]
<1> DEFINE x == l[i].payload
           k == KeyWidth(l)
           n == IF k < Len(x) THEN k ELSE Len(x)
<1>1. x \in Seq(Nat) /\ Len(x) \in Nat
  BY DEF EventsOK
<1>2. k \in 0..PrefixBytes
  BY HeaderFacts, NormalizationAssumption DEF KeyWidth
<1>3. Key(l, i) = SubSeq(x, 1, n)
  BY DEF Key, First, KeyWidth
<1> HIDE DEF x, k
<1>4. n \in 0..Len(x)
  BY <1>1, <1>2, NormalizationAssumption
<1> HIDE DEF n
<1>5. SubSeq(x, 1, n) \in Seq(Nat) /\ Len(SubSeq(x, 1, n)) = n /\ \A p \in 1..n : SubSeq(x, 1, n)[p] = x[p]
  BY <1>1, <1>4, FirstsFacts
<1> QED BY <1>1, <1>2, <1>3, <1>5 DEF x, k, n

\* The message of an event.
Small(l, i) == HeaderSize(l) > 0 /\ Cardinality(Group(l, i)) < GroupSamples
Members(l, i) ==
  IF Small(l, i) THEN {j \in DOMAIN l : Key(l, j) = Key(l, i) /\ Small(l, j)} ELSE Group(l, i)
Mode(l, i) ==
  CASE Small(l, i) -> "prefix" [] HeaderSize(l) = 0 -> "full_prefix" [] OTHER -> "full"
MessageAt(l, i) == [events |-> Group(l, i), members |-> Members(l, i), mode |-> Mode(l, i)]

LEMMA MessagesAre == \A l : Messages(l) = {MessageAt(l, i) : i \in DOMAIN l}
BY DEF Messages, MessageAt, Small, Members, Mode

LEMMA MemberFacts ==
  ASSUME NEW l, EventsOK(l), NEW i \in DOMAIN l
  PROVE  /\ i \in Group(l, i) /\ Group(l, i) \subseteq Members(l, i)
         /\ Members(l, i) \subseteq DOMAIN l
         /\ \A j \in Members(l, i) : Key(l, j) = Key(l, i)
         /\ ~Small(l, i) => \A j \in Members(l, i) : Len(l[j].payload) = Len(l[i].payload)
         /\ IsFiniteSet(Members(l, i))
         /\ Min(Members(l, i)) \in Members(l, i) /\ Min(Group(l, i)) \in Group(l, i)
<1>1. i \in Group(l, i) /\ Group(l, i) \subseteq DOMAIN l
  BY DEF Group
<1>2. \A j \in Group(l, i) : Key(l, j) = Key(l, i) /\ Len(l[j].payload) = Len(l[i].payload)
  BY DEF Group
<1>3. \A j \in Group(l, i) : Group(l, j) = Group(l, i)
  BY DEF Group
<1>4. Group(l, i) \subseteq Members(l, i)
  BY <1>1, <1>2, <1>3 DEF Members, Small
<1>5. Members(l, i) \subseteq DOMAIN l
  BY <1>1 DEF Members
<1>6. \A j \in Members(l, i) : Key(l, j) = Key(l, i)
  BY <1>2 DEF Members
<1>7. ~Small(l, i) => \A j \in Members(l, i) : Len(l[j].payload) = Len(l[i].payload)
  BY <1>2 DEF Members
<1>8. IsFiniteSet(Members(l, i))
  BY <1>5, FS_Subset DEF EventsOK
<1>9. Min(Members(l, i)) \in Members(l, i)
  <2>1. Members(l, i) \in SUBSET Nat /\ Members(l, i) # {}
    BY <1>1, <1>4, <1>5 DEF EventsOK
  <2> QED BY <2>1, MinIs
<1>10. Min(Group(l, i)) \in Group(l, i)
  <2>1. Group(l, i) \in SUBSET Nat /\ Group(l, i) # {}
    BY <1>1 DEF EventsOK
  <2> QED BY <2>1, MinIs
<1> QED BY <1>1, <1>4, <1>5, <1>6, <1>7, <1>8, <1>9, <1>10

\* The parts of a signature.
Width(l, i) ==
  LET longest == Max(Lengths(l, MessageAt(l, i)))
  IN IF Mode(l, i) = "full" THEN longest ELSE Min({PrefixBytes, longest})
Values(l, i, p) == {l[j].payload[p] : j \in {k \in Members(l, i) : p <= Len(l[k].payload)}}
FirstPayload(l, i) == l[Min(Members(l, i))].payload
Literal(l, i, p) ==
  p <= Len(FirstPayload(l, i)) /\ (Cardinality(Values(l, i, p)) = 1 \/ Mode(l, i) = "full_prefix")

LEMMA SignatureIs ==
  ASSUME NEW l, NEW i
  PROVE  Signature(l, MessageAt(l, i))
           = [p \in 1..Width(l, i) |-> IF Literal(l, i, p) THEN FirstPayload(l, i)[p] ELSE Masked]
BY DEF Signature, MessageAt, Width, Values, FirstPayload, Literal

LEMMA WidthFacts ==
  ASSUME NEW l, EventsOK(l), NEW i \in DOMAIN l
  PROVE  LET lengths == Lengths(l, MessageAt(l, i))
         IN /\ lengths = {Len(l[j].payload) : j \in Members(l, i)}
            /\ Max(lengths) \in lengths /\ \A j \in Members(l, i) : Len(l[j].payload) <= Max(lengths)
            /\ Width(l, i) \in Nat
            /\ Mode(l, i) = "full" => Width(l, i) = Max(lengths)
            /\ Mode(l, i) # "full" =>
                 Width(l, i) = IF PrefixBytes <= Max(lengths) THEN PrefixBytes ELSE Max(lengths)
<1> DEFINE M == Members(l, i)
           lengths == Lengths(l, MessageAt(l, i))
           f == [j \in M |-> Len(l[j].payload)]
<1>1. lengths = {Len(l[j].payload) : j \in M}
  BY DEF Lengths, MessageAt
<1>2. IsFiniteSet(M) /\ M \subseteq DOMAIN l /\ M # {}
  BY MemberFacts
<1>3. \A j \in M : Len(l[j].payload) \in Nat
  BY <1>2, KeyFacts
<1>4. lengths = {f[j] : j \in M}
  BY <1>1
<1>5. lengths \in SUBSET Int /\ lengths \subseteq Nat /\ lengths # {}
  BY <1>1, <1>2, <1>3
<1>6. IsFiniteSet(lengths)
  <2> HIDE DEF f, lengths, M
  <2> QED BY <1>2, <1>4, FiniteImage
<1>7. Max(lengths) \in lengths /\ \A n \in lengths : n <= Max(lengths)
  <2> HIDE DEF lengths
  <2> QED BY <1>5, <1>6, MaxIs
<1> DEFINE x == Max(lengths)
<1>8. x \in Nat /\ PrefixBytes \in Nat
  BY <1>5, <1>7, NormalizationAssumption
<1>9. Width(l, i) = IF Mode(l, i) = "full" THEN x ELSE Min({PrefixBytes, x})
  BY DEF Width
<1>10. \A j \in M : Len(l[j].payload) <= x
  BY <1>1, <1>7
<1>11. Min({PrefixBytes, x}) = IF PrefixBytes <= x THEN PrefixBytes ELSE x
  <2> HIDE DEF x
  <2> DEFINE y == Min({PrefixBytes, x})
  <2>1. y \in {PrefixBytes, x} /\ \A n \in {PrefixBytes, x} : y <= n
    BY <1>8, MinIs
  <2> HIDE DEF y
  <2>2. y = IF PrefixBytes <= x THEN PrefixBytes ELSE x
    BY <1>8, <2>1
  <2> QED BY <2>2 DEF y
<1> HIDE DEF x, M
<1>12. Width(l, i) \in Nat
  BY <1>8, <1>9, <1>11
<1> QED BY <1>1, <1>7, <1>9, <1>10, <1>11, <1>12 DEF x, M

\* What a signature does not mask, every event of the message has.
LEMMA SignatureDescribes ==
  ASSUME NEW l, EventsOK(l), NEW i \in DOMAIN l, NEW j \in Group(l, i),
         NEW p \in DOMAIN Signature(l, MessageAt(l, i)), p <= Len(l[j].payload)
  PROVE  Signature(l, MessageAt(l, i))[p] \in {Masked, l[j].payload[p]}
<1> DEFINE f == Min(Members(l, i))
<1>1. /\ f \in Members(l, i) /\ j \in Members(l, i) /\ Members(l, i) \subseteq DOMAIN l
      /\ Key(l, f) = Key(l, j)
  BY MemberFacts
<1>2. p \in 1..Width(l, i) /\ Width(l, i) \in Nat
  BY SignatureIs, WidthFacts
<1>3. Signature(l, MessageAt(l, i))[p] = IF Literal(l, i, p) THEN l[f].payload[p] ELSE Masked
  BY <1>2, SignatureIs DEF FirstPayload
<1>4. ASSUME Literal(l, i, p), Cardinality(Values(l, i, p)) = 1
      PROVE  l[f].payload[p] = l[j].payload[p]
  <2>1. l[f].payload[p] \in Values(l, i, p) /\ l[j].payload[p] \in Values(l, i, p)
    BY <1>1, <1>4 DEF Values, Literal, FirstPayload
  <2>2. IsFiniteSet(Values(l, i, p))
    <3> DEFINE K == {k \in Members(l, i) : p <= Len(l[k].payload)}
               h == [k \in K |-> l[k].payload[p]]
    <3>1. IsFiniteSet(K)
      BY MemberFacts, FS_Subset
    <3>2. Values(l, i, p) = {h[k] : k \in K}
      BY DEF Values
    <3> HIDE DEF K, h
    <3> QED BY <3>1, <3>2, FiniteImage
  <2>3. PICK v : Values(l, i, p) = {v}
    BY <1>4, <2>2, FS_Singleton
  <2> QED BY <2>1, <2>3
<1>5. ASSUME Literal(l, i, p), Mode(l, i) = "full_prefix"
      PROVE  l[f].payload[p] = l[j].payload[p]
  <2>1. KeyWidth(l) = PrefixBytes
    BY <1>5, HeaderFacts DEF Mode, KeyWidth, Small
  <2> DEFINE x == l[f].payload
             y == l[j].payload
  <2>2. p <= PrefixBytes
    <3> DEFINE n == Max(Lengths(l, MessageAt(l, i)))
    <3>1. Width(l, i) = IF PrefixBytes <= n THEN PrefixBytes ELSE n
      BY <1>5, WidthFacts
    <3>2. n \in Nat
      <4>1. n \in {Len(l[k].payload) : k \in Members(l, i)}
        BY WidthFacts
      <4>2. \A k \in Members(l, i) : Len(l[k].payload) \in Nat
        BY <1>1, KeyFacts
      <4> QED BY <4>1, <4>2
    <3> HIDE DEF n
    <3> QED BY <1>2, <3>1, <3>2, NormalizationAssumption
  <2>3. p <= Len(x) /\ p <= Len(y)
    BY <1>5 DEF Literal, FirstPayload
  <2>4. Key(l, f)[p] = x[p]
    <3>1. Len(x) \in Nat /\ \A n \in 1..IF KeyWidth(l) < Len(x) THEN KeyWidth(l) ELSE Len(x) : Key(l, f)[n] = x[n]
      BY <1>1, KeyFacts
    <3> HIDE DEF x, y
    <3>2. p \in 1..IF KeyWidth(l) < Len(x) THEN KeyWidth(l) ELSE Len(x)
      BY <1>2, <2>1, <2>2, <2>3, <3>1, NormalizationAssumption
    <3> QED BY <3>1, <3>2
  <2>5. Key(l, j)[p] = y[p]
    <3>1. Len(y) \in Nat /\ \A n \in 1..IF KeyWidth(l) < Len(y) THEN KeyWidth(l) ELSE Len(y) : Key(l, j)[n] = y[n]
      BY <1>1, KeyFacts
    <3> HIDE DEF x, y
    <3>2. p \in 1..IF KeyWidth(l) < Len(y) THEN KeyWidth(l) ELSE Len(y)
      BY <1>2, <2>1, <2>2, <2>3, <3>1, NormalizationAssumption
    <3> QED BY <3>1, <3>2
  <2> QED BY <1>1, <2>4, <2>5
<1> QED BY <1>3, <1>4, <1>5 DEF Literal

\* The signature of a pool begins with the header of the pool.
LEMMA HeaderInSignature ==
  ASSUME NEW l, EventsOK(l), NEW i \in DOMAIN l, Mode(l, i) = "prefix",
         NEW p \in 1..KeyWidth(l)
  PROVE  /\ p <= Len(Key(l, i)) <=> p \in DOMAIN Signature(l, MessageAt(l, i))
         /\ p <= Len(Key(l, i)) => Signature(l, MessageAt(l, i))[p] = Key(l, i)[p]
<1> DEFINE k == KeyWidth(l)
           K == Key(l, i)
           M == Members(l, i)
           f == Min(M)
           n(j) == Len(l[j].payload)
           longest == Max(Lengths(l, MessageAt(l, i)))
<1>1. /\ f \in M /\ M \subseteq DOMAIN l
      /\ \A j \in M : Key(l, j) = K
  BY MemberFacts
<1>2. k \in 0..PrefixBytes /\ PrefixBytes \in Nat /\ Len(K) \in Nat /\ K \in Seq(Nat)
  BY KeyFacts, NormalizationAssumption
<1>3. ASSUME NEW j \in M
      PROVE  /\ n(j) \in Nat /\ Len(K) = IF k < n(j) THEN k ELSE n(j)
             /\ \A x \in 1..Len(K) : l[j].payload[x] = K[x]
  <2>1. /\ n(j) \in Nat /\ Len(Key(l, j)) = IF k < n(j) THEN k ELSE n(j)
        /\ \A x \in 1..Len(Key(l, j)) : Key(l, j)[x] = l[j].payload[x]
    BY <1>1, KeyFacts
  <2> QED BY <1>1, <2>1
<1>4. /\ longest \in {n(j) : j \in M} /\ \A j \in M : n(j) <= longest
      /\ Width(l, i) = IF PrefixBytes <= longest THEN PrefixBytes ELSE longest
      /\ Width(l, i) \in Nat
  BY WidthFacts
<1>5. DOMAIN Signature(l, MessageAt(l, i)) = 1..Width(l, i)
  BY SignatureIs
<1>6. ASSUME p <= Len(K)
      PROVE  p <= Width(l, i) /\ Signature(l, MessageAt(l, i))[p] = K[p]
  <2>1. \A j \in M : p <= n(j) /\ p \in 1..Len(K)
    <3> SUFFICES ASSUME NEW j \in M PROVE p <= n(j) /\ p \in 1..Len(K)
      OBVIOUS
    <3>1. n(j) \in Nat /\ Len(K) = IF k < n(j) THEN k ELSE n(j)
      BY <1>3
    <3> HIDE DEF n, K, k
    <3>2. p \in Int /\ 1 <= p
      OBVIOUS
    <3> QED BY <1>2, <1>6, <3>1, <3>2
  <2>2. p <= longest /\ longest \in Nat
    BY <1>3, <1>4, <2>1
  <2>3. p <= PrefixBytes
    <3>1. p \in 1..k
      OBVIOUS
    <3> HIDE DEF k
    <3> QED BY <1>2, <3>1
  <2>4. p <= Width(l, i)
    BY <1>4, <2>2, <2>3
  <2>5. Values(l, i, p) = {K[p]}
    <3>1. \A j \in M : l[j].payload[p] = K[p] /\ p <= n(j)
      BY <1>3, <2>1
    <3> HIDE DEF K
    <3> QED BY <1>1, <3>1 DEF Values
  <2>6. Literal(l, i, p)
    BY <1>1, <2>1, <2>5, FS_Singleton DEF Literal, FirstPayload
  <2>7. Signature(l, MessageAt(l, i))[p] = l[f].payload[p]
    <3>1. p \in 1..Width(l, i)
      BY <1>4, <2>4
    <3> QED BY <2>6, <3>1, SignatureIs DEF FirstPayload
  <2> QED BY <1>1, <1>3, <2>1, <2>4, <2>7
<1>7. ASSUME ~(p <= Len(K))
      PROVE  ~(p <= Width(l, i))
  <2>0. p \in Int /\ 1 <= p /\ p <= k
    <3>1. p \in 1..k
      OBVIOUS
    <3> HIDE DEF k
    <3> QED BY <1>2, <3>1
  <2>1. \A j \in M : n(j) = Len(K)
    <3> SUFFICES ASSUME NEW j \in M PROVE n(j) = Len(K)
      OBVIOUS
    <3>1. n(j) \in Nat /\ Len(K) = IF k < n(j) THEN k ELSE n(j)
      BY <1>3
    <3> HIDE DEF n, K, k
    <3> QED BY <1>2, <1>7, <2>0, <3>1
  <2>2. longest = Len(K)
    BY <1>4, <2>1
  <2>3. Width(l, i) <= Len(K)
    <3> HIDE DEF longest, K
    <3> QED BY <1>2, <1>4, <2>2
  <2> HIDE DEF K
  <2> QED BY <1>2, <1>4, <1>7, <2>0, <2>3
<1>8. p \in 1..Width(l, i) <=> p <= Width(l, i)
  <2>1. p \in Int /\ 1 <= p
    OBVIOUS
  <2> QED BY <1>4, <2>1
<1> QED BY <1>5, <1>6, <1>7, <1>8

\* So no two pools of a lane have a signature in common.
LEMMA SignatureTellsPool ==
  ASSUME NEW l, EventsOK(l), NEW i \in DOMAIN l, NEW j \in DOMAIN l,
         Mode(l, i) = "prefix", Mode(l, j) = "prefix",
         Signature(l, MessageAt(l, i)) = Signature(l, MessageAt(l, j))
  PROVE  Key(l, i) = Key(l, j)
<1> DEFINE a == Key(l, i)
           b == Key(l, j)
           k == KeyWidth(l)
<1>1. a \in Seq(Nat) /\ b \in Seq(Nat) /\ Len(a) \in 0..k /\ Len(b) \in 0..k /\ k \in Nat
  <2>1. /\ k \in Nat /\ a \in Seq(Nat) /\ Len(l[i].payload) \in Nat
        /\ Len(a) = IF k < Len(l[i].payload) THEN k ELSE Len(l[i].payload)
    BY KeyFacts, NormalizationAssumption
  <2>2. /\ b \in Seq(Nat) /\ Len(l[j].payload) \in Nat
        /\ Len(b) = IF k < Len(l[j].payload) THEN k ELSE Len(l[j].payload)
    BY KeyFacts, NormalizationAssumption
  <2> HIDE DEF a, b, k
  <2>3. Len(a) \in 0..k
    BY <2>1
  <2>4. Len(b) \in 0..k
    BY <2>1, <2>2
  <2> QED BY <2>1, <2>2, <2>3, <2>4
<1>2. \A p \in 1..k : p <= Len(a) <=> p <= Len(b)
  BY HeaderInSignature
<1>3. \A p \in 1..k : p <= Len(a) => a[p] = b[p]
  BY HeaderInSignature
<1> HIDE DEF a, b, k
<1>4. Len(a) = Len(b)
  <2>1. Len(a) # 0 => Len(a) \in 1..k /\ Len(a) <= Len(b)
    BY <1>1, <1>2
  <2>2. Len(b) # 0 => Len(b) \in 1..k /\ Len(b) <= Len(a)
    BY <1>1, <1>2
  <2> QED BY <1>1, <2>1, <2>2
<1>5. \A p \in 1..Len(a) : a[p] = b[p]
  <2> SUFFICES ASSUME NEW p \in 1..Len(a) PROVE a[p] = b[p]
    OBVIOUS
  <2>1. p \in 1..k /\ p <= Len(a)
    BY <1>1
  <2> QED BY <1>3, <2>1
<1>6. a = b
  BY <1>1, <1>4, <1>5, SeqEqual
<1> QED BY <1>6 DEF a, b

TokenAt(l, i) == <<Lane(l[Min(Group(l, i))]), Mode(l, i), Signature(l, MessageAt(l, i))>>

\* Two messages of a lane that share a token share their lengths, unless their
\* header tells nothing.
LEMMA TokenTellsLengths ==
  ASSUME NEW l, EventsOK(l), NEW i \in DOMAIN l, NEW j \in DOMAIN l,
         TokenAt(l, i) = TokenAt(l, j), Mode(l, i) # "full_prefix", NEW x \in Group(l, i)
  PROVE  Len(l[x].payload) \in Lengths(l, MessageAt(l, j))
<1>1. Mode(l, i) = Mode(l, j) /\ Signature(l, MessageAt(l, i)) = Signature(l, MessageAt(l, j))
  BY DEF TokenAt
<1>2. x \in Members(l, i) /\ Len(l[x].payload) = Len(l[i].payload)
  BY MemberFacts DEF Group
<1>3. CASE Mode(l, i) = "full"
  <2>1. ~Small(l, i)
    BY <1>3 DEF Mode
  <2>2. Width(l, i) = Max(Lengths(l, MessageAt(l, i))) /\ Width(l, i) \in Nat
    BY <1>3, WidthFacts
  <2>3. Max(Lengths(l, MessageAt(l, i))) \in {Len(l[k].payload) : k \in Members(l, i)}
    BY WidthFacts
  <2>4. Width(l, i) = Len(l[i].payload)
    BY <2>1, <2>2, <2>3, MemberFacts
  <2>5. Width(l, j) \in Lengths(l, MessageAt(l, j)) /\ Width(l, j) \in Nat
    BY <1>1, <1>3, WidthFacts
  <2>6. 1..Width(l, i) = 1..Width(l, j)
    BY <1>1, SignatureIs
  <2>7. Width(l, i) = Width(l, j)
    BY <2>2, <2>5, <2>6
  <2> QED BY <1>2, <2>4, <2>5, <2>7
<1>4. CASE Mode(l, i) = "prefix"
  <2>1. Key(l, i) = Key(l, j)
    BY <1>1, <1>4, SignatureTellsPool
  <2>2. Small(l, i) /\ Small(l, j)
    BY <1>1, <1>4 DEF Mode
  <2>3. Members(l, i) = Members(l, j)
    BY <2>1, <2>2 DEF Members
  <2>4. x \in Members(l, j)
    BY <1>2, <2>3
  <2> QED BY <2>4, WidthFacts
<1>5. Mode(l, i) \in {"full", "prefix", "full_prefix"}
  BY DEF Mode
<1> QED BY <1>3, <1>4, <1>5

\* The events of a lane.
LEMMA LaneFacts ==
  ASSUME NEW ev, EventsOK(ev), NEW c \in DOMAIN ev
  PROVE  /\ DOMAIN LaneOf(ev, c) = {j \in DOMAIN ev : Lane(ev[j]) = Lane(ev[c])}
         /\ \A j \in DOMAIN LaneOf(ev, c) : LaneOf(ev, c)[j] = ev[j]
         /\ EventsOK(LaneOf(ev, c)) /\ c \in DOMAIN LaneOf(ev, c)
<1> DEFINE D == {j \in DOMAIN ev : Lane(ev[j]) = Lane(ev[c])}
           l == LaneOf(ev, c)
<1>1. l = [j \in D |-> ev[j]]
  BY DEF LaneOf, Select
<1> HIDE DEF l
<1>2. DOMAIN l = D /\ \A j \in D : l[j] = ev[j]
  BY <1>1
<1>3. EventsOK(l)
  <2>1. D \subseteq DOMAIN ev
    OBVIOUS
  <2> HIDE DEF D
  <2>2. IsFiniteSet(D)
    BY <2>1, FS_Subset DEF EventsOK
  <2> QED BY <1>2, <2>1, <2>2 DEF EventsOK
<1> QED BY <1>2, <1>3 DEF l

\* The messages of all lanes.
Record(l, i) ==
  [events |-> Group(l, i), token |-> TokenAt(l, i), lengths |-> Lengths(l, MessageAt(l, i))]

LEMMA NormalizeIs ==
  ASSUME NEW ev, NEW m
  PROVE  m \in Normalize(ev) <=> \E c \in DOMAIN ev : \E i \in DOMAIN LaneOf(ev, c) : m = Record(LaneOf(ev, c), i)
<1>1. ASSUME NEW l PROVE Tokenize(l) = {Record(l, i) : i \in DOMAIN l}
  <2> DEFINE R(n) == [events |-> n.events, token |-> <<Lane(l[Min(n.events)]), n.mode, Signature(l, n)>>,
                      lengths |-> Lengths(l, n)]
  <2>1. Tokenize(l) = {R(n) : n \in Messages(l)}
    BY DEF Tokenize
  <2>2. \A i : R(MessageAt(l, i)) = Record(l, i)
    <3> TAKE i
    <3> DEFINE n == MessageAt(l, i)
    <3>1. n.events = Group(l, i) /\ n.mode = Mode(l, i)
      BY DEF MessageAt
    <3>2. R(n) = [events |-> n.events, token |-> <<Lane(l[Min(n.events)]), n.mode, Signature(l, n)>>,
                  lengths |-> Lengths(l, n)]
      OBVIOUS
    <3> HIDE DEF n, R
    <3>3. R(n) = [events |-> Group(l, i), token |-> <<Lane(l[Min(Group(l, i))]), Mode(l, i), Signature(l, n)>>,
                  lengths |-> Lengths(l, n)]
      BY <3>1, <3>2
    <3> QED BY <3>3 DEF n, Record, TokenAt
  <2> HIDE DEF R
  <2> QED BY <2>1, <2>2, MessagesAre
<1>2. m \in Normalize(ev) <=> \E c \in DOMAIN ev : m \in Tokenize(LaneOf(ev, c))
  BY DEF Normalize, Lanes
<1> QED BY <1>1, <1>2

\* All events of a message have one token.
LEMMA SameMessage ==
  ASSUME NEW l, NEW j, NEW i \in Group(l, j)
  PROVE  TokenAt(l, i) = TokenAt(l, j)
<1>1. Group(l, i) = Group(l, j) /\ Key(l, i) = Key(l, j)
  BY DEF Group
<1>2. Small(l, i) = Small(l, j)
  BY <1>1 DEF Small
<1>3. Members(l, i) = Members(l, j) /\ Mode(l, i) = Mode(l, j)
  BY <1>1, <1>2 DEF Members, Mode
<1>4. MessageAt(l, i) = MessageAt(l, j)
  BY <1>1, <1>3 DEF MessageAt
<1> QED BY <1>1, <1>3, <1>4 DEF TokenAt

\* The token of an event depends on its lane alone.
LEMMA TokenOfFacts ==
  ASSUME NEW ev, EventsOK(ev), NEW i \in DOMAIN ev
  PROVE  TokenOf(Normalize(ev), i) = TokenAt(LaneOf(ev, i), i)
<1> DEFINE m == CHOOSE n \in Normalize(ev) : i \in n.events
<1>1. \E n \in Normalize(ev) : i \in n.events
  <2> DEFINE l == LaneOf(ev, i)
  <2>1. EventsOK(l) /\ i \in DOMAIN l
    BY LaneFacts
  <2>2. Record(l, i) \in Normalize(ev)
    BY <2>1, NormalizeIs
  <2>3. i \in Record(l, i).events
    BY <2>1, MemberFacts DEF Record
  <2> QED BY <2>2, <2>3
<1>2. m \in Normalize(ev) /\ i \in m.events
  BY <1>1
<1> HIDE DEF m
<1>3. PICK c \in DOMAIN ev : \E j \in DOMAIN LaneOf(ev, c) : m = Record(LaneOf(ev, c), j)
  BY <1>2, NormalizeIs
<1>4. PICK j \in DOMAIN LaneOf(ev, c) : m = Record(LaneOf(ev, c), j)
  BY <1>3
<1>5. i \in Group(LaneOf(ev, c), j) /\ m.token = TokenAt(LaneOf(ev, c), j)
  BY <1>2, <1>4 DEF Record
<1>6. i \in DOMAIN LaneOf(ev, c)
  BY <1>5 DEF Group
<1>7. Lane(ev[i]) = Lane(ev[c])
  BY <1>6, LaneFacts
<1>8. LaneOf(ev, i) = LaneOf(ev, c)
  BY <1>7 DEF LaneOf
<1> QED BY <1>5, <1>8, SameMessage DEF TokenOf, m

\* A token tells what it stands for, whatever the events.
LEMMA TokensHold ==
  ASSUME NEW ev, EventsOK(ev), NEW i \in DOMAIN ev, NEW t, t = TokenOf(Normalize(ev), i)
  PROVE  /\ t[1] = Lane(ev[i])
         /\ \A p \in DOMAIN t[3] : p <= Len(ev[i].payload) => t[3][p] \in {Masked, ev[i].payload[p]}
         /\ t[2] # "full_prefix" => Len(ev[i].payload) \in ReportedLengths(Normalize(ev), t)
<1> DEFINE l == LaneOf(ev, i)
<1>1. i \in DOMAIN l /\ i \in Group(l, i) /\ t = TokenAt(l, i)
  BY TokenOfFacts, LaneFacts, MemberFacts
<1>2. /\ EventsOK(l) /\ i \in DOMAIN l /\ \A k \in DOMAIN l : l[k] = ev[k] /\ Lane(ev[k]) = Lane(ev[i])
      /\ DOMAIN l \subseteq DOMAIN ev
  BY LaneFacts
<1>3. /\ t[1] = Lane(l[Min(Group(l, i))]) /\ t[2] = Mode(l, i)
      /\ t[3] = Signature(l, MessageAt(l, i))
  BY <1>1 DEF TokenAt
<1> HIDE DEF l
<1>4. t[1] = Lane(ev[i])
  <2>1. Min(Group(l, i)) \in DOMAIN l
    BY <1>1, <1>2, MemberFacts
  <2> QED BY <1>2, <1>3, <2>1
<1>5. ASSUME NEW p \in DOMAIN t[3], p <= Len(ev[i].payload)
      PROVE  t[3][p] \in {Masked, ev[i].payload[p]}
  <2>1. p \in DOMAIN Signature(l, MessageAt(l, i)) /\ p <= Len(l[i].payload)
    BY <1>2, <1>3, <1>5
  <2>2. Signature(l, MessageAt(l, i))[p] \in {Masked, l[i].payload[p]}
    BY <1>1, <1>2, <2>1, SignatureDescribes
  <2> QED BY <1>2, <1>3, <2>2
<1>6. ASSUME t[2] # "full_prefix"
      PROVE  Len(ev[i].payload) \in ReportedLengths(Normalize(ev), t)
  <2> DEFINE alike == {m \in Normalize(ev) : m.token = t}
             B == {Min(m.events) : m \in alike}
             last == CHOOSE m \in alike : \A n \in alike : Min(n.events) <= Min(m.events)
  <2>1. Record(l, i) \in alike
    <3>1. Record(l, i) \in Normalize(ev)
      BY <1>1, NormalizeIs DEF l
    <3> QED BY <1>1, <3>1 DEF Record
  <2>2. ASSUME NEW m \in alike
        PROVE  \E k \in DOMAIN l : m = Record(l, k) /\ TokenAt(l, k) = t
    <3>1. PICK c \in DOMAIN ev : \E k \in DOMAIN LaneOf(ev, c) : m = Record(LaneOf(ev, c), k)
      BY NormalizeIs
    <3>2. PICK k \in DOMAIN LaneOf(ev, c) : m = Record(LaneOf(ev, c), k)
      BY <3>1
    <3> DEFINE r == LaneOf(ev, c)
    <3>3. TokenAt(r, k) = t
      BY <3>2 DEF Record
    <3>4. EventsOK(r) /\ \A x \in DOMAIN r : r[x] = ev[x] /\ Lane(ev[x]) = Lane(ev[c])
      BY LaneFacts
    <3>5. Lane(r[Min(Group(r, k))]) = t[1]
      BY <3>3 DEF TokenAt
    <3>6. Min(Group(r, k)) \in DOMAIN r
      <4> HIDE DEF r
      <4> QED BY <3>2, <3>4, MemberFacts DEF r
    <3>7. Lane(ev[c]) = Lane(ev[i])
      <4> HIDE DEF r
      <4> QED BY <1>4, <3>4, <3>5, <3>6
    <3>8. r = l
      BY <3>7 DEF LaneOf, l
    <3> QED BY <3>2, <3>3, <3>8
  <2>3. B \in SUBSET Int /\ B # {} /\ IsFiniteSet(B)
    <3>1. \A m \in alike : Min(m.events) \in DOMAIN l
      <4> SUFFICES ASSUME NEW m \in alike PROVE Min(m.events) \in DOMAIN l
        OBVIOUS
      <4>1. PICK k \in DOMAIN l : m = Record(l, k)
        BY <2>2
      <4>2. m.events = Group(l, k)
        BY <4>1 DEF Record
      <4>3. Min(Group(l, k)) \in Group(l, k) /\ Group(l, k) \subseteq DOMAIN l
        BY <1>2, MemberFacts DEF Group
      <4> QED BY <4>2, <4>3
    <3>2. B \subseteq DOMAIN l /\ B # {}
      BY <2>1, <3>1
    <3> HIDE DEF B
    <3> QED BY <1>2, <3>2, FS_Subset DEF EventsOK
  <2>4. Max(B) \in B /\ \A n \in B : n <= Max(B)
    <3> HIDE DEF B
    <3> QED BY <2>3, MaxIs
  <2>5. \E m \in alike : \A n \in alike : Min(n.events) <= Min(m.events)
    BY <2>4
  <2>6. last \in alike
    <3> HIDE DEF alike
    <3> QED BY <2>5
  <2>7. ReportedLengths(Normalize(ev), t) = last.lengths
    BY DEF ReportedLengths
  <2> HIDE DEF last, alike
  <2>8. PICK k \in DOMAIN l : last = Record(l, k) /\ TokenAt(l, k) = t
    BY <2>2, <2>6
  <2>9. last.lengths = Lengths(l, MessageAt(l, k))
    BY <2>8 DEF Record
  <2>10. Len(l[i].payload) \in Lengths(l, MessageAt(l, k))
    BY <1>1, <1>2, <1>3, <1>6, <2>8, TokenTellsLengths
  <2> QED BY <1>2, <2>7, <2>9, <2>10
<1> QED BY <1>4, <1>5, <1>6

LEMMA SeenOK == CaptureInv => EventsOK(Seen)
<1> SUFFICES ASSUME CaptureInv PROVE EventsOK(Seen)
  OBVIOUS
<1>1. DOMAIN Seen \subseteq 1..Len(log) /\ Len(log) \in Nat /\ DOMAIN log = 1..Len(log)
  BY SeenFacts DEF CaptureInv
<1>2. IsFiniteSet(1..Len(log))
  BY <1>1, FS_Interval
<1>3. IsFiniteSet(DOMAIN Seen) /\ DOMAIN Seen \subseteq Nat
  BY <1>1, <1>2, FS_Subset
<1>4. \A i \in DOMAIN Seen : Seen[i].payload \in Seq(Nat)
  <2> SUFFICES ASSUME NEW i \in DOMAIN Seen PROVE Seen[i].payload \in Seq(Nat)
    OBVIOUS
  <2>1. Seen[i] = log[i] /\ log[i] \in Transactions
    BY <1>1, SeenFacts DEF CaptureInv
  <2> QED BY <2>1, ProtocolAnalysisAssumption
<1> QED BY <1>3, <1>4 DEF EventsOK

\* A token describes each of its events (analyzer.py:495-556), for payloads of
\* any length and any number of lanes: what is masked apart, it has their
\* bytes, and what is reported for it covers their lengths.
THEOREM TokensCorrect == AnalysisSpec => []TokensDescribe
<1>1. AnalysisInv => TokensDescribe
  <2> SUFFICES ASSUME AnalysisInv PROVE TokensDescribe
    OBVIOUS
  <2>1. EventsOK(Seen)
    BY SeenOK DEF AnalysisInv
  <2> QED BY <2>1, TokensHold DEF TokensDescribe, Seen
<1> QED BY <1>1, AnalysisInvariant, PTL

-----------------------------------------------------------------------------
\* Where no transfer failed, the observations are made of all events; those of
\* the stream are among them, and have the same tokens.
LEMMA SeenIsFresh ==
  ASSUME CaptureInv, \A i \in DOMAIN log : log[i].form # "failed"
  PROVE  /\ EventsOK(Fresh) /\ DOMAIN Seen \subseteq DOMAIN Fresh
         /\ Usable(Seen) = DOMAIN Seen
         /\ \A i \in DOMAIN Seen : TokenOf(Normalize(Seen), i) = TokenOf(Normalize(Fresh), i)
<1> DEFINE ev == AnalysisEvents(log)
           D == {i \in DOMAIN log : log[i].type # "control" /\ log[i].form # "missing"}
           quiet == IF scope = "device" THEN Background(ev) ELSE {}
<1>1. ev = [i \in D |-> log[i]]
  BY DEF AnalysisEvents, Select
<1> HIDE DEF ev
<1>2. DOMAIN ev = D /\ \A i \in D : ev[i] = log[i]
  BY <1>1
<1>3. Usable(ev) = DOMAIN ev
  BY <1>2 DEF Usable, Ok
<1>4. Fresh = [i \in DOMAIN ev |-> ev[i]]
  <2>1. Fresh = Select(Usable(ev), ev)
    BY DEF Fresh, ev
  <2> QED BY <1>3, <2>1 DEF Select
<1>5. Seen = [i \in {j \in DOMAIN ev : ev[j].ep \notin quiet} |-> ev[i]]
  BY DEF Seen, Considered, Select, ev
<1> DEFINE E == {j \in DOMAIN ev : ev[j].ep \notin quiet}
           fresh == Fresh
           seen == Seen
<1> HIDE DEF quiet, fresh, seen
<1>6. DOMAIN fresh = D /\ \A i \in D : fresh[i] = log[i]
  BY <1>2, <1>4 DEF fresh
<1>7. DOMAIN seen = E /\ \A i \in E : seen[i] = log[i]
  BY <1>2, <1>5 DEF seen
<1>8. EventsOK(fresh)
  <2>1. DOMAIN log = 1..Len(log) /\ Len(log) \in Nat /\ \A i \in DOMAIN log : log[i] \in Transactions
    BY DEF CaptureInv
  <2>2. IsFiniteSet(DOMAIN log) /\ DOMAIN log \subseteq Nat
    BY <2>1, FS_Interval
  <2>3. IsFiniteSet(D) /\ D \subseteq Nat
    BY <2>2, FS_Subset
  <2>4. \A i \in D : log[i].payload \in Seq(Nat)
    BY <2>1, ProtocolAnalysisAssumption
  <2> HIDE DEF D
  <2> QED BY <1>6, <2>3, <2>4 DEF EventsOK
<1>9. EventsOK(seen)
  BY SeenOK DEF seen
<1>10. E \subseteq D
  BY <1>2
<1>11. ASSUME NEW i \in E
       PROVE  TokenOf(Normalize(seen), i) = TokenOf(Normalize(fresh), i)
  <2>1. {j \in E : Lane(seen[j]) = Lane(seen[i])} = {j \in D : Lane(fresh[j]) = Lane(fresh[i])}
    <3>1. \A j \in D : Lane(log[j]) = Lane(log[i]) => j \in E
      BY <1>2 DEF Lane
    <3>2. \A j \in E : seen[j] = log[j] /\ fresh[j] = log[j] /\ j \in D
      BY <1>6, <1>7, <1>10
    <3> HIDE DEF D, E
    <3> QED BY <1>6, <3>1, <3>2
  <2>2. LaneOf(seen, i) = LaneOf(fresh, i)
    <3> DEFINE S == {j \in E : Lane(seen[j]) = Lane(seen[i])}
    <3>1. LaneOf(seen, i) = [j \in S |-> seen[j]]
      BY <1>7 DEF LaneOf, Select
    <3>2. LaneOf(fresh, i) = [j \in S |-> fresh[j]]
      BY <1>6, <2>1 DEF LaneOf, Select
    <3>3. \A j \in S : seen[j] = fresh[j]
      BY <1>6, <1>7, <1>10
    <3> HIDE DEF S
    <3> QED BY <3>1, <3>2, <3>3
  <2>3. TokenOf(Normalize(seen), i) = TokenAt(LaneOf(seen, i), i)
    BY <1>7, <1>9, TokenOfFacts
  <2>4. TokenOf(Normalize(fresh), i) = TokenAt(LaneOf(fresh, i), i)
    BY <1>6, <1>8, <1>10, TokenOfFacts
  <2> QED BY <2>2, <2>3, <2>4
<1>12. Usable(seen) = DOMAIN seen
  BY <1>2, <1>7 DEF Usable, Ok
<1> QED BY <1>6, <1>7, <1>8, <1>10, <1>11, <1>12 DEF fresh, seen

\* A listing rises.
LEMMA ListingRises == \A s, S : Listing(s, S) /\ S \subseteq Int => Rises(s, Cardinality(S))
BY DEF Listing, Rises

\* What is observed but once is not listed as a pattern (description.py:874), for
\* captures of any length without failed transfers: the same packets have the
\* same tokens in both passes, although one leaves out the polls.
THEOREM ObservationsCorrect == AnalysisSpec => []ObservationsAreSingle
<1>1. AnalysisInv => ObservationsAreSingle
  <2> SUFFICES ASSUME AnalysisInv, Described, \A i \in DOMAIN log : log[i].form # "failed",
                      NEW o \in Observations, NEW q \in Listed, NEW w \in Occurrences(q),
                      {stream[DeviceStream][k] : k \in w[2]..w[3]} = o
               PROVE  FALSE
    BY DEF ObservationsAreSingle
  <2> DEFINE order == FreshOrder
             messages == Normalize(Fresh)
             D == DOMAIN Fresh
             windows == {v \in (DOMAIN order) \X (DOMAIN order) : v[1] <= v[2] /\ v[2] - v[1] < MaxWindow}
             tokens(v) == [k \in 1..v[2] - v[1] + 1 |-> TokenOf(messages, order[v[1] + k - 1])]
             all == {[first |-> v[1], last |-> v[2], tokens |-> tokens(v)] : v \in windows}
  <2>1. CaptureInv /\ SeqInv /\ DetectTypeOK
    BY DEF AnalysisInv, SeqInv
  <2>2. PICK x \in Candidates(order, all) : o = {order[k] : k \in x.first..x.last}
    BY DEF Observations
  <2>3. x \in all /\ x.tokens \notin Listed
    BY <2>2 DEF Candidates
  <2>4. PICK v \in windows : x = [first |-> v[1], last |-> v[2], tokens |-> tokens(v)]
    BY <2>3
  <2>5. /\ EventsOK(Fresh) /\ DOMAIN Seen \subseteq D /\ Usable(Seen) = DOMAIN Seen
        /\ \A i \in DOMAIN Seen : TokenOf(Normalize(Seen), i) = TokenOf(messages, i)
    BY <2>1, SeenIsFresh
  <2> HIDE DEF D, messages
  <2>6. Listing(order, D) /\ Cardinality(D) \in Nat /\ D \subseteq Int /\ Rises(order, Cardinality(D))
    <3>1. IsFiniteSet(D) /\ D \in SUBSET Int
      BY <2>5 DEF EventsOK, D
    <3>2. order = [k \in 1..Cardinality(D) |-> CHOOSE i \in D : Cardinality(UpTo(D, i)) = k]
      BY DEF FreshOrder, InOrder, UpTo, D
    <3> HIDE DEF order
    <3>3. Listing(order, D) /\ Cardinality(D) \in Nat
      BY <3>1, <3>2, Lists
    <3> QED BY <3>1, <3>3, ListingRises
  <2> DEFINE m == Cardinality(D)
             n == Cardinality(Part(DeviceStream))
             a == w[2]
             b == w[3]
             c == v[1]
             d == v[2]
  <2>7. /\ w \in Windows /\ Gram(w) = q /\ w[1] = DeviceStream /\ DeviceStream \in Streams
        /\ a \in 1..n /\ b \in 1..n /\ a <= b
    <3>1. w \in Windows /\ Gram(w) = q
      BY DEF Occurrences
    <3>2. Start(w) \in Part(w[1]) /\ scope = "device"
      BY <2>1, <3>1, StartFacts DEF Described
    <3>3. w[1] = DeviceStream
      BY <3>2 DEF Part, StreamKey
    <3> QED BY <2>1, <3>1, <3>3, WindowFacts, StartFacts
  <2>8. /\ Rises(stream[DeviceStream], n) /\ n \in Nat /\ DOMAIN token[DeviceStream] = 1..n /\ DOMAIN stream[DeviceStream] = 1..n
        /\ \A k \in 1..n : stream[DeviceStream][k] \in DOMAIN Seen
    <3>1. Listing(stream[DeviceStream], Part(DeviceStream)) /\ Part(DeviceStream) \subseteq Nat
      BY <2>1, <2>7, StreamFacts
    <3>2. Rises(stream[DeviceStream], n)
      BY <3>1, ListingRises
    <3>3. \A k \in 1..n : stream[DeviceStream][k] \in DOMAIN Seen
      BY <3>1 DEF Listing, Part, Usable
    <3>4. n \in Nat /\ DOMAIN token[DeviceStream] = 1..n /\ DOMAIN stream[DeviceStream] = 1..n
      BY <2>1, <2>7, StreamFacts
    <3> QED BY <3>2, <3>3, <3>4
  <2>9. m \in Nat /\ c \in 1..m /\ d \in 1..m /\ c <= d
    <3>1. DOMAIN order = 1..m
      <4> HIDE DEF order
      <4> QED BY <2>6 DEF Listing
    <3> HIDE DEF order, m
    <3>2. m \in Nat
      BY <2>6 DEF m
    <3>3. c \in 1..m /\ d \in 1..m /\ c <= d
      BY <3>1
    <3> QED BY <3>2, <3>3
  <2>10. Stretch(stream[DeviceStream], a, b) = Stretch(order, c, d)
    <3>1. x.first = c /\ x.last = d
      BY <2>4
    <3> HIDE DEF order, c, d
    <3> QED BY <2>2, <3>1 DEF Stretch
  <2>11. b - a = d - c /\ \A i \in 0..b - a : stream[DeviceStream][a + i] = order[c + i]
    <3> DEFINE s == stream[DeviceStream]
    <3>1. Rises(s, n) /\ Rises(order, m) /\ Stretch(s, a, b) = Stretch(order, c, d)
      BY <2>6, <2>8, <2>10
    <3>2. StretchOf(s, n, a, b) /\ StretchOf(order, m, c, d)
      BY <2>7, <2>8, <2>9, <3>1 DEF StretchOf
    <3> HIDE DEF order, s, n, m, a, b, c, d
    <3>3. b - a = d - c /\ \A i \in 0..b - a : s[a + i] = order[c + i]
      BY <3>1, <3>2, SameStretch
    <3> QED BY <3>3 DEF s
  <2>12. tokens(v) = q
    <3> DEFINE z == d - c + 1
               t == tokens(v)
    <3>1. z \in Nat /\ b - a + 1 = z /\ a \in Nat /\ b \in Nat /\ c \in Nat
      <4> HIDE DEF a, b, c, d, n, m
      <4> QED BY <2>7, <2>8, <2>9, <2>11
    <3>2. t = [k \in 1..z |-> TokenOf(messages, order[c + k - 1])]
      OBVIOUS
    <3>3. q \in Seq(Tokens) /\ Len(q) = z
      BY <2>1, <2>7, <3>1, WindowFacts
    <3>4. \A k \in 1..z : q[k] = token[DeviceStream][a + k - 1]
      <4>1. token[DeviceStream] \in Seq(Tokens) /\ q = SubSeq(token[DeviceStream], a, b)
        BY <2>1, <2>7, WindowFacts DEF Gram
      <4>2. a \in 1..Len(token[DeviceStream]) /\ b \in a..Len(token[DeviceStream])
        <5>1. 1..Len(token[DeviceStream]) = 1..n /\ Len(token[DeviceStream]) \in Nat
          BY <2>8, <4>1
        <5> HIDE DEF a, b, n
        <5> QED BY <2>7, <2>8, <5>1
      <4>3. \A k \in 1..b - a + 1 : SubSeq(token[DeviceStream], a, b)[k] = token[DeviceStream][a + k - 1]
        <5> DEFINE u == token[DeviceStream]
        <5>1. u \in Seq(Tokens) /\ a \in 1..Len(u) /\ b \in a..Len(u)
          BY <4>1, <4>2
        <5> HIDE DEF a, b, u
        <5>2. \A k \in 1..b - a + 1 : SubSeq(u, a, b)[k] = u[a + k - 1]
          BY <5>1, SubSeqFacts
        <5> QED BY <5>2 DEF u
      <4> QED BY <3>1, <4>1, <4>3
    <3>5. ASSUME NEW k \in 1..z PROVE t[k] = q[k]
      <4> DEFINE i == k - 1
      <4>1. /\ i \in 0..b - a /\ a + k - 1 = a + i /\ c + k - 1 = c + i
            /\ a + i \in 1..n
        <5> HIDE DEF a, b, c, d, n, m, z
        <5> QED BY <2>7, <2>8, <3>1
      <4> HIDE DEF i, t
      <4>2. stream[DeviceStream][a + i] = order[c + i]
        BY <2>11, <4>1
      <4>3. t[k] = TokenOf(messages, order[c + k - 1])
        BY <3>2
      <4>4. q[k] = token[DeviceStream][a + i]
        BY <3>4, <4>1
      <4>5. token[DeviceStream][a + i] = TokenOf(Normalize(Seen), stream[DeviceStream][a + i])
        BY <2>1, <2>7, <2>8, <4>1 DEF CaptureInv
      <4>6. TokenOf(Normalize(Seen), stream[DeviceStream][a + i]) = TokenOf(messages, stream[DeviceStream][a + i])
        BY <2>5, <2>8, <4>1
      <4> QED BY <4>1, <4>2, <4>3, <4>4, <4>5, <4>6
    <3> HIDE DEF t, z
    <3>6. t \in Seq(Tokens) /\ Len(t) = z
      <4>1. DOMAIN t = 1..z /\ \A k \in 1..z : t[k] \in Tokens
        <5>1. \A k \in 1..z : q[k] \in Tokens
          BY <3>1, <3>3
        <5> QED BY <3>2, <3>5, <5>1
      <4>2. t \in [1..z -> Tokens]
        BY <3>2, <4>1
      <4> QED BY <3>1, <4>2
    <3>7. t = q
      BY <3>3, <3>5, <3>6, SeqEqual
    <3> QED BY <3>7 DEF t
  <2>13. x.tokens = tokens(v)
    BY <2>4
  <2> QED BY <2>3, <2>12, <2>13
<1> QED BY <1>1, AnalysisInvariant, PTL
-----------------------------------------------------------------------------
\* What is shown for an anomaly (description.py:1071) is no later than it, and as near
\* in time as rounding may hide; the group it is reported in spans its time; and
\* it is shown as itself unless another event like it is as near.
THEOREM AnomaliesCorrect == AnalysisSpec => []AnomaliesAreFound
<1>1. AnalysisInv => AnomaliesAreFound
  <2> SUFFICES ASSUME AnalysisInv, NEW A \in SUBSET Anomalous, NEW f \in Lookups(A), NEW c \in A
               PROVE  LET group == Reported(f, c)
                      IN /\ time[Min(group)] <= time[c] /\ time[c] <= time[Max(group)] + Tolerance
                         /\ f[c] # c => \E i \in Like(c) : i < c /\ Apart(i, c) <= Tolerance
    BY DEF AnomaliesAreFound
  <2> DEFINE group == Reported(f, c)
  <2>1. CaptureInv
    BY DEF AnalysisInv
  <2>2. /\ DOMAIN log = 1..Len(log) /\ Len(log) \in Nat
        /\ \A i \in DOMAIN log : time[i] \in Nat
        /\ \A i, j \in DOMAIN log : i < j => time[i] <= time[j]
    BY <2>1 DEF CaptureInv
  <2>3. c \in DOMAIN AnalysisEvents(log) /\ f \in [A -> DOMAIN log] /\ f[c] \in Samples(c)
    BY DEF Anomalous, Lookups
  <2>4. DOMAIN AnalysisEvents(log) \subseteq DOMAIN log
    <3> DEFINE D == {i \in DOMAIN log : log[i].type # "control" /\ log[i].form # "missing"}
    <3>1. AnalysisEvents(log) = [i \in D |-> log[i]]
      BY DEF AnalysisEvents, Select
    <3> QED BY <3>1
  <2>5. c \in Like(c)
    BY <2>3 DEF Like
  <2>6. /\ f[c] \in Like(c) /\ f[c] <= c /\ Apart(f[c], c) <= Tolerance
        /\ f[c] \in DOMAIN log /\ c \in DOMAIN log
    BY <2>3, <2>4, <2>5 DEF Samples
  <2>7. time[f[c]] <= time[c] /\ time[c] <= time[f[c]] + Tolerance
    <3> DEFINE x == f[c]
    <3>1. x \in DOMAIN log /\ c \in DOMAIN log /\ x \in Nat /\ c \in Nat /\ (x < c \/ x = c)
      BY <2>2, <2>6
    <3>2. time[x] \in Nat /\ time[c] \in Nat /\ Apart(x, c) <= Tolerance /\ Tolerance \in Nat
      BY <2>2, <2>6, <3>1, ProtocolAnalysisAssumption
    <3>3. time[x] <= time[c]
      BY <2>2, <3>1, <3>2
    <3> HIDE DEF x
    <3>4. time[c] <= time[x] + Tolerance
      BY <3>2, <3>3 DEF Apart
    <3> QED BY <3>3, <3>4 DEF x
  <2>8. f[c] \in group /\ group \in SUBSET (DOMAIN log)
    BY <2>3 DEF Reported
  <2> HIDE DEF group
  <2>9. IsFiniteSet(group) /\ group \in SUBSET Nat /\ group \in SUBSET Int
    <3>1. IsFiniteSet(1..Len(log))
      BY <2>2, FS_Interval
    <3> QED BY <2>2, <2>8, <3>1, FS_Subset
  <2>10. /\ Min(group) \in DOMAIN log /\ Min(group) <= f[c]
         /\ Max(group) \in DOMAIN log /\ f[c] <= Max(group)
    BY <2>8, <2>9, MinIs, MaxIs
  <2>11. time[Min(group)] <= time[f[c]] /\ time[f[c]] <= time[Max(group)]
    <3> DEFINE x == f[c]
               y == Min(group)
               z == Max(group)
    <3>1. x \in DOMAIN log /\ y \in DOMAIN log /\ z \in DOMAIN log /\ y <= x /\ x <= z
      BY <2>6, <2>10
    <3> HIDE DEF x, y, z
    <3>2. x \in Nat /\ y \in Nat /\ z \in Nat /\ (y < x \/ y = x) /\ (x < z \/ x = z)
      BY <2>2, <3>1
    <3>3. time[y] <= time[x] /\ time[x] <= time[z]
      BY <2>2, <3>1, <3>2
    <3> QED BY <3>3 DEF x, y, z
  <2>12. time[Min(group)] <= time[c] /\ time[c] <= time[Max(group)] + Tolerance
    <3> DEFINE x == time[f[c]]
               y == time[Min(group)]
               z == time[Max(group)]
               t == time[c]
    <3>1. x \in Nat /\ y \in Nat /\ z \in Nat /\ t \in Nat /\ Tolerance \in Nat
      BY <2>2, <2>6, <2>10, ProtocolAnalysisAssumption
    <3>2. y <= x /\ x <= z /\ x <= t /\ t <= x + Tolerance
      BY <2>7, <2>11
    <3> HIDE DEF x, y, z, t
    <3>3. y <= t /\ t <= z + Tolerance
      BY <3>1, <3>2
    <3> QED BY <3>3 DEF y, z, t
  <2>13. f[c] # c => f[c] < c
    BY <2>2, <2>6
  <2> QED BY <2>6, <2>12, <2>13 DEF group
<1> QED BY <1>1, AnalysisInvariant, PTL
=============================================================================
