------------------------ MODULE DeviceIdentityProofs ------------------------
(***************************************************************************)
(* Proofs about DeviceIdentity, for any number of devices, addresses and   *)
(* transfers: what validate says of addresses that were active at the same *)
(* time, and of addresses that showed two devices, is true; summaries,     *)
(* queries and pages are about the same packets; and an enumeration is     *)
(* found whole.                                                            *)
(***************************************************************************)
EXTENDS DeviceIdentity, OrderLemmas, SequenceTheorems

-----------------------------------------------------------------------------
\* A packet comes from a unit that was given its address before, and was not
\* given another until then...
Attributed(k) ==
  \E g \in given :
    /\ g.addr = trace[k].addr /\ g.unit = trace[k].unit /\ g.from < k
    /\ \A j \in g.from + 1..k : trace[j].unit = g.unit => trace[j].addr = g.addr

\* ... and a unit that has an address, from where its next packet will come, was not
\* given another since.
Settled(u) ==
  \E g \in given :
    /\ g.addr = place[u] /\ g.unit = u /\ g.from <= Len(trace)
    /\ \A j \in g.from + 1..Len(trace) : trace[j].unit = u => trace[j].addr = g.addr

\* The invariant on which the attribution of packets rests.
StaysInv ==
  /\ \A k \in DOMAIN trace : trace[k].addr # 0 => Attributed(k)
  /\ \A u \in Units : place[u] # Away => Settled(u)

\* One more element.
LEMMA OneMore ==
  ASSUME NEW T, NEW s \in Seq(T), NEW e \in T
  PROVE  s \o <<e>> = Append(s, e) /\ Append(s, e) \in Seq(T)
OBVIOUS

LEMMA TypeInit == WorldInit => WorldTypeOK
<1> SUFFICES ASSUME WorldInit PROVE WorldTypeOK
  OBVIOUS
<1> USE DeviceIdentityAssumption DEF WorldInit
<1>1. given \subseteq [addr : Addresses, unit : Units, from : Nat, new : BOOLEAN]
  <2>1. \A u \in Units : place[u] # Away => place[u] \in Addresses
    OBVIOUS
  <2>2. ASSUME NEW g \in given
        PROVE  g \in [addr : Addresses, unit : Units, from : Nat, new : BOOLEAN]
    <3>1. PICK u \in {v \in Units : place[v] # Away} : g = [addr |-> place[u], unit |-> u, from |-> 0, new |-> FALSE]
      BY <2>2
    <3> QED BY <2>1, <3>1
  <2> QED BY <2>2
<1>2. step \in [Units -> 1..Configured]
  BY DEF Configured, Script
<1> QED BY <1>1, <1>2 DEF WorldTypeOK

LEMMA CaptureType ==
  ASSUME WorldTypeOK, NEW u \in Units, place[u] # Away, NEW kind \in Kinds, Capture(u, kind)
  PROVE  /\ trace' \in Seq(Transfers)
         /\ Len(trace') = Len(trace) + 1
         /\ \A i \in DOMAIN trace : trace'[i] = trace[i]
         /\ trace'[Len(trace')].unit = u /\ trace'[Len(trace')].addr = place[u]
         /\ trace'[Len(trace')].kind = kind
<1>1. PICK answered \in BOOLEAN : trace' = Append(trace, Transfer(place[u], u, kind, answered))
  BY DEF Capture
<1>2. Transfer(place[u], u, kind, answered) \in Transfers
  BY DEF Transfer, Transfers, WorldTypeOK
<1>3. trace \in Seq(Transfers)
  BY DEF WorldTypeOK
<1>4. /\ Transfer(place[u], u, kind, answered).unit = u
      /\ Transfer(place[u], u, kind, answered).addr = place[u]
      /\ Transfer(place[u], u, kind, answered).kind = kind
  BY DEF Transfer
<1> QED BY <1>1, <1>2, <1>3, <1>4

LEMMA PlugType ==
  ASSUME WorldTypeOK, NEW u \in Units, NEW a \in Addresses, Plug(u, a)
  PROVE  /\ trace' \in Seq(Transfers)
         /\ Len(trace') > Len(trace)
         /\ \A i \in DOMAIN trace : trace'[i] = trace[i]
         /\ \A i \in Len(trace) + 1..Len(trace') :
              trace'[i].unit = u /\ trace'[i].addr = 0 /\ trace'[i].kind # "data"
<1>1. PICK probes \in {<<>>, <<Transfer(0, u, "device", TRUE)>>} :
        trace' = trace \o probes \o <<Transfer(0, u, "address", TRUE)>>
  BY DEF Plug
<1>2. trace \in Seq(Transfers)
  BY DEF WorldTypeOK
<1>3. \A kind \in Kinds :
        /\ Transfer(0, u, kind, TRUE) \in Transfers
        /\ Transfer(0, u, kind, TRUE).unit = u /\ Transfer(0, u, kind, TRUE).addr = 0
        /\ Transfer(0, u, kind, TRUE).kind = kind
  BY DEF Transfer, Transfers
<1>4. {"device", "address"} \subseteq Kinds
  BY DEF Kinds
<1> HIDE DEF Kinds
<1> DEFINE D == Transfer(0, u, "device", TRUE)
           E == Transfer(0, u, "address", TRUE)
<1>5. /\ D \in Transfers /\ D.unit = u /\ D.addr = 0 /\ D.kind # "data"
      /\ E \in Transfers /\ E.unit = u /\ E.addr = 0 /\ E.kind # "data"
  BY <1>3, <1>4
<1>6. CASE probes = <<>>
  <2> HIDE DEF E
  <2>1. trace' = trace \o <<>> \o <<E>>
    BY <1>1, <1>6 DEF E
  <2>2. trace' = Append(trace, E)
    BY <1>2, <1>5, <2>1
  <2> QED BY <1>2, <1>5, <2>2
<1>7. CASE probes = <<D>>
  <2> HIDE DEF D, E
  <2>1. trace' = trace \o <<D>> \o <<E>>
    BY <1>1, <1>7 DEF D, E
  <2>2. trace' = Append(Append(trace, D), E)
    BY <1>2, <1>5, <2>1, OneMore
  <2> QED BY <1>2, <1>5, <2>2
<1> QED BY <1>1, <1>6, <1>7

LEMMA TypeStep == WorldTypeOK /\ [WorldNext]_worldVars => WorldTypeOK'
<1> SUFFICES ASSUME WorldTypeOK, [WorldNext]_worldVars PROVE WorldTypeOK'
  OBVIOUS
<1> USE DeviceIdentityAssumption
<1>1. ASSUME NEW u \in Units, NEW a \in Addresses, Plug(u, a) PROVE WorldTypeOK'
  <2>1. trace' \in Seq(Transfers)
    BY <1>1, PlugType
  <2>2. [addr |-> a, unit |-> u, from |-> Len(trace'), new |-> TRUE]
          \in [addr : Addresses, unit : Units, from : Nat, new : BOOLEAN]
    BY <2>1
  <2>3. given' \subseteq [addr : Addresses, unit : Units, from : Nat, new : BOOLEAN]
    BY <1>1, <2>2 DEF Plug, WorldTypeOK
  <2>4. step' \in [Units -> 1..Configured]
    BY <1>1 DEF Plug, WorldTypeOK, Configured, Script
  <2>5. place' \in [Units -> Addresses \cup {Away}]
    BY <1>1 DEF Plug, Places, WorldTypeOK
  <2>6. model' \in [Units -> Models]
    BY <1>1 DEF Plug, WorldTypeOK
  <2> QED BY <2>1, <2>3, <2>4, <2>5, <2>6 DEF WorldTypeOK, Transfers, Kinds
<1>2. ASSUME NEW u \in Units, Enumerate(u) PROVE WorldTypeOK'
  <2>1. step[u] \in 1..4 /\ Script[step[u]] \in Kinds
    BY <1>2 DEF Enumerate, WorldTypeOK, Configured, Script, Kinds
  <2>2. trace' \in Seq(Transfers)
    BY <1>2, <2>1, CaptureType DEF Enumerate
  <2>3. step' \in [Units -> 1..Configured]
    BY <1>2, <2>1 DEF Enumerate, WorldTypeOK, Configured, Script
  <2> QED BY <1>2, <2>2, <2>3 DEF Enumerate, WorldTypeOK, Transfers, Kinds
<1>3. ASSUME NEW u \in Units, Use(u) PROVE WorldTypeOK'
  <2>1. "data" \in Kinds
    BY DEF Kinds
  <2>2. trace' \in Seq(Transfers)
    BY <1>3, <2>1, CaptureType DEF Use
  <2> QED BY <1>3, <2>2 DEF Use, WorldTypeOK, Transfers, Kinds
<1>4. CASE UNCHANGED worldVars
  BY <1>4 DEF worldVars, WorldTypeOK, Transfers, Kinds, Configured, Script
<1> QED BY <1>1, <1>2, <1>3, <1>4 DEF WorldNext

LEMMA StaysInit == WorldInit => StaysInv
<1> SUFFICES ASSUME WorldInit PROVE StaysInv
  OBVIOUS
<1>1. DOMAIN trace = {} /\ Len(trace) = 0
  BY DEF WorldInit
<1>2. ASSUME NEW u \in Units, place[u] # Away PROVE Settled(u)
  <2> DEFINE g == [addr |-> place[u], unit |-> u, from |-> 0, new |-> FALSE]
  <2>1. g \in given
    BY <1>2 DEF WorldInit
  <2>2. g.addr = place[u] /\ g.unit = u /\ g.from = 0
    OBVIOUS
  <2> HIDE DEF g
  <2> QED BY <1>1, <2>1, <2>2 DEF Settled
<1> QED BY <1>1, <1>2 DEF StaysInv

\* What was attributed stays so when the capture grows.
LEMMA AttributedStays ==
  ASSUME WorldTypeOK, given \subseteq given', trace' \in Seq(Transfers), Len(trace') >= Len(trace),
         \A i \in DOMAIN trace : trace'[i] = trace[i],
         NEW k \in DOMAIN trace, Attributed(k)
  PROVE  Attributed(k)'
<1>1. PICK g \in given :
        /\ g.addr = trace[k].addr /\ g.unit = trace[k].unit /\ g.from < k
        /\ \A j \in g.from + 1..k : trace[j].unit = g.unit => trace[j].addr = g.addr
  BY DEF Attributed
<1>2. g.from \in Nat /\ k \in 1..Len(trace)
  BY DEF WorldTypeOK
<1>3. \A j \in g.from + 1..k : j \in DOMAIN trace /\ trace'[j] = trace[j]
  BY <1>2 DEF WorldTypeOK
<1>4. trace'[k] = trace[k]
  OBVIOUS
<1> QED BY <1>1, <1>3, <1>4 DEF Attributed

\* A transfer of a unit that has its address.
LEMMA CaptureKeepsStays ==
  ASSUME WorldTypeOK, WorldTypeOK', StaysInv, NEW u \in Units, place[u] # Away,
         NEW kind \in Kinds, Capture(u, kind), place' = place, given' = given
  PROVE  StaysInv'
<1>1. /\ trace' \in Seq(Transfers) /\ Len(trace') = Len(trace) + 1
      /\ \A i \in DOMAIN trace : trace'[i] = trace[i]
      /\ trace'[Len(trace')].unit = u /\ trace'[Len(trace')].addr = place[u]
  BY CaptureType
<1>2. trace \in Seq(Transfers) /\ given \subseteq [addr : Addresses, unit : Units, from : Nat, new : BOOLEAN]
  BY DEF WorldTypeOK
<1>3. ASSUME NEW v \in Units, place[v] # Away
      PROVE  Settled(v)'
  <2>1. PICK g \in given :
          /\ g.addr = place[v] /\ g.unit = v /\ g.from <= Len(trace)
          /\ \A j \in g.from + 1..Len(trace) : trace[j].unit = v => trace[j].addr = g.addr
    BY <1>3 DEF StaysInv, Settled
  <2>2. ASSUME NEW j \in g.from + 1..Len(trace'), trace'[j].unit = v
        PROVE  trace'[j].addr = g.addr
    <3>1. CASE j = Len(trace')
      BY <1>1, <2>1, <2>2, <3>1
    <3>2. CASE j # Len(trace')
      <4>1. j \in g.from + 1..Len(trace) /\ j \in DOMAIN trace
        BY <1>1, <1>2, <3>2
      <4> QED BY <1>1, <2>1, <2>2, <4>1
    <3> QED BY <3>1, <3>2
  <2> QED BY <1>1, <1>2, <2>1, <2>2 DEF Settled
<1>4. ASSUME NEW k \in DOMAIN trace', trace'[k].addr # 0
      PROVE  Attributed(k)'
  <2>1. CASE k \in DOMAIN trace
    <3>1. Attributed(k)
      BY <1>1, <1>4, <2>1 DEF StaysInv
    <3> QED BY <1>1, <1>2, <2>1, <3>1, AttributedStays
  <2>2. CASE k \notin DOMAIN trace
    <3>1. k = Len(trace')
      BY <1>1, <1>2, <2>2
    <3>2. Settled(u)'
      BY <1>3
    <3>3. PICK g \in given' :
            /\ g.addr = place'[u] /\ g.unit = u /\ g.from <= Len(trace)
            /\ \A j \in g.from + 1..Len(trace') : trace'[j].unit = u => trace'[j].addr = g.addr
      <4>1. PICK g \in given :
              /\ g.addr = place[u] /\ g.unit = u /\ g.from <= Len(trace)
              /\ \A j \in g.from + 1..Len(trace) : trace[j].unit = u => trace[j].addr = g.addr
        BY DEF StaysInv, Settled
      <4>2. ASSUME NEW j \in g.from + 1..Len(trace'), trace'[j].unit = u
            PROVE  trace'[j].addr = g.addr
        <5>1. CASE j = Len(trace')
          BY <1>1, <4>1, <5>1
        <5>2. CASE j # Len(trace')
          <6>1. j \in g.from + 1..Len(trace) /\ j \in DOMAIN trace
            BY <1>1, <1>2, <5>2
          <6> QED BY <1>1, <4>1, <4>2, <6>1
        <5> QED BY <5>1, <5>2
      <4> QED BY <4>1, <4>2
    <3>4. g.from < k
      BY <1>1, <1>2, <3>1, <3>3
    <3> QED BY <1>1, <3>1, <3>3, <3>4 DEF Attributed
  <2> QED BY <2>1, <2>2
<1> QED BY <1>3, <1>4 DEF StaysInv

LEMMA PlugKeepsStays ==
  ASSUME WorldTypeOK, WorldTypeOK', StaysInv, NEW u \in Units, NEW a \in Addresses, Plug(u, a)
  PROVE  StaysInv'
<1>1. /\ trace' \in Seq(Transfers) /\ Len(trace') > Len(trace)
      /\ \A i \in DOMAIN trace : trace'[i] = trace[i]
      /\ \A i \in Len(trace) + 1..Len(trace') : trace'[i].unit = u /\ trace'[i].addr = 0
  BY PlugType
<1>2. trace \in Seq(Transfers) /\ given \subseteq [addr : Addresses, unit : Units, from : Nat, new : BOOLEAN]
  BY DEF WorldTypeOK
<1>3. given \subseteq given'
  BY DEF Plug
<1>4. ASSUME NEW k \in DOMAIN trace', trace'[k].addr # 0
      PROVE  Attributed(k)'
  <2>1. k \in DOMAIN trace
    BY <1>1, <1>2, <1>4
  <2>2. Attributed(k)
    BY <1>1, <1>4, <2>1 DEF StaysInv
  <2> QED BY <1>1, <1>2, <1>3, <2>1, <2>2, AttributedStays
<1>5. ASSUME NEW v \in Units, place'[v] # Away
      PROVE  Settled(v)'
  <2>1. CASE v = u
    <3> DEFINE g == [addr |-> a, unit |-> u, from |-> Len(trace'), new |-> TRUE]
    <3>1. g \in given' /\ place'[u] = a
      BY DEF Plug, Places, WorldTypeOK
    <3>2. g.addr = a /\ g.unit = u /\ g.from = Len(trace')
      OBVIOUS
    <3>3. g.from + 1..Len(trace') = {}
      BY <1>1, <3>2
    <3> HIDE DEF g
    <3> QED BY <1>1, <2>1, <3>1, <3>2, <3>3 DEF Settled
  <2>2. CASE v # u
    <3>1. place[v] # Away /\ place'[v] = place[v]
      BY <1>5, <2>2 DEF Plug, Places, WorldTypeOK
    <3>2. PICK g \in given :
            /\ g.addr = place[v] /\ g.unit = v /\ g.from <= Len(trace)
            /\ \A j \in g.from + 1..Len(trace) : trace[j].unit = v => trace[j].addr = g.addr
      BY <3>1 DEF StaysInv, Settled
    <3>3. ASSUME NEW j \in g.from + 1..Len(trace'), trace'[j].unit = v
          PROVE  trace'[j].addr = g.addr
      <4>1. j \in g.from + 1..Len(trace) /\ j \in DOMAIN trace
        BY <1>1, <1>2, <2>2, <3>3
      <4> QED BY <1>1, <3>2, <3>3, <4>1
    <3> QED BY <1>1, <1>2, <1>3, <3>1, <3>2, <3>3 DEF Settled
  <2> QED BY <2>1, <2>2
<1> QED BY <1>4, <1>5 DEF StaysInv

LEMMA StaysStep == WorldTypeOK /\ StaysInv /\ [WorldNext]_worldVars => StaysInv'
<1> SUFFICES ASSUME WorldTypeOK, StaysInv, [WorldNext]_worldVars PROVE StaysInv'
  OBVIOUS
<1>0. WorldTypeOK'
  BY TypeStep
<1>1. ASSUME NEW u \in Units, NEW a \in Addresses, Plug(u, a) PROVE StaysInv'
  BY <1>0, <1>1, PlugKeepsStays
<1>2. ASSUME NEW u \in Units, Enumerate(u) PROVE StaysInv'
  <2>1. Script[step[u]] \in Kinds
    BY <1>2 DEF Enumerate, WorldTypeOK, Configured, Script, Kinds
  <2> QED BY <1>0, <1>2, <2>1, CaptureKeepsStays DEF Enumerate
<1>3. ASSUME NEW u \in Units, Use(u) PROVE StaysInv'
  <2>1. "data" \in Kinds
    BY DEF Kinds
  <2> QED BY <1>0, <1>3, <2>1, CaptureKeepsStays DEF Use
<1>4. CASE UNCHANGED worldVars
  BY <1>4 DEF worldVars, StaysInv, Attributed, Settled
<1> QED BY <1>1, <1>2, <1>3, <1>4 DEF WorldNext

-----------------------------------------------------------------------------
LEMMA Entries ==
  ASSUME WorldTypeOK, NEW i \in DOMAIN trace
  PROVE  trace[i].unit \in Units /\ trace[i].addr \in Nat
<1>1. trace[i] \in Transfers
  BY DEF WorldTypeOK
<1>2. Addresses \cup {0} \subseteq Nat
  BY DeviceIdentityAssumption
<1> QED BY <1>1, <1>2 DEF Transfers

\* The indexes of an address, and the first and the last of them.
LEMMA RangeOf ==
  ASSUME WorldTypeOK, NEW a \in Seen
  PROVE  /\ At(a) \subseteq 1..Len(trace)
         /\ FirstIndex(a) \in At(a) /\ \A j \in At(a) : FirstIndex(a) <= j
         /\ LastIndex(a) \in At(a) /\ \A j \in At(a) : j <= LastIndex(a)
<1>1. At(a) \subseteq 1..Len(trace) /\ At(a) # {} /\ Len(trace) \in Nat
  BY DEF WorldTypeOK, At, Seen
<1>2. \E i \in At(a) : \A j \in At(a) : i <= j
  BY <1>1, HasLeast
<1>3. \E i \in At(a) : \A j \in At(a) : j <= i
  <2>1. At(a) \in SUBSET (0..Len(trace))
    BY <1>1
  <2> QED BY <1>1, <2>1, HasGreatest
<1>4. FirstIndex(a) \in At(a) /\ \A j \in At(a) : FirstIndex(a) <= j
  BY <1>2 DEF FirstIndex
<1>5. LastIndex(a) \in At(a) /\ \A j \in At(a) : j <= LastIndex(a)
  BY <1>3 DEF LastIndex
<1> QED BY <1>1, <1>4, <1>5

\* An address that shows a descriptor has the id of a unit that was seen at it.
LEMMA IdIsShown ==
  ASSUME WorldTypeOK, NEW a, Answers(a, "device") # {}
  PROVE  \E i \in Answers(a, "device") : IdOf(a) = IdentityId(model[trace[i].unit])
<1>1. Answers(a, "device") \subseteq 1..Len(trace) /\ Len(trace) \in Nat
  BY DEF WorldTypeOK, Answers, At
<1>2. \E i \in Answers(a, "device") : \A j \in Answers(a, "device") : j <= i
  <2>1. Answers(a, "device") \in SUBSET (0..Len(trace))
    BY <1>1
  <2> QED BY <1>1, <2>1, HasGreatest
<1>3. PICK i \in Answers(a, "device") : Descriptor(a) = model[trace[i].unit]
  BY <1>2 DEF Descriptor
<1>4. trace[i].unit \in Units
  <2>1. i \in DOMAIN trace
    BY <1>1, <1>3 DEF WorldTypeOK
  <2> QED BY <2>1, Entries
<1>5. model[trace[i].unit] \in Models
  BY <1>4 DEF WorldTypeOK
<1>6. Descriptor(a) # None
  BY <1>3, <1>5, DeviceIdentityAssumption
<1> QED BY <1>3, <1>6 DEF IdOf

\* Two addresses with the same id both show a descriptor.
LEMMA SharedIdIsShown ==
  ASSUME WorldTypeOK, NEW a, NEW b, a # b, IdOf(a) = IdOf(b)
  PROVE  Answers(a, "device") # {} /\ Answers(b, "device") # {}
<1>1. ASSUME NEW c, Answers(c, "device") = {}
      PROVE  IdOf(c) = <<"dev", c>>
  BY <1>1 DEF IdOf, Descriptor, AddressId
<1>2. ASSUME NEW c, Answers(c, "device") # {}
      PROVE  \E m : IdOf(c) = <<"id", m>>
  BY <1>2, IdIsShown DEF IdentityId
<1>3. \A m : <<"dev", a>> # <<"id", m>> /\ <<"dev", b>> # <<"id", m>>
  OBVIOUS
<1>4. <<"dev", a>> # <<"dev", b>>
  OBVIOUS
<1> QED BY <1>1, <1>2, <1>3, <1>4

\* All that was seen at an address assigned once is of one unit, and a unit that
\* left it for another address does not come back to it.
LEMMA OneStay ==
  ASSUME WorldTypeOK, StaysInv, NEW a, a # 0, ~Reassigned(a), NEW i \in At(a), NEW k \in At(a)
  PROVE  /\ trace[i].unit = trace[k].unit
         /\ \A j \in DOMAIN trace : i < j /\ j < k /\ trace[j].unit = trace[k].unit => trace[j].addr = a
<1>1. /\ i \in DOMAIN trace /\ trace[i].addr = a /\ k \in DOMAIN trace /\ trace[k].addr = a
      /\ DOMAIN trace = 1..Len(trace) /\ Len(trace) \in Nat
  BY DEF At, WorldTypeOK
<1>2. PICK g \in given :
        /\ g.addr = a /\ g.unit = trace[i].unit /\ g.from < i
  BY <1>1 DEF StaysInv, Attributed
<1>3. PICK h \in given :
        /\ h.addr = a /\ h.unit = trace[k].unit /\ h.from < k
        /\ \A j \in h.from + 1..k : trace[j].unit = h.unit => trace[j].addr = h.addr
  BY <1>1 DEF StaysInv, Attributed
<1>4. g = h
  BY <1>2, <1>3 DEF Reassigned
<1>5. g.from \in Nat
  BY DEF WorldTypeOK
<1>6. ASSUME NEW j \in DOMAIN trace, i < j, j < k, trace[j].unit = trace[k].unit
      PROVE  trace[j].addr = a
  <2>1. j \in h.from + 1..k
    BY <1>1, <1>2, <1>4, <1>5, <1>6
  <2> QED BY <1>3, <1>6, <2>1
<1> QED BY <1>2, <1>3, <1>4, <1>6

LEMMA OverMergeStep ==
  ASSUME WorldTypeOK, StaysInv PROVE OverMergeIsTwoUnits
<1> SUFFICES ASSUME NEW p \in OverMerges, ~Reassigned(p[1]), ~Reassigned(p[2])
             PROVE  \E i \in At(p[1]), j \in At(p[2]) :
                      /\ trace[i].unit # trace[j].unit
                      /\ IdOf(p[1]) = IdentityId(model[trace[i].unit])
                      /\ IdOf(p[2]) = IdentityId(model[trace[j].unit])
  BY DEF OverMergeIsTwoUnits
<1> DEFINE a == p[1]
           b == p[2]
<1>1. /\ a \in Seen /\ b \in Seen /\ a # 0 /\ b # 0 /\ a < b
      /\ IdOf(a) = IdOf(b) /\ Overlap(a, b)
  BY DEF OverMerges
<1>2. a # b
  <2>1. Seen \subseteq Nat
    BY Entries DEF Seen
  <2>2. a \in Nat /\ b \in Nat
    BY <1>1, <2>1
  <2> HIDE DEF a, b
  <2> QED BY <1>1, <2>2
<1>3. ~Reassigned(a) /\ ~Reassigned(b)
  OBVIOUS
<1>4. \E i \in At(a) : IdOf(a) = IdentityId(model[trace[i].unit])
  BY <1>1, <1>2, SharedIdIsShown, IdIsShown DEF Answers
<1>5. \E j \in At(b) : IdOf(b) = IdentityId(model[trace[j].unit])
  BY <1>1, <1>2, SharedIdIsShown, IdIsShown DEF Answers
<1> HIDE DEF a, b
<1>6. PICK i \in At(a) : IdOf(a) = IdentityId(model[trace[i].unit])
  BY <1>4
<1>7. PICK j \in At(b) : IdOf(b) = IdentityId(model[trace[j].unit])
  BY <1>5
<1>8. trace[i].unit # trace[j].unit
  <2> SUFFICES ASSUME trace[i].unit = trace[j].unit PROVE FALSE
    OBVIOUS
  <2>1. /\ At(a) \subseteq 1..Len(trace) /\ At(b) \subseteq 1..Len(trace) /\ Len(trace) \in Nat
        /\ FirstIndex(a) \in At(a) /\ LastIndex(a) \in At(a)
        /\ FirstIndex(b) \in At(b) /\ LastIndex(b) \in At(b)
    BY <1>1, RangeOf DEF WorldTypeOK
  <2>2. \A k \in At(a) \cup At(b) : trace[k].unit = trace[i].unit
    BY <1>1, <1>3, <1>6, <1>7, OneStay
  <2>3. \A k \in At(a), l \in At(b) : trace[k].addr = a /\ trace[l].addr = b /\ k # l
    BY <1>2 DEF At
  <2>4. FirstIndex(a) <= LastIndex(b) /\ FirstIndex(b) <= LastIndex(a)
    BY <1>1 DEF Overlap
  <2>5. DOMAIN trace = 1..Len(trace)
    BY DEF WorldTypeOK
  <2>6. CASE FirstIndex(a) < FirstIndex(b)
    <3>1. FirstIndex(b) < LastIndex(a)
      BY <2>1, <2>3, <2>4
    <3>2. trace[FirstIndex(b)].addr = a
      BY <1>1, <1>3, <2>1, <2>2, <2>5, <2>6, <3>1, OneStay
    <3> QED BY <1>2, <2>1, <2>3, <3>2
  <2>7. CASE FirstIndex(b) < FirstIndex(a)
    <3>1. FirstIndex(a) < LastIndex(b)
      BY <2>1, <2>3, <2>4
    <3>2. trace[FirstIndex(a)].addr = b
      BY <1>1, <1>3, <2>1, <2>2, <2>5, <2>7, <3>1, OneStay
    <3> QED BY <1>2, <2>1, <2>3, <3>2
  <2> QED BY <2>1, <2>3, <2>6, <2>7
<1> QED BY <1>6, <1>7, <1>8 DEF a, b

LEMMA MisattributionStep ==
  ASSUME WorldTypeOK PROVE MisattributionIsReported
<1> SUFFICES ASSUME IdentityConflicts = {}, NEW i \in DOMAIN trace, NEW j \in DOMAIN trace,
                    trace[i].addr = trace[j].addr, trace[i].kind = "device", trace[i].answered
             PROVE  IdOf(trace[j].addr) = IdentityId(model[trace[i].unit])
  BY DEF MisattributionIsReported
<1> DEFINE a == trace[j].addr
<1>1. i \in Answers(a, "device")
  BY DEF Answers, At
<1>2. PICK k \in Answers(a, "device") : IdOf(a) = IdentityId(model[trace[k].unit])
  BY <1>1, IdIsShown
<1>3. {model[trace[i].unit], model[trace[k].unit]} \subseteq Identities(a)
  BY <1>1, <1>2 DEF Identities
<1>4. IsFiniteSet(Identities(a))
  <2>1. Answers(a, "device") \subseteq 1..Len(trace) /\ Len(trace) \in Nat
    BY DEF WorldTypeOK, Answers, At
  <2> DEFINE S == Answers(a, "device")
             f == [l \in S |-> model[trace[l].unit]]
  <2>2. IsFiniteSet(1..Len(trace))
    BY <2>1, FS_Interval
  <2>3. IsFiniteSet(S)
    BY <2>1, <2>2, FS_Subset
  <2>4. Identities(a) = {f[l] : l \in S}
    BY DEF Identities
  <2>5. f \in Surjection(S, Identities(a))
    BY <2>4 DEF Surjection
  <2> HIDE DEF S, f
  <2> QED BY <2>3, <2>5, FS_Surjection
<1>5. a \in Seen
  BY DEF Seen
<1>6. ~(Cardinality(Identities(a)) > 1)
  BY <1>5 DEF IdentityConflicts
<1>7. model[trace[i].unit] = model[trace[k].unit]
  <2> SUFFICES ASSUME model[trace[i].unit] # model[trace[k].unit] PROVE FALSE
    OBVIOUS
  <2> DEFINE m == model[trace[i].unit]
             n == model[trace[k].unit]
  <2>0. m # n
    OBVIOUS
  <2>1. IsFiniteSet({m}) /\ Cardinality({m}) = 1
    BY FS_Singleton
  <2> HIDE DEF m
  <2>2. IsFiniteSet({m} \cup {n}) /\ Cardinality({m} \cup {n}) = 2
    <3>1. n \notin {m}
      BY <2>0 DEF m
    <3> HIDE DEF n
    <3>2. Cardinality({m} \cup {n}) = IF n \in {m} THEN Cardinality({m}) ELSE Cardinality({m}) + 1
      BY <2>1, FS_AddElement
    <3>3. IsFiniteSet({m} \cup {n})
      BY <2>1, FS_AddElement
    <3> QED BY <2>1, <3>1, <3>2, <3>3
  <2>3. Cardinality({m} \cup {n}) <= Cardinality(Identities(a))
    <3>1. {m} \cup {n} \subseteq Identities(a)
      BY <1>3 DEF m
    <3> QED BY <1>4, <3>1, FS_Subset
  <2>4. Cardinality(Identities(a)) \in Nat
    BY <1>4, FS_CardinalityType
  <2> QED BY <1>6, <2>2, <2>3, <2>4
<1> QED BY <1>2, <1>7

LEMMA TwoUnitsStep ==
  ASSUME WorldTypeOK PROVE TwoUnitsAreReported
<1> SUFFICES ASSUME NEW i \in DOMAIN trace, NEW j \in DOMAIN trace, NEW k \in DOMAIN trace,
                    i < j, j < k, trace[i].addr = trace[k].addr, trace[j].addr # trace[i].addr,
                    0 \notin {trace[i].addr, trace[j].addr},
                    IdOf(trace[i].addr) = IdOf(trace[j].addr)
             PROVE  \E p \in OverMerges : {p[1], p[2]} = {trace[i].addr, trace[j].addr}
  BY DEF TwoUnitsAreReported
<1>1. /\ trace[i].addr \in Seen \ {0} /\ trace[j].addr \in Seen \ {0}
      /\ trace[i].addr \in Nat /\ trace[j].addr \in Nat
  BY Entries DEF Seen
<1>2. \A a \in Seen : \A l \in At(a) : FirstIndex(a) <= l /\ l <= LastIndex(a)
  BY RangeOf
<1>3. /\ i \in At(trace[i].addr) /\ k \in At(trace[i].addr) /\ j \in At(trace[j].addr)
      /\ DOMAIN trace \subseteq Nat
  BY DEF At, WorldTypeOK
<1>4. \A a \in Seen : FirstIndex(a) \in Nat /\ LastIndex(a) \in Nat
  BY RangeOf DEF WorldTypeOK
<1>5. Overlap(trace[i].addr, trace[j].addr) /\ Overlap(trace[j].addr, trace[i].addr)
  BY <1>1, <1>2, <1>3, <1>4 DEF Overlap
<1>6. CASE trace[i].addr < trace[j].addr
  <2>1. <<trace[i].addr, trace[j].addr>> \in OverMerges
    BY <1>1, <1>5, <1>6 DEF OverMerges
  <2> QED BY <2>1
<1>7. CASE trace[j].addr < trace[i].addr
  <2>1. <<trace[j].addr, trace[i].addr>> \in OverMerges
    BY <1>1, <1>5, <1>7 DEF OverMerges
  <2> QED BY <2>1
<1> QED BY <1>1, <1>6, <1>7

-----------------------------------------------------------------------------
\* A unit was attached in one place when the capture began.
BeforeInv == \A g, h \in given : ~g.new /\ ~h.new /\ g.unit = h.unit => g = h

LEMMA BeforeInit == WorldInit => BeforeInv
<1> SUFFICES ASSUME WorldInit, NEW g \in given, NEW h \in given, g.unit = h.unit
             PROVE  g = h
  BY DEF BeforeInv
<1>1. PICK u \in Units : g = [addr |-> place[u], unit |-> u, from |-> 0, new |-> FALSE]
  BY DEF WorldInit
<1>2. PICK v \in Units : h = [addr |-> place[v], unit |-> v, from |-> 0, new |-> FALSE]
  BY DEF WorldInit
<1>3. g.unit = u /\ h.unit = v
  BY <1>1, <1>2
<1> QED BY <1>1, <1>2, <1>3

LEMMA BeforeStep == BeforeInv /\ [WorldNext]_worldVars => BeforeInv'
<1> SUFFICES ASSUME BeforeInv, [WorldNext]_worldVars PROVE BeforeInv'
  OBVIOUS
<1>1. ASSUME NEW u \in Units, NEW a \in Addresses, Plug(u, a) PROVE BeforeInv'
  <2>1. \A g \in given' : ~g.new => g \in given
    BY <1>1 DEF Plug
  <2> QED BY <2>1 DEF BeforeInv
<1>2. CASE given' = given
  BY <1>2 DEF BeforeInv
<1> QED BY <1>1, <1>2 DEF WorldNext, Enumerate, Use, worldVars

\* A unit that was not plugged in since has its place in the first snapshot.
LEMMA PlacedBefore ==
  ASSUME BeforeInv, NEW g \in given, ~g.new, g.unit \in Units
  PROVE  PlaceBefore[g.unit] = g.addr
<1> DEFINE u == g.unit
           c == CHOOSE h \in given : h.unit = u /\ ~h.new
<1>1. c \in given /\ c.unit = u /\ ~c.new
  OBVIOUS
<1>2. c = g
  BY <1>1 DEF BeforeInv
<1>3. PlaceBefore[u] = c.addr
  BY DEF PlaceBefore
<1> QED BY <1>2, <1>3

\* And a place in the first snapshot was given before.
LEMMA BeforeWasGiven ==
  ASSUME NEW u \in Units, PlaceBefore[u] # Away
  PROVE  \E h \in given : h.unit = u /\ ~h.new /\ h.addr = PlaceBefore[u]
BY DEF PlaceBefore

LEMMA DetectionStep ==
  ASSUME WorldTypeOK, StaysInv, BeforeInv PROVE DetectionFindsArrival
<1> SUFFICES ASSUME NEW g \in given, g.new, place[g.unit] = g.addr,
                    \A h \in given : h = g \/ (~h.new /\ h.addr # g.addr)
             PROVE  \E d \in Detected :
                      /\ d.addr = g.addr
                      /\ Answers(g.addr, "device") # {} => IdOf(g.addr) = d.identity
  BY DEF DetectionFindsArrival
<1> DEFINE u == g.unit
           d == [addr |-> g.addr, id |-> AddressId(g.addr), identity |-> IdentityId(model[u])]
           new == Diff(Live(PlaceBefore), Live(place))
<1>1. u \in Units /\ g.addr \in Addresses /\ g.addr # 0 /\ g.addr # Away
  BY DeviceIdentityAssumption DEF WorldTypeOK
<1>2. d \in Live(place)
  BY <1>1 DEF Live
<1>3. \A b \in Live(PlaceBefore) : b.id # d.id
  <2> SUFFICES ASSUME NEW v \in Units, PlaceBefore[v] # Away, AddressId(PlaceBefore[v]) = AddressId(g.addr)
               PROVE  FALSE
    BY DEF Live
  <2>1. PlaceBefore[v] = g.addr
    BY DEF AddressId
  <2>2. PICK h \in given : h.unit = v /\ ~h.new /\ h.addr = PlaceBefore[v]
    BY BeforeWasGiven
  <2> QED BY <2>1, <2>2
<1>4. ASSUME NEW e \in Live(place), \A b \in Live(PlaceBefore) : b.id # e.id
      PROVE  e = d
  <2>1. PICK v \in Units : /\ place[v] # Away
                           /\ e = [addr |-> place[v], id |-> AddressId(place[v]), identity |-> IdentityId(model[v])]
    BY DEF Live
  <2>2. CASE v = u
    BY <2>1, <2>2
  <2>3. CASE v # u
    <3>1. PICK h \in given : h.addr = place[v] /\ h.unit = v
      BY <2>1 DEF StaysInv, Settled
    <3>2. ~h.new
      BY <2>3, <3>1
    <3>3. PlaceBefore[v] = place[v]
      BY <3>1, <3>2, PlacedBefore
    <3>4. [addr |-> place[v], id |-> AddressId(place[v]), identity |-> IdentityId(model[v])] \in Live(PlaceBefore)
      BY <2>1, <3>3 DEF Live
    <3> QED BY <1>4, <2>1, <3>4
  <2> QED BY <2>2, <2>3
<1>5. new = {d}
  <2> HIDE DEF d
  <2> QED BY <1>2, <1>3, <1>4 DEF Diff
<1>6. Cardinality(new) = 1
  BY <1>5, FS_Singleton
<1>7. d \in Detected
  BY <1>5, <1>6 DEF Detected
<1>8. ASSUME Answers(g.addr, "device") # {}
      PROVE  IdOf(g.addr) = IdentityId(model[u])
  <2>1. PICK i \in Answers(g.addr, "device") : IdOf(g.addr) = IdentityId(model[trace[i].unit])
    BY <1>8, IdIsShown
  <2>2. i \in DOMAIN trace /\ trace[i].addr = g.addr
    BY DEF Answers, At
  <2>3. PICK h \in given : h.addr = trace[i].addr /\ h.unit = trace[i].unit
    BY <1>1, <2>2 DEF StaysInv, Attributed
  <2>4. h = g
    BY <2>2, <2>3
  <2> QED BY <2>1, <2>3, <2>4
<1>9. d.addr = g.addr /\ d.identity = IdentityId(model[u])
  OBVIOUS
<1> HIDE DEF d
<1> QED BY <1>7, <1>8, <1>9

-----------------------------------------------------------------------------
\* A unit that was given an address twice.
GivenAgain(u) == \E g, h \in given : g # h /\ g.unit = u /\ h.unit = u

\* A unit comes back to its enumeration only when it is plugged in again: until then
\* its own traffic follows all of its enumeration.
EnumerationInv ==
  /\ \A i, j \in DOMAIN trace :
       i < j /\ trace[i].unit = trace[j].unit /\ trace[i].kind = "data" /\ trace[j].kind # "data"
       => GivenAgain(trace[i].unit)
  /\ \A i \in DOMAIN trace :
       trace[i].kind = "data" =>
         /\ trace[i].addr # 0
         /\ step[trace[i].unit] # Configured => GivenAgain(trace[i].unit)

LEMMA EnumerationInit == WorldInit => EnumerationInv
<1> SUFFICES ASSUME WorldInit PROVE EnumerationInv
  OBVIOUS
<1>1. DOMAIN trace = {}
  BY DEF WorldInit
<1> QED BY <1>1 DEF EnumerationInv

\* One more transfer of a unit that has its address.
LEMMA CaptureKeepsEnumeration ==
  ASSUME WorldTypeOK, EnumerationInv, NEW u \in Units, place[u] # Away, NEW kind \in Kinds,
         Capture(u, kind), given' = given,
         kind = "data" => step' = step /\ step[u] = Configured,
         kind # "data" => step[u] # Configured /\ step' = [step EXCEPT ![u] = @ + 1]
  PROVE  EnumerationInv'
<1> DEFINE n == Len(trace')
<1>1. /\ trace \in Seq(Transfers) /\ trace' \in Seq(Transfers) /\ n = Len(trace) + 1
      /\ \A i \in DOMAIN trace : trace'[i] = trace[i]
      /\ trace'[n].unit = u /\ trace'[n].addr = place[u] /\ trace'[n].kind = kind
  BY CaptureType DEF WorldTypeOK
<1>2. \A i \in DOMAIN trace' : i \in DOMAIN trace \/ i = n
  BY <1>1
<1>3. \A v : GivenAgain(v)' <=> GivenAgain(v)
  BY DEF GivenAgain
<1>4. \A i \in DOMAIN trace' : i \in DOMAIN trace => i < n
  BY <1>1
<1>5. \A i \in DOMAIN trace : trace[i].unit \in Units
  BY Entries
<1>6. \A v \in Units : v # u => step'[v] = step[v]
  BY DEF WorldTypeOK
<1>7. ASSUME NEW i \in DOMAIN trace', NEW j \in DOMAIN trace',
             i < j, trace'[i].unit = trace'[j].unit, trace'[i].kind = "data", trace'[j].kind # "data"
      PROVE  GivenAgain(trace[i].unit) /\ i \in DOMAIN trace
  <2>1. i \in DOMAIN trace
    BY <1>1, <1>2, <1>7
  <2>2. CASE j \in DOMAIN trace
    BY <1>1, <1>7, <2>1, <2>2 DEF EnumerationInv
  <2>3. CASE j = n
    <3>1. trace[i].unit = u /\ trace[i].kind = "data" /\ kind # "data"
      BY <1>1, <1>7, <2>1, <2>3
    <3> QED BY <2>1, <3>1 DEF EnumerationInv
  <2> QED BY <1>2, <2>1, <2>2, <2>3
<1>8. ASSUME NEW i \in DOMAIN trace', trace'[i].kind = "data"
      PROVE  trace'[i].addr # 0 /\ (step'[trace'[i].unit] # Configured => GivenAgain(trace'[i].unit))
  <2>1. CASE i \in DOMAIN trace
    <3>1. trace'[i] = trace[i] /\ trace[i].kind = "data"
      BY <1>1, <1>8, <2>1
    <3>2. trace[i].addr # 0 /\ (step[trace[i].unit] # Configured => GivenAgain(trace[i].unit))
      BY <2>1, <3>1 DEF EnumerationInv
    <3>3. trace[i].unit = u /\ kind # "data" => GivenAgain(trace[i].unit)
      BY <3>2
    <3> QED BY <1>5, <1>6, <2>1, <3>1, <3>2, <3>3
  <2>2. CASE i = n
    <3>1. kind = "data" /\ trace'[i].unit = u /\ trace'[i].addr = place[u]
      BY <1>1, <1>8, <2>2
    <3>2. place[u] # 0
      BY DeviceIdentityAssumption DEF WorldTypeOK
    <3> QED BY <3>1, <3>2
  <2> QED BY <1>2, <2>1, <2>2
<1>9. ASSUME NEW i \in DOMAIN trace, GivenAgain(trace[i].unit)
      PROVE  GivenAgain(trace[i].unit)'
  BY <1>1, <1>9 DEF GivenAgain
<1>10. ASSUME NEW i \in DOMAIN trace'
       PROVE  GivenAgain(trace'[i].unit) => GivenAgain(trace[i].unit)'
  BY DEF GivenAgain
<1> QED BY <1>7, <1>8, <1>9, <1>10 DEF EnumerationInv

LEMMA PlugKeepsEnumeration ==
  ASSUME WorldTypeOK, StaysInv, EnumerationInv, NEW u \in Units, NEW a \in Addresses, Plug(u, a)
  PROVE  EnumerationInv'
<1> DEFINE new == [addr |-> a, unit |-> u, from |-> Len(trace'), new |-> TRUE]
<1>1. /\ trace \in Seq(Transfers) /\ trace' \in Seq(Transfers) /\ Len(trace') > Len(trace)
      /\ \A i \in DOMAIN trace : trace'[i] = trace[i]
      /\ \A i \in Len(trace) + 1..Len(trace') :
           trace'[i].unit = u /\ trace'[i].addr = 0 /\ trace'[i].kind # "data"
  BY PlugType DEF WorldTypeOK
<1>2. \A i \in DOMAIN trace' : i \in DOMAIN trace \/ i \in Len(trace) + 1..Len(trace')
  BY <1>1
<1>3. given \subseteq given' /\ new \in given' /\ step' = [step EXCEPT ![u] = 1]
  BY DEF Plug
<1>4. \A v : GivenAgain(v) => GivenAgain(v)'
  BY <1>3 DEF GivenAgain
\* A unit that has been used was given an address before, and now has another.
<1>5. ASSUME NEW i \in DOMAIN trace, trace[i].kind = "data", trace[i].unit = u
      PROVE  \E g, h \in given' : g # h /\ g.unit = u /\ h.unit = u
  <2>1. trace[i].addr # 0
    BY <1>5 DEF EnumerationInv
  <2>2. PICK g \in given : g.unit = u /\ g.from < i
    BY <1>5, <2>1 DEF StaysInv, Attributed
  <2>3. g.from \in Nat /\ i \in 1..Len(trace) /\ Len(trace') \in Nat
    BY <1>1 DEF WorldTypeOK
  <2>4. new.from = Len(trace') /\ new.unit = u
    OBVIOUS
  <2> HIDE DEF new
  <2>5. g # new
    BY <1>1, <2>2, <2>3, <2>4
  <2> QED BY <1>3, <2>2, <2>4, <2>5
<1>6. \A i \in DOMAIN trace' : trace'[i].kind = "data" => i \in DOMAIN trace
  BY <1>1, <1>2
<1>7. \A i \in DOMAIN trace : trace[i].unit \in Units
  BY Entries
<1>8. ASSUME NEW i \in DOMAIN trace', NEW j \in DOMAIN trace',
             i < j, trace'[i].unit = trace'[j].unit, trace'[i].kind = "data", trace'[j].kind # "data"
      PROVE  \E g, h \in given' : g # h /\ g.unit = trace'[i].unit /\ h.unit = trace'[i].unit
  <2>1. i \in DOMAIN trace /\ trace'[i] = trace[i]
    BY <1>1, <1>6, <1>8
  <2>2. CASE j \in DOMAIN trace
    <3>1. GivenAgain(trace[i].unit)
      BY <1>1, <1>8, <2>1, <2>2 DEF EnumerationInv
    <3> QED BY <1>3, <2>1, <3>1 DEF GivenAgain
  <2>3. CASE j \in Len(trace) + 1..Len(trace')
    <3>1. trace[i].unit = u /\ trace[i].kind = "data"
      BY <1>1, <1>8, <2>1, <2>3
    <3> QED BY <1>5, <2>1, <3>1
  <2> QED BY <1>2, <2>2, <2>3
<1>9. ASSUME NEW i \in DOMAIN trace', trace'[i].kind = "data"
      PROVE  /\ trace'[i].addr # 0
             /\ step'[trace'[i].unit] # Configured =>
                  \E g, h \in given' : g # h /\ g.unit = trace'[i].unit /\ h.unit = trace'[i].unit
  <2>1. i \in DOMAIN trace /\ trace'[i] = trace[i]
    BY <1>1, <1>6, <1>9
  <2>2. trace[i].addr # 0 /\ (step[trace[i].unit] # Configured => GivenAgain(trace[i].unit))
    BY <1>9, <2>1 DEF EnumerationInv
  <2>3. CASE trace[i].unit = u
    BY <1>5, <1>9, <2>1, <2>2, <2>3
  <2>4. CASE trace[i].unit # u
    <3>1. step'[trace[i].unit] = step[trace[i].unit]
      BY <1>3, <1>7, <2>1, <2>4 DEF WorldTypeOK
    <3> QED BY <1>3, <2>1, <2>2, <3>1 DEF GivenAgain
  <2> QED BY <2>3, <2>4
<1> QED BY <1>8, <1>9 DEF EnumerationInv, GivenAgain

LEMMA EnumerationStep ==
  WorldTypeOK /\ StaysInv /\ EnumerationInv /\ [WorldNext]_worldVars => EnumerationInv'
<1> SUFFICES ASSUME WorldTypeOK, StaysInv, EnumerationInv, [WorldNext]_worldVars PROVE EnumerationInv'
  OBVIOUS
<1>1. ASSUME NEW u \in Units, NEW a \in Addresses, Plug(u, a) PROVE EnumerationInv'
  BY <1>1, PlugKeepsEnumeration
<1>2. ASSUME NEW u \in Units, Enumerate(u) PROVE EnumerationInv'
  <2>1. step[u] \in 1..4 /\ step[u] # Configured /\ Script[step[u]] \in Kinds /\ Script[step[u]] # "data"
    BY <1>2 DEF Enumerate, WorldTypeOK, Configured, Script, Kinds
  <2> QED BY <1>2, <2>1, CaptureKeepsEnumeration DEF Enumerate
<1>3. ASSUME NEW u \in Units, Use(u) PROVE EnumerationInv'
  <2>1. "data" \in Kinds
    BY DEF Kinds
  <2> QED BY <1>3, <2>1, CaptureKeepsEnumeration DEF Use
<1>4. CASE UNCHANGED worldVars
  BY <1>4 DEF worldVars, EnumerationInv, GivenAgain
<1> QED BY <1>1, <1>2, <1>3, <1>4 DEF WorldNext

\* What comes before the traffic of a device, whatever its id is made of.
LEMMA EnumerationHolds == WorldTypeOK /\ EnumerationInv => EnumerationIsWhole
<1> SUFFICES ASSUME WorldTypeOK, EnumerationInv, NEW g \in given,
                    \A h \in given : h = g \/ (h.unit # g.unit /\ h.addr # g.addr),
                    NEW merged, NEW ids, ids = DeviceIds(merged), NEW d, d = ids[g.addr],
                    \A i \in Credited(ids, d) : trace[i].unit = g.unit
             PROVE  /\ {i \in Credited(ids, d) : trace[i].kind # "data"} \subseteq EnumerationOf(merged, d).indices
                    /\ EnumerationOf(merged, d).complete <=>
                         \E i \in Credited(ids, d) : trace[i].kind = "configure"
  BY DEF EnumerationIsWhole
<1> DEFINE own == Credited(ids, d)
<1>1. EnumerationOf(merged, d).indices = Enumeration(ids, d) /\ EnumerationOf(merged, d).complete = IsComplete(ids, d)
  BY DEF EnumerationOf
<1>2. own \subseteq DOMAIN trace /\ \A i \in own : i \in Int
  BY DEF Credited, WorldTypeOK
<1>3. ~GivenAgain(g.unit)
  BY DEF GivenAgain
<1>4. ASSUME NEW i \in own, trace[i].kind # "data" PROVE i \in Enumeration(ids, d)
  <2> SUFFICES ASSUME NEW j \in own, trace[j].kind = "data" PROVE i < j
    BY <1>4 DEF Enumeration, Runtime, Standard
  <2>1. ~(j < i)
    BY <1>2, <1>3, <1>4 DEF EnumerationInv
  <2>2. i # j
    BY <1>4
  <2> QED BY <1>2, <2>1, <2>2
<1>5. Enumeration(ids, d) \subseteq own
  BY DEF Enumeration
<1>6. IsComplete(ids, d) <=> \E i \in own : trace[i].kind = "configure"
  <2>1. "configure" # "data"
    OBVIOUS
  <2> QED BY <1>4, <1>5, <2>1 DEF IsComplete
<1> QED BY <1>1, <1>4, <1>6

-----------------------------------------------------------------------------
Configurations == [model : Models, interfaces : {0, 1}]

\* The packets at some addresses, and those of them at an endpoint.
AtAny(S) == {i \in DOMAIN trace : trace[i].addr \in S}
AtEndpoint(S, e) == {i \in AtAny(S) : Endpoint(i) = e}

\* An accumulator has gathered what is at some addresses.
Gathers(m, S) ==
  /\ m.addresses = S
  /\ m.first \in AtAny(S) /\ m.last \in AtAny(S)
  /\ \A i \in AtAny(S) : m.first <= i /\ i <= m.last
  /\ m.dev = trace[m.last].addr
  /\ \A e \in {0, 1} : m.count[e] = Packets(AtEndpoint(S, e))
  /\ m.configuration \in Configurations \cup {None}
  /\ (\E a \in S : Answers(a, "configuration") # {}) =>
       m.configuration \in Configurations /\ m.configuration.interfaces = 1

Answered(S) == {i \in S : trace[i].answered}

LEMMA PacketsSplit ==
  ASSUME NEW S, IsFiniteSet(S), NEW T, IsFiniteSet(T), S \cap T = {}
  PROVE  Packets(S \cup T) = Packets(S) + Packets(T) /\ Packets(S) \in Nat
<1>1. IsFiniteSet(Answered(S)) /\ IsFiniteSet(Answered(T))
  <2>1. Answered(S) \in SUBSET S /\ Answered(T) \in SUBSET T
    BY DEF Answered
  <2> QED BY <2>1, FS_Subset
<1>2. Answered(S \cup T) = Answered(S) \cup Answered(T) /\ Answered(S) \cap Answered(T) = {}
  BY DEF Answered
<1>3. /\ Cardinality(S) \in Nat /\ Cardinality(T) \in Nat
      /\ Cardinality(Answered(S)) \in Nat /\ Cardinality(Answered(T)) \in Nat
  BY <1>1, FS_CardinalityType
<1>4. Cardinality(S \cup T) = Cardinality(S) + Cardinality(T)
  <2>1. Cardinality(S \cup T) = Cardinality(S) + Cardinality(T) - Cardinality(S \cap T)
    BY FS_Union
  <2> QED BY <1>3, <2>1, FS_EmptySet
<1>5. Cardinality(Answered(S) \cup Answered(T)) = Cardinality(Answered(S)) + Cardinality(Answered(T))
  <2>1. Cardinality(Answered(S) \cup Answered(T)) = Cardinality(Answered(S)) + Cardinality(Answered(T)) - Cardinality(Answered(S) \cap Answered(T))
    BY <1>1, FS_Union
  <2>2. Cardinality(Answered(S) \cap Answered(T)) = 0
    BY <1>2, FS_EmptySet
  <2> QED BY <1>3, <2>1, <2>2
<1>6. \A U : Packets(U) = Cardinality(U) + Cardinality(Answered(U))
  BY DEF Packets, Answered
<1>7. Packets(S \cup T) = Cardinality(S \cup T) + Cardinality(Answered(S) \cup Answered(T))
  BY <1>2, <1>6
<1> QED BY <1>3, <1>4, <1>5, <1>6, <1>7

\* Of all answers the accumulator of an address keeps a configuration, and one with
\* interfaces if there is one.
LEMMA ConfigurationIs ==
  ASSUME WorldTypeOK, NEW a
  PROVE  /\ Configuration(a) \in Configurations \cup {None}
         /\ Answers(a, "configuration") # {} =>
              Configuration(a) \in Configurations /\ Configuration(a).interfaces = 1
<1> DEFINE answers == Answers(a, "header") \cup Answers(a, "configuration")
           parsed(i) == [model |-> model[trace[i].unit], interfaces |-> IF trace[i].kind = "header" THEN 0 ELSE 1]
           stays(i) == \A j \in answers : IF j < i THEN Prefer(parsed(j), parsed(i)) ELSE j = i \/ ~Prefer(parsed(i), parsed(j))
           kept == CHOOSE i \in answers : stays(i)
<1>1. Configuration(a) = IF answers = {} THEN None ELSE parsed(kept)
  BY DEF Configuration
<1>2. answers \in SUBSET Nat /\ \A i \in answers : i \in DOMAIN trace /\ trace[i].kind \in {"header", "configuration"}
  BY DEF Answers, At, WorldTypeOK
<1>3. \A i \in answers : parsed(i) \in Configurations /\ parsed(i).interfaces = (IF trace[i].kind = "header" THEN 0 ELSE 1)
  BY <1>2, Entries DEF Configurations, WorldTypeOK
<1>4. \A i, j \in answers : Prefer(parsed(i), parsed(j)) <=> trace[i].kind = "header" /\ trace[j].kind # "header"
  <2>1. \A i \in answers : parsed(i) # None
    BY <1>3, DeviceIdentityAssumption DEF Configurations
  <2> HIDE DEF answers, parsed
  <2> QED BY <1>2, <1>3, <2>1 DEF Prefer
<1> HIDE DEF answers
<1>5. ASSUME NEW i \in answers, trace[i].kind = "configuration"
      PROVE  \E k \in answers : stays(k)
  <2> DEFINE full == {k \in answers : trace[k].kind = "configuration"}
  <2>1. PICK k \in full : \A l \in full : k <= l
    <3>1. full \in SUBSET Nat /\ full # {}
      BY <1>2, <1>5
    <3> HIDE DEF full
    <3> QED BY <3>1, HasLeast
  <2>2. ASSUME NEW j \in answers PROVE IF j < k THEN Prefer(parsed(j), parsed(k)) ELSE j = k \/ ~Prefer(parsed(k), parsed(j))
    <3>1. j < k => trace[j].kind = "header"
      BY <1>2, <2>1
    <3>2. trace[k].kind = "configuration"
      BY <2>1
    <3> HIDE DEF parsed
    <3> QED BY <1>4, <2>1, <3>1, <3>2
  <2> QED BY <2>1, <2>2
<1>6. ASSUME answers # {} PROVE \E k \in answers : stays(k)
  <2>1. CASE \A i \in answers : trace[i].kind = "header"
    <3>1. PICK k \in answers : \A l \in answers : k <= l
      BY <1>2, <1>6, HasLeast
    <3>2. ASSUME NEW j \in answers PROVE IF j < k THEN Prefer(parsed(j), parsed(k)) ELSE j = k \/ ~Prefer(parsed(k), parsed(j))
      <4>1. ~(j < k)
        BY <1>2, <3>1
      <4> HIDE DEF parsed
      <4> QED BY <1>4, <2>1, <4>1
    <3> QED BY <3>2
  <2> QED BY <1>2, <1>5, <2>1
<1>7. ASSUME answers # {} PROVE kept \in answers /\ stays(kept)
  BY <1>6, <1>7
<1> HIDE DEF kept
<1>8. ASSUME NEW i \in answers, trace[i].kind = "configuration"
      PROVE  trace[kept].kind # "header"
  <2> SUFFICES ASSUME trace[kept].kind = "header" PROVE FALSE
    OBVIOUS
  <2>1. kept \in answers /\ stays(kept)
    BY <1>7, <1>8
  <2>2. IF i < kept THEN Prefer(parsed(i), parsed(kept)) ELSE i = kept \/ ~Prefer(parsed(kept), parsed(i))
    BY <2>1
  <2> HIDE DEF parsed
  <2> QED BY <1>4, <1>8, <2>1, <2>2
<1>9. ASSUME Answers(a, "configuration") # {}
      PROVE  \E i \in answers : trace[i].kind = "configuration"
  BY <1>9 DEF answers, Answers
<1> HIDE DEF parsed
<1>10. Configuration(a) \in Configurations \cup {None}
  BY <1>1, <1>3, <1>7
<1> QED BY <1>1, <1>3, <1>7, <1>8, <1>9, <1>10

\* What is gathered of one address.
LEMMA AccumulateGathers ==
  ASSUME WorldTypeOK, NEW a \in Seen
  PROVE  Gathers(Accumulate(a), {a})
<1>1. AtAny({a}) = At(a)
  BY DEF AtAny, At
<1>2. /\ FirstIndex(a) \in At(a) /\ LastIndex(a) \in At(a)
      /\ \A i \in At(a) : FirstIndex(a) <= i /\ i <= LastIndex(a)
  BY RangeOf
<1>3. trace[LastIndex(a)].addr = a
  BY <1>2 DEF At
<1>4. \A e \in {0, 1} : AtEndpoint({a}, e) = {i \in At(a) : Endpoint(i) = e}
  BY <1>1 DEF AtEndpoint
<1>5. /\ Configuration(a) \in Configurations \cup {None}
      /\ Answers(a, "configuration") # {} =>
           Configuration(a) \in Configurations /\ Configuration(a).interfaces = 1
  BY ConfigurationIs
<1> QED BY <1>1, <1>2, <1>3, <1>4, <1>5 DEF Gathers, Accumulate

\* One more address is absorbed.
LEMMA AbsorbGathers ==
  ASSUME WorldTypeOK, NEW S \in SUBSET Seen, NEW m, Gathers(m, S), NEW a \in Seen \ S
  PROVE  Gathers(Absorb(m, Accumulate(a)), S \cup {a})
<1> DEFINE o == Accumulate(a)
           r == Absorb(m, o)
           c == Tallies(m, o)
<1>1. Gathers(o, {a}) /\ o.dev = a
  BY AccumulateGathers DEF Accumulate
<1> HIDE DEF o
<1>2. AtAny(S \cup {a}) = AtAny(S) \cup AtAny({a}) /\ AtAny(S) \cap AtAny({a}) = {}
  BY DEF AtAny
<1>3. \A T : AtAny(T) \in SUBSET DOMAIN trace
  BY DEF AtAny
<1>4. DOMAIN trace \in SUBSET Int /\ IsFiniteSet(DOMAIN trace)
  <2>1. DOMAIN trace = 1..Len(trace) /\ Len(trace) \in Nat
    BY DEF WorldTypeOK
  <2> QED BY <2>1, FS_Interval
<1>5. /\ r.addresses = m.addresses \cup o.addresses
      /\ r.first = (IF o.first < m.first THEN o.first ELSE m.first)
      /\ r.last = (IF o.last > m.last THEN o.last ELSE m.last)
      /\ r.dev = (IF o.last > m.last THEN o.dev ELSE m.dev)
      /\ \A e \in {0, 1} : r.count[e] = m.count[e] + o.count[e]
      /\ r.configuration = IF o.configuration # None /\ Prefer(m.configuration, o.configuration)
                           THEN o.configuration ELSE m.configuration
  BY DEF Absorb, Tallies
<1> HIDE DEF r
<1>6. r.addresses = S \cup {a}
  BY <1>1, <1>5 DEF Gathers
<1>7. /\ m.first \in AtAny(S) /\ m.last \in AtAny(S)
      /\ \A i \in AtAny(S) : m.first <= i /\ i <= m.last
      /\ o.first \in AtAny({a}) /\ o.last \in AtAny({a})
      /\ \A i \in AtAny({a}) : o.first <= i /\ i <= o.last
      /\ m.dev = trace[m.last].addr /\ o.dev = trace[o.last].addr
  BY <1>1 DEF Gathers
<1> DEFINE f == m.first
           g == o.first
           l == m.last
           k == o.last
<1>8. /\ \A i \in AtAny(S \cup {a}) : i \in AtAny(S) \/ i \in AtAny({a})
      /\ \A i \in AtAny(S) \cup AtAny({a}) : i \in Int /\ i \in AtAny(S \cup {a})
  BY <1>2, <1>3, <1>4
<1>9. /\ r.first \in AtAny(S \cup {a}) /\ \A i \in AtAny(S \cup {a}) : r.first <= i
      /\ r.last \in AtAny(S \cup {a}) /\ \A i \in AtAny(S \cup {a}) : i <= r.last
  <2>1. f \in Int /\ g \in Int /\ l \in Int /\ k \in Int
    BY <1>7, <1>8
  <2>2. r.first \in {f, g} /\ r.first <= f /\ r.first <= g
    BY <1>5, <2>1
  <2>3. r.last \in {l, k} /\ l <= r.last /\ k <= r.last
    BY <1>5, <2>1
  <2>4. ASSUME NEW i \in AtAny(S \cup {a}) PROVE r.first <= i /\ i <= r.last
    <3>1. i \in Int /\ (f <= i \/ g <= i) /\ (i <= l \/ i <= k)
      BY <1>7, <1>8
    <3> HIDE DEF f, g, l, k
    <3> QED BY <2>1, <2>2, <2>3, <3>1
  <2> QED BY <1>7, <1>8, <2>2, <2>3, <2>4
<1>10. r.dev = trace[r.last].addr
  BY <1>5, <1>7
<1>11. ASSUME NEW e \in {0, 1} PROVE r.count[e] = Packets(AtEndpoint(S \cup {a}, e))
  <2>1. AtEndpoint(S \cup {a}, e) = AtEndpoint(S, e) \cup AtEndpoint({a}, e)
    BY <1>2 DEF AtEndpoint
  <2>2. AtEndpoint(S, e) \cap AtEndpoint({a}, e) = {}
    BY <1>2 DEF AtEndpoint
  <2>3. IsFiniteSet(AtEndpoint(S, e)) /\ IsFiniteSet(AtEndpoint({a}, e))
    <3>1. AtEndpoint(S, e) \in SUBSET DOMAIN trace /\ AtEndpoint({a}, e) \in SUBSET DOMAIN trace
      BY <1>3 DEF AtEndpoint
    <3> QED BY <1>4, <3>1, FS_Subset
  <2>4. Packets(AtEndpoint(S \cup {a}, e)) = Packets(AtEndpoint(S, e)) + Packets(AtEndpoint({a}, e))
    BY <2>1, <2>2, <2>3, PacketsSplit
  <2>5. m.count[e] = Packets(AtEndpoint(S, e)) /\ o.count[e] = Packets(AtEndpoint({a}, e))
    BY <1>1 DEF Gathers
  <2> QED BY <1>5, <2>4, <2>5
<1>12. r.configuration \in Configurations \cup {None}
  BY <1>1, <1>5 DEF Gathers
<1>13. ASSUME NEW b \in S \cup {a}, Answers(b, "configuration") # {}
       PROVE  r.configuration \in Configurations /\ r.configuration.interfaces = 1
  <2>1. None \notin Configurations /\ \A x \in Configurations : x.interfaces \in {0, 1}
    BY DeviceIdentityAssumption DEF Configurations
  <2>2. m.configuration \in Configurations \cup {None} /\ o.configuration \in Configurations \cup {None}
    BY <1>1 DEF Gathers
  <2>3. \/ m.configuration \in Configurations /\ m.configuration.interfaces = 1
        \/ o.configuration \in Configurations /\ o.configuration.interfaces = 1
    BY <1>1, <1>13 DEF Gathers
  <2> QED BY <1>5, <2>1, <2>2, <2>3 DEF Prefer
<1> QED BY <1>6, <1>9, <1>10, <1>11, <1>12, <1>13 DEF Gathers, r, o

\* The accumulators along a list of addresses.
Merging(a, n, f) ==
  f = [k \in 1..n |-> IF k = 1 THEN Accumulate(a[1]) ELSE Absorb(f[k - 1], Accumulate(a[k]))]

LEMMA MergingExists ==
  ASSUME NEW a, NEW n \in Nat
  PROVE  \E f : Merging(a, n, f)
<1> DEFINE bad == {m \in Nat : ~(\E f : Merging(a, m, f))}
<1> SUFFICES ASSUME bad # {} PROVE FALSE
  OBVIOUS
<1>1. PICK m \in bad : \A k \in bad : m <= k
  <2> HIDE DEF bad
  <2>1. bad \in SUBSET Nat
    BY DEF bad
  <2> QED BY <2>1, HasLeast
<1>2. CASE m = 0
  <2> DEFINE f == [k \in 1..0 |-> 0]
  <2>1. Merging(a, 0, f)
    BY DEF Merging
  <2> QED BY <1>1, <1>2, <2>1
<1>3. CASE m # 0
  <2>1. m \in Nat /\ m - 1 \in Nat /\ m - 1 \notin bad
    BY <1>1, <1>3
  <2>2. PICK f : Merging(a, m - 1, f)
    BY <2>1
  <2> DEFINE last == IF m = 1 THEN Accumulate(a[1]) ELSE Absorb(f[m - 1], Accumulate(a[m]))
             g == [k \in 1..m |-> IF k = m THEN last ELSE f[k]]
             next(k) == IF k = 1 THEN Accumulate(a[1]) ELSE Absorb(g[k - 1], Accumulate(a[k]))
  <2>3. ASSUME NEW k \in 1..m PROVE g[k] = next(k)
    <3>1. CASE k = m
      <4>1. m # 1 => m - 1 \in 1..m /\ g[m - 1] = f[m - 1]
        BY <2>1
      <4>2. g[m] = last
        BY <2>1, <3>1
      <4> HIDE DEF g
      <4> QED BY <3>1, <4>1, <4>2
    <3>2. CASE k # m
      <4>1. k \in 1..m - 1 /\ g[k] = f[k] /\ (k # 1 => k - 1 \in 1..m /\ k - 1 # m /\ g[k - 1] = f[k - 1])
        BY <2>1, <3>2
      <4>2. f[k] = IF k = 1 THEN Accumulate(a[1]) ELSE Absorb(f[k - 1], Accumulate(a[k]))
        BY <2>2, <4>1 DEF Merging
      <4> HIDE DEF g
      <4> QED BY <4>1, <4>2
    <3> QED BY <3>1, <3>2
  <2>4. g = [k \in 1..m |-> g[k]]
    OBVIOUS
  <2> HIDE DEF g
  <2>5. Merging(a, m, g)
    BY <2>3, <2>4 DEF Merging
  <2> QED BY <1>1, <2>5
<1> QED BY <1>2, <1>3

\* Numbers in their order.
LEMMA InOrderLists ==
  ASSUME NEW S \in SUBSET Int, IsFiniteSet(S)
  PROVE  /\ Listing(InOrder(S), S) /\ InOrder(S) \in Seq(S)
         /\ Len(InOrder(S)) = Cardinality(S) /\ Cardinality(S) \in Nat
<1>1. InOrder(S) = [k \in 1..Cardinality(S) |-> CHOOSE i \in S : Cardinality(UpTo(S, i)) = k]
  BY DEF InOrder, UpTo
<1>2. Listing(InOrder(S), S) /\ Cardinality(S) \in Nat
  BY <1>1, Lists
<1> QED BY <1>2 DEF Listing

\* The accumulator of an id gathers what is at all of its addresses.
LEMMA FoldGathers ==
  ASSUME WorldTypeOK, NEW S \in SUBSET Seen, S # {}
  PROVE  Gathers(Fold(InOrder(S)), S)
<1> DEFINE a == InOrder(S)
           n == Cardinality(S)
           f == CHOOSE f : f = [k \in DOMAIN a |-> IF k = 1 THEN Accumulate(a[1]) ELSE Absorb(f[k - 1], Accumulate(a[k]))]
           firsts(k) == {a[j] : j \in 1..k}
<1>1. S \in SUBSET Int /\ IsFiniteSet(S)
  <2>1. IsFiniteSet(DOMAIN trace)
    <3>1. DOMAIN trace = 1..Len(trace) /\ Len(trace) \in Nat
      BY DEF WorldTypeOK
    <3> QED BY <3>1, FS_Interval
  <2> DEFINE addr == [i \in DOMAIN trace |-> trace[i].addr]
  <2>2. Seen = {addr[i] : i \in DOMAIN trace}
    BY DEF Seen
  <2> HIDE DEF addr
  <2>3. IsFiniteSet(Seen)
    BY <2>1, <2>2, FiniteImage
  <2>4. Seen \in SUBSET Int
    BY Entries DEF Seen
  <2> QED BY <2>3, <2>4, FS_Subset
<1>2. Listing(a, S) /\ a \in Seq(S) /\ Len(a) = n /\ n \in Nat
  BY <1>1, InOrderLists
<1>3. DOMAIN a = 1..n
  BY <1>2
<1> HIDE DEF a
<1>4. Fold(a) = f[n]
  BY <1>2 DEF Fold
<1>5. Merging(a, n, f)
  <2>1. \E g : Merging(a, n, g)
    BY <1>2, MergingExists
  <2>2. \E g : g = [k \in DOMAIN a |-> IF k = 1 THEN Accumulate(a[1]) ELSE Absorb(g[k - 1], Accumulate(a[k]))]
    BY <1>3, <2>1 DEF Merging
  <2> QED BY <1>3, <2>2 DEF Merging
<1> HIDE DEF f
<1>6. \A k \in 1..n : f[k] = IF k = 1 THEN Accumulate(a[1]) ELSE Absorb(f[k - 1], Accumulate(a[k]))
  BY <1>5 DEF Merging
<1>7. n # 0
  BY <1>1, FS_EmptySet
<1>8. /\ \A k \in 1..n : a[k] \in S
      /\ \A k, l \in 1..n : k < l => a[k] < a[l]
      /\ \A b \in S : \E k \in 1..n : a[k] = b
  BY <1>2 DEF Listing
<1>9. ASSUME NEW k \in 1..n PROVE Gathers(f[k], firsts(k))
  <2> DEFINE bad == {m \in 1..n : ~Gathers(f[m], firsts(m))}
  <2> SUFFICES ASSUME bad # {} PROVE FALSE
    OBVIOUS
  <2>1. PICK m \in bad : \A l \in bad : m <= l
    <3>1. bad \in SUBSET Nat
      BY <1>2
    <3> HIDE DEF bad
    <3> QED BY <3>1, HasLeast
  <2>2. m \in 1..n /\ ~Gathers(f[m], firsts(m))
    OBVIOUS
  <2>3. CASE m = 1
    <3>1. firsts(1) = {a[1]} /\ a[1] \in Seen
      BY <1>8, <2>2, <2>3
    <3>2. f[1] = Accumulate(a[1])
      BY <1>6, <2>2, <2>3
    <3> QED BY <2>2, <2>3, <3>1, <3>2, AccumulateGathers
  <2>4. CASE m # 1
    <3>1. m - 1 \in 1..n /\ m - 1 \notin bad
      <4>1. m - 1 \in 1..n /\ ~(m <= m - 1)
        BY <1>2, <2>2, <2>4
      <4> HIDE DEF bad
      <4> QED BY <2>1, <4>1
    <3>2. Gathers(f[m - 1], firsts(m - 1))
      BY <3>1
    <3>3. firsts(m) = firsts(m - 1) \cup {a[m]}
      <4>1. \A j : j \in 1..m <=> j \in 1..m - 1 \/ j = m
        BY <1>2, <2>2
      <4> QED BY <4>1
    <3>4. firsts(m - 1) \in SUBSET Seen /\ a[m] \in Seen \ firsts(m - 1)
      <4>1. \A j \in 1..m - 1 : j \in 1..n /\ j < m
        BY <1>2, <2>2
      <4>2. \A j \in 1..m - 1 : a[j] \in S /\ a[j] < a[m]
        BY <1>8, <2>2, <4>1
      <4>3. a[m] \in S /\ a[m] \in Int
        BY <1>1, <1>8, <2>2
      <4>4. ~(a[m] < a[m])
        BY <4>3
      <4> QED BY <4>2, <4>3, <4>4
    <3>5. f[m] = Absorb(f[m - 1], Accumulate(a[m]))
      BY <1>6, <2>2, <2>4
    <3> HIDE DEF firsts
    <3>6. Gathers(Absorb(f[m - 1], Accumulate(a[m])), firsts(m - 1) \cup {a[m]})
      BY <3>2, <3>4, AbsorbGathers
    <3> QED BY <2>2, <3>3, <3>5, <3>6
  <2> QED BY <2>3, <2>4
<1>10. n \in 1..n
  BY <1>2, <1>7
<1>11. firsts(n) = S
  BY <1>8
<1> HIDE DEF firsts
<1> QED BY <1>4, <1>9, <1>10, <1>11 DEF a

\* Each id has one accumulator, for all of its addresses.
IdAddresses(d) == {a \in Seen : IdOf(a) = d}

LEMMA MergedGathers ==
  ASSUME WorldTypeOK, NEW d \in DOMAIN Merged
  PROVE  Gathers(Merged[d], IdAddresses(d))
<1>1. d \in {IdOf(a) : a \in Seen} /\ Merged[d] = Fold(InOrder(IdAddresses(d)))
  BY DEF Merged, IdAddresses
<1>2. IdAddresses(d) \in SUBSET Seen /\ IdAddresses(d) # {}
  BY <1>1 DEF IdAddresses
<1> QED BY <1>1, <1>2, FoldGathers

LEMMA ResolvesToId ==
  ASSUME WorldTypeOK, NEW ids, ids = DeviceIds(Merged)
  PROVE  /\ \A i \in DOMAIN trace : Resolve(ids, i) = IdOf(trace[i].addr)
         /\ \A d : Credited(ids, d) = AtAny(IdAddresses(d))
<1>1. ASSUME NEW a \in Seen PROVE ids[a] = IdOf(a)
  <2>1. IdOf(a) \in DOMAIN Merged
    BY DEF Merged
  <2>2. \A d \in DOMAIN Merged : Merged[d].addresses = IdAddresses(d)
    BY MergedGathers DEF Gathers
  <2>3. ids[a] = CHOOSE d \in DOMAIN Merged : a \in Merged[d].addresses
    BY DEF DeviceIds
  <2>4. a \in Merged[IdOf(a)].addresses
    BY <2>1, <2>2 DEF IdAddresses
  <2>5. ids[a] \in DOMAIN Merged /\ a \in Merged[ids[a]].addresses
    BY <2>1, <2>3, <2>4
  <2> QED BY <2>2, <2>5 DEF IdAddresses
<1>2. \A i \in DOMAIN trace : trace[i].addr \in Seen
  BY DEF Seen
<1>3. \A i \in DOMAIN trace : Resolve(ids, i) = IdOf(trace[i].addr)
  BY <1>1, <1>2 DEF Resolve
<1> QED BY <1>2, <1>3 DEF Credited, AtAny, IdAddresses

-----------------------------------------------------------------------------
\* What a client has read after some pages.
Reading(s, limit, n, f) ==
  f = [k \in 0..n |->
         IF k = 0 THEN <<>>
         ELSE LET before == f[k - 1] IN before \o Page(s, Len(before), limit)]

\* One more page.
LEMMA PageIs ==
  ASSUME NEW T, NEW s \in Seq(T), NEW limit \in Nat \ {0}, NEW m \in 0..Len(s),
         NEW t, t = SubSeq(s, 1, m)
  PROVE  LET n == IF m + limit < Len(s) THEN m + limit ELSE Len(s)
         IN /\ Len(t) = m /\ n \in 0..Len(s)
            /\ t \o Page(s, Len(t), limit) = SubSeq(s, 1, n)
            /\ HasMore(s, Len(t), limit) <=> m + limit < Len(s)
<1> DEFINE n == IF m + limit < Len(s) THEN m + limit ELSE Len(s)
<1>1. Len(s) \in Nat /\ m \in Nat /\ m <= n /\ n <= Len(s) /\ n \in Nat
  OBVIOUS
<1>2. Len(t) = m /\ t \in Seq(T)
  <2>1. CASE m = 0
    BY <2>1, <1>1, SubSeqEmpty
  <2>2. CASE m # 0
    <3>1. m \in 1..Len(s) /\ 1 \in 1..Len(s) /\ 1 <= m
      BY <1>1, <2>2
    <3>2. \A i \in 1..m : s[i] \in T
      BY <1>1
    <3> QED BY <1>1, <3>1, <3>2, SubSeqProperties
  <2> QED BY <2>1, <2>2
<1>3. Page(s, m, limit) = SubSeq(s, m + 1, n)
  BY DEF Page
<1>4. SubSeq(s, 1, m) \o SubSeq(s, m + 1, n) = SubSeq(s, 1, n)
  <2>1. 1 \in 1..Len(s) + 1 /\ m \in 1 - 1..Len(s) /\ n \in m..Len(s)
    BY <1>1
  <2> QED BY <2>1, ConcatAdjacentSubSeq
<1>5. Len(Page(s, m, limit)) = n - m
  <2>1. \A i \in m + 1..n : s[i] \in T
    BY <1>1
  <2>2. Len(SubSeq(s, m + 1, n)) = IF m + 1 <= n THEN n - (m + 1) + 1 ELSE 0
    BY <1>1, <2>1, SubSeqProperties
  <2> QED BY <1>1, <1>3, <2>2
<1>6. HasMore(s, m, limit) <=> m + (n - m) < Len(s)
  BY <1>5 DEF HasMore
<1>7. m + (n - m) < Len(s) <=> m + limit < Len(s)
  BY <1>1
<1>8. t \o Page(s, Len(t), limit) = SubSeq(s, 1, n)
  BY <1>2, <1>3, <1>4
<1>9. HasMore(s, Len(t), limit) <=> m + limit < Len(s)
  BY <1>2, <1>6, <1>7
<1>10. Len(t) = m /\ n \in 0..Len(s)
  BY <1>1, <1>2
<1> HIDE DEF n
<1>11. /\ Len(t) = m /\ n \in 0..Len(s)
       /\ t \o Page(s, Len(t), limit) = SubSeq(s, 1, n)
       /\ HasMore(s, Len(t), limit) <=> m + limit < Len(s)
  BY <1>8, <1>9, <1>10
<1> QED BY <1>11 DEF n

\* Who reads page by page as long as there is more reads everything, once and in order.
LEMMA PagesAreAll ==
  ASSUME NEW T, NEW s \in Seq(T), NEW limit \in Nat \ {0}
  PROVE  Paged(s, limit) = s
<1> DEFINE size == Len(s)
           n == size + 1
           far(k) == k * limit
           m(k) == IF far(k) < size THEN far(k) ELSE size
           f == CHOOSE f : f = [k \in 0..n |->
                  IF k = 0 THEN <<>>
                  ELSE LET before == f[k - 1] IN before \o Page(s, Len(before), limit)]
           more(k) == HasMore(s, Len(f[k - 1]), limit)
           pages == CHOOSE k \in 1..n : ~more(k) /\ \A j \in 1..k - 1 : more(j)
<1>1. Paged(s, limit) = f[pages]
  BY DEF Paged
<1>2. size \in Nat /\ n \in Nat /\ limit \in Nat /\ limit >= 1
  OBVIOUS
<1>3. /\ far(0) = 0
      /\ \A k \in Nat : far(k) \in Nat /\ (k # 0 => far(k) = far(k - 1) + limit)
  BY <1>2
<1>4. far(n) >= n /\ far(n) \in Nat
  <2>1. far(n) = n + n * (limit - 1) /\ n * (limit - 1) >= 0
    BY <1>2
  <2> QED BY <1>2, <2>1
<1> HIDE DEF far
<1>5. ASSUME NEW k \in Nat
      PROVE  /\ m(k) \in 0..size
             /\ k # 0 => /\ m(k) = IF m(k - 1) + limit < size THEN m(k - 1) + limit ELSE size
                         /\ m(k - 1) + limit < size <=> far(k) < size
  <2> DEFINE j == k - 1
  <2>1. far(k) \in Nat /\ (k # 0 => far(j) \in Nat /\ far(k) = far(j) + limit)
    <3>1. k # 0 => j \in Nat /\ far(k) = far(j) + limit
      BY <1>3
    <3> HIDE DEF j
    <3> QED BY <1>3, <3>1
  <2> QED BY <1>2, <2>1
<1>6. m(0) = 0
  BY <1>2, <1>3
<1> HIDE DEF m
\* One more page of a client that has read m(k - 1) packets.
<1>7. ASSUME NEW k \in Nat \ {0}, NEW t, t = SubSeq(s, 1, m(k - 1))
      PROVE  /\ t \o Page(s, Len(t), limit) = SubSeq(s, 1, m(k))
             /\ HasMore(s, Len(t), limit) <=> far(k) < size
  <2> DEFINE l == m(k - 1)
             r == IF l + limit < size THEN l + limit ELSE size
  <2>1. l \in 0..size
    <3> DEFINE j == k - 1
    <3>1. j \in Nat
      OBVIOUS
    <3> HIDE DEF j
    <3>2. m(j) \in 0..size
      BY <1>5, <3>1
    <3> QED BY <3>2 DEF j
  <2>2. t = SubSeq(s, 1, l)
    BY <1>7
  <2> HIDE DEF l
  <2>3. /\ t \o Page(s, Len(t), limit) = SubSeq(s, 1, r)
        /\ HasMore(s, Len(t), limit) <=> l + limit < size
    BY <2>1, <2>2, PageIs
  <2>4. r = m(k) /\ (l + limit < size <=> far(k) < size)
    BY <1>5 DEF l
  <2> QED BY <2>3, <2>4
<1>8. SubSeq(s, 1, m(0)) = <<>> /\ SubSeq(s, 1, size) = s
  BY <1>6, SubSeqEmpty, SubSeqFull
<1>9. Reading(s, limit, n, [k \in 0..n |-> SubSeq(s, 1, m(k))])
  <2> DEFINE g == [k \in 0..n |-> SubSeq(s, 1, m(k))]
             next(k) == IF k = 0 THEN <<>>
                        ELSE LET before == g[k - 1] IN before \o Page(s, Len(before), limit)
  <2>1. ASSUME NEW k \in 0..n PROVE g[k] = next(k)
    <3>1. CASE k = 0
      BY <1>2, <1>8, <3>1
    <3>2. CASE k # 0
      <4>1. k \in Nat \ {0} /\ k - 1 \in 0..n
        BY <1>2, <3>2
      <4>2. g[k - 1] = SubSeq(s, 1, m(k - 1)) /\ g[k] = SubSeq(s, 1, m(k))
        BY <4>1
      <4> HIDE DEF g
      <4>3. g[k - 1] \o Page(s, Len(g[k - 1]), limit) = g[k]
        BY <1>7, <4>1, <4>2
      <4> QED BY <3>2, <4>3
    <3> QED BY <3>1, <3>2
  <2>2. g = [k \in 0..n |-> g[k]]
    OBVIOUS
  <2> HIDE DEF g
  <2>3. Reading(s, limit, n, g)
    BY <2>1, <2>2 DEF Reading
  <2> QED BY <2>3 DEF g
<1>10. Reading(s, limit, n, f)
  <2>1. \E g : g = [k \in 0..n |->
                  IF k = 0 THEN <<>>
                  ELSE LET before == g[k - 1] IN before \o Page(s, Len(before), limit)]
    BY <1>9 DEF Reading
  <2> QED BY <2>1 DEF Reading
<1> HIDE DEF f
<1>11. \A k \in 0..n : f[k] = IF k = 0 THEN <<>>
                              ELSE f[k - 1] \o Page(s, Len(f[k - 1]), limit)
  BY <1>10 DEF Reading
<1>12. ASSUME NEW k \in 0..n PROVE f[k] = SubSeq(s, 1, m(k))
  <2> DEFINE bad == {l \in 0..n : f[l] # SubSeq(s, 1, m(l))}
  <2> SUFFICES ASSUME bad # {} PROVE FALSE
    OBVIOUS
  <2>1. PICK l \in bad : \A j \in bad : l <= j
    <3>1. bad \in SUBSET Nat
      BY <1>2
    <3> HIDE DEF bad
    <3> QED BY <3>1, HasLeast
  <2>2. l \in 0..n /\ f[l] # SubSeq(s, 1, m(l))
    OBVIOUS
  <2>3. l # 0
    BY <1>8, <1>11, <2>2
  <2>4. l \in Nat \ {0} /\ l - 1 \in 0..n /\ ~(l <= l - 1)
    BY <1>2, <2>2, <2>3
  <2>5. l - 1 \notin bad
    <3> HIDE DEF bad
    <3> QED BY <2>1, <2>4
  <2>6. f[l - 1] = SubSeq(s, 1, m(l - 1))
    BY <2>4, <2>5
  <2>7. f[l - 1] \o Page(s, Len(f[l - 1]), limit) = SubSeq(s, 1, m(l))
    BY <1>7, <2>4, <2>6
  <2>8. f[l] = f[l - 1] \o Page(s, Len(f[l - 1]), limit)
    BY <1>11, <2>2, <2>3
  <2> QED BY <2>2, <2>7, <2>8
<1>13. \A k \in 1..n : more(k) <=> far(k) < size
  <2> SUFFICES ASSUME NEW k \in 1..n PROVE more(k) <=> far(k) < size
    OBVIOUS
  <2>1. k \in Nat \ {0} /\ k - 1 \in 0..n
    BY <1>2
  <2>2. f[k - 1] = SubSeq(s, 1, m(k - 1))
    BY <1>12, <2>1
  <2> QED BY <1>7, <2>1, <2>2
<1> HIDE DEF more
<1>14. pages \in 1..n /\ ~more(pages)
  <2> DEFINE ends == {k \in 1..n : ~more(k)}
  <2>1. n \in ends
    <3>1. n \in 1..n /\ far(n) \in Nat /\ ~(far(n) < size)
      BY <1>2, <1>4
    <3> QED BY <1>13, <3>1
  <2>2. PICK k \in ends : \A j \in ends : k <= j
    <3>1. ends \in SUBSET Nat /\ ends # {}
      BY <1>2, <2>1
    <3> HIDE DEF ends
    <3> QED BY <3>1, HasLeast
  <2>3. \A j \in 1..k - 1 : j \in 1..n /\ ~(k <= j)
    BY <1>2, <2>2
  <2>4. \A j \in 1..k - 1 : more(j)
    BY <2>2, <2>3
  <2> QED BY <2>2, <2>4
<1> HIDE DEF pages
<1>15. pages \in Nat /\ pages \in 0..n /\ far(pages) \in Nat /\ ~(far(pages) < size)
  <2>1. pages \in Nat /\ pages \in 0..n
    BY <1>2, <1>14
  <2> QED BY <1>3, <1>13, <1>14, <2>1
<1>16. m(pages) = size
  BY <1>15 DEF m
<1> QED BY <1>1, <1>8, <1>12, <1>15, <1>16

\* The answered packets of a list, by their place in it.
LEMMA AnsweredPlaces ==
  ASSUME NEW S \in SUBSET Int, IsFiniteSet(S), NEW s, Listing(s, S)
  PROVE  Cardinality({k \in DOMAIN s : trace[s[k]].answered}) = Cardinality(Answered(S))
<1> DEFINE n == Cardinality(S)
           places == {k \in 1..n : trace[s[k]].answered}
           h == [k \in places |-> s[k]]
<1>1. /\ DOMAIN s = 1..n /\ n \in Nat
      /\ \A k \in 1..n : s[k] \in S
      /\ \A k, l \in 1..n : k < l => s[k] < s[l]
      /\ \A i \in S : \E k \in 1..n : s[k] = i
  BY FS_CardinalityType DEF Listing
<1>2. h \in Bijection(places, Answered(S))
  <2>1. h \in [places -> Answered(S)]
    BY <1>1 DEF Answered
  <2>2. \A k, l \in places : h[k] = h[l] => k = l
    <3> SUFFICES ASSUME NEW k \in places, NEW l \in places, s[k] = s[l] PROVE k = l
      OBVIOUS
    <3>1. k \in 1..n /\ l \in 1..n /\ k \in Int /\ l \in Int
      BY <1>1
    <3>2. s[k] \in Int /\ ~(s[k] < s[l]) /\ ~(s[l] < s[k])
      <4>1. s[k] \in Int /\ s[l] \in Int
        BY <1>1, <3>1
      <4> QED BY <4>1
    <3>3. ~(k < l) /\ ~(l < k)
      BY <1>1, <3>1, <3>2
    <3> QED BY <3>1, <3>3
  <2>3. \A i \in Answered(S) : \E k \in places : h[k] = i
    BY <1>1 DEF Answered
  <2> HIDE DEF h, places
  <2> QED BY <2>1, <2>2, <2>3 DEF Bijection, Injection, IsInjective, Surjection
<1>3. IsFiniteSet(places)
  <2>1. places \in SUBSET (1..n) /\ IsFiniteSet(1..n)
    BY <1>1, FS_Interval
  <2> QED BY <2>1, FS_Subset
<1> HIDE DEF h, places
<1>4. Cardinality(places) = Cardinality(Answered(S))
  BY <1>2, <1>3, FS_Bijection DEF ExistsBijection
<1> QED BY <1>1, <1>4 DEF places

\* Summaries, queries and pages are about the same packets.
LEMMA SummariesHold == WorldTypeOK => SummariesAddUp
<1> SUFFICES ASSUME WorldTypeOK, NEW merged, merged = Merged, NEW ids, ids = DeviceIds(merged),
                    NEW d \in DOMAIN merged
             PROVE  /\ \A e \in {0, 1} : \A matches \in {GetPackets(ids, d, e)} :
                         LET read == Paged(matches, PageLimit)
                         IN Summary(merged, d).count[e]
                              = Len(read) + Cardinality({k \in DOMAIN read : trace[read[k]].answered})
                    /\ merged[d].last \in Credited(ids, d) /\ merged[d].first \in Credited(ids, d)
                    /\ \A i \in Credited(ids, d) : merged[d].first <= i /\ i <= merged[d].last
                    /\ Summary(merged, d).dev = trace[merged[d].last].addr
                    /\ (\E a \in merged[d].addresses : Answers(a, "configuration") # {})
                         => Summary(merged, d).class # None
  BY DEF SummariesAddUp
<1> DEFINE S == IdAddresses(d)
           m == merged[d]
<1>1. Gathers(m, S)
  BY MergedGathers
<1>2. /\ \A i \in DOMAIN trace : Resolve(ids, i) = IdOf(trace[i].addr)
      /\ Credited(ids, d) = AtAny(S)
  BY ResolvesToId
<1> HIDE DEF S, m
<1>3. /\ Summary(merged, d).count = m.count /\ Summary(merged, d).dev = m.dev
      /\ Summary(merged, d).class =
           IF m.configuration = None \/ m.configuration.interfaces = 0 THEN None ELSE m.configuration.model
  BY DEF Summary, m
<1>4. ASSUME NEW e \in {0, 1}, NEW matches, matches = GetPackets(ids, d, e)
      PROVE  LET read == Paged(matches, PageLimit)
             IN Summary(merged, d).count[e]
                  = Len(read) + Cardinality({k \in DOMAIN read : trace[read[k]].answered})
  <2> DEFINE P == AtEndpoint(S, e)
             s == InOrder(P)
  <2>1. {i \in DOMAIN trace : Matches(ids, d, e, i)} = P
    <3>1. \A i \in DOMAIN trace : trace[i].addr \in S <=> Resolve(ids, i) = d
      <4>1. \A i \in DOMAIN trace : trace[i].addr \in Seen
        BY DEF Seen
      <4> QED BY <1>2, <4>1 DEF S, IdAddresses
    <3> QED BY <3>1 DEF Matches, AtEndpoint, AtAny
  <2>2. P \in SUBSET Int /\ IsFiniteSet(P)
    <3>1. DOMAIN trace = 1..Len(trace) /\ Len(trace) \in Nat
      BY DEF WorldTypeOK
    <3>2. IsFiniteSet(DOMAIN trace) /\ DOMAIN trace \in SUBSET Int
      BY <3>1, FS_Interval
    <3>3. P \in SUBSET DOMAIN trace
      BY DEF AtEndpoint, AtAny
    <3> QED BY <3>2, <3>3, FS_Subset
  <2>3. matches = s
    BY <1>4, <2>1 DEF GetPackets
  <2>4. Listing(s, P) /\ s \in Seq(P) /\ Len(s) = Cardinality(P)
    BY <2>2, InOrderLists
  <2>5. Paged(s, PageLimit) = s
    BY <2>4, PagesAreAll, DeviceIdentityAssumption
  <2>6. Cardinality({k \in DOMAIN s : trace[s[k]].answered}) = Cardinality(Answered(P))
    BY <2>2, <2>4, AnsweredPlaces
  <2>7. m.count[e] = Packets(P)
    BY <1>1 DEF Gathers
  <2>8. Packets(P) = Cardinality(P) + Cardinality(Answered(P))
    BY DEF Packets, Answered
  <2> HIDE DEF s, P
  <2> QED BY <1>3, <2>3, <2>4, <2>5, <2>6, <2>7, <2>8
<1>5. /\ m.last \in Credited(ids, d) /\ m.first \in Credited(ids, d)
      /\ \A i \in Credited(ids, d) : m.first <= i /\ i <= m.last
      /\ Summary(merged, d).dev = trace[m.last].addr
  BY <1>1, <1>2, <1>3 DEF Gathers
<1>6. ASSUME NEW a \in m.addresses, Answers(a, "configuration") # {}
      PROVE  Summary(merged, d).class # None
  <2>1. m.configuration \in Configurations /\ m.configuration.interfaces = 1
    BY <1>1, <1>6 DEF Gathers
  <2>2. m.configuration # None /\ m.configuration.model \in Models /\ None \notin Models
    BY <2>1, DeviceIdentityAssumption DEF Configurations
  <2> QED BY <1>3, <2>1, <2>2
<1> QED BY <1>4, <1>5, <1>6 DEF m

-----------------------------------------------------------------------------
\* The capture, the stays it records and the places of the devices are well formed.
THEOREM WorldTypeCorrect == WorldSpec => []WorldTypeOK
<1> QED BY TypeInit, TypeStep, PTL DEF WorldSpec

\* A packet's unit was given the packet's address before it, and no other since
\* (session.py:1188: what the merge takes for granted).
THEOREM StaysCorrect == WorldSpec => []StaysInv
<1> QED BY TypeInit, TypeStep, StaysInit, StaysStep, PTL DEF WorldSpec

\* When validate complains of addresses active at the same time (session.py:1336),
\* there are two units of the model, or an address was assigned twice.
THEOREM OverMergeCorrect == WorldSpec => []OverMergeIsTwoUnits
<1> QED BY WorldTypeCorrect, StaysCorrect, OverMergeStep, PTL

\* When validate finds no address with two identities, no unit that showed its
\* descriptor at an address is credited to another model there (session.py:1388).
THEOREM MisattributionCorrect == WorldSpec => []MisattributionIsReported
<1> QED BY WorldTypeCorrect, MisattributionStep, PTL

\* Alternating traffic of one id at two assigned addresses is complained of
\* (session.py:1341).
THEOREM TwoUnitsCorrect == WorldSpec => []TwoUnitsAreReported
<1> QED BY WorldTypeCorrect, TwoUnitsStep, PTL

\* detect-device finds the one unit that was plugged in at a new address, and the
\* capture shows it under the id that the live tools give (detect_device.py:45).
THEOREM DetectionCorrect == WorldSpec => []DetectionFindsArrival
<1>1. WorldSpec => []BeforeInv
  BY BeforeInit, BeforeStep, PTL DEF WorldSpec
<1> QED BY <1>1, WorldTypeCorrect, StaysCorrect, DetectionStep, PTL

\* The enumeration of a device plugged in during the capture is found whole
\* (session.py:1556), beside any number of other devices, and however they are
\* merged with their addresses.
THEOREM EnumerationCorrect == WorldSpec => []EnumerationIsWhole
<1>1. WorldSpec => []EnumerationInv
  BY TypeInit, TypeStep, StaysInit, StaysStep, EnumerationInit, EnumerationStep, PTL DEF WorldSpec
<1> QED BY <1>1, WorldTypeCorrect, EnumerationHolds, PTL

\* A device is reported once (session.py:1168): however many addresses it had, and
\* however a client pages, the counts, the range, the address and the
\* configuration of a summary are those of the packets that its id finds.
THEOREM SummariesCorrect == WorldSpec => []SummariesAddUp
<1> QED BY WorldTypeCorrect, SummariesHold, PTL
=============================================================================
