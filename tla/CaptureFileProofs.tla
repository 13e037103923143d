-------------------------- MODULE CaptureFileProofs --------------------------
(***************************************************************************)
(* Proofs about CaptureFile, for files of any length and any link types.   *)
(* The heart is LoadFollows: whatever blocks the load has read, it knows   *)
(* what the writer knew after them.                                        *)
(***************************************************************************)
EXTENDS CaptureFile, TLAPS

\* A fresh file satisfies the invariant.
LEMMA InitIInv == Init => IInv
<1> SUFFICES ASSUME Init PROVE IInv
  OBVIOUS
<1>1. TypeOK
  <2>1. <<>> \in Seq(Block) /\ <<>> \in Seq(Links) /\ <<>> \in Seq(Meaning) /\ <<>> \in Seq(Packet)
    OBVIOUS
  <2>2. Len(blocks) = 0 /\ flushed \in 0..Len(blocks) /\ pos \in 0..flushed /\ Len(blocks) <= MaxBlocks
    BY CaptureFileAssumption DEF Init
  <2> QED BY <2>1, <2>2 DEF Init, TypeOK
<1>2. MeantFollows /\ LoadFollows
  BY DEF Init, MeantFollows, LoadFollows, TableAt, SentAt
<1>3. SentGrows
  BY DEF Init, SentGrows, SentAt, Prefix
<1>4. DiskIsWhole /\ LoadedIsPrefix /\ ClosedFileLoads
  BY DEF Init, DiskIsWhole, LoadedIsPrefix, ClosedFileLoads, Sent, SentAt, Prefix
<1> QED BY <1>1, <1>2, <1>3, <1>4 DEF IInv

\* What was meant after any number of blocks is well typed.
LEMMA MeantTypes ==
  ASSUME IInv, NEW i \in 0..Len(blocks)
  PROVE  TableAt(i) \in Seq(Links) /\ SentAt(i) \in Seq(Packet)
<1>1. CASE i = 0
  BY <1>1 DEF TableAt, SentAt
<1>2. CASE i # 0
  <2>1. i \in 1..Len(meant) /\ meant \in Seq(Meaning)
    BY <1>2 DEF IInv, TypeOK, MeantFollows
  <2>2. meant[i] \in Meaning
    BY <2>1
  <2> QED BY <1>2, <2>2 DEF TableAt, SentAt, Meaning
<1> QED BY <1>1, <1>2

\* A sequence is a prefix of itself, of what it is extended to, and so on.
LEMMA PrefixGrows ==
  ASSUME NEW S, NEW s \in Seq(S), NEW t \in Seq(S), NEW e \in S, Prefix(s, t)
  PROVE  Prefix(s, s) /\ Prefix(s, Append(t, e))
  BY DEF Prefix

LEMMA PrefixTransitive ==
  ASSUME NEW S, NEW s \in Seq(S), NEW t \in Seq(S), NEW u \in Seq(S), Prefix(s, t), Prefix(t, u)
  PROVE  Prefix(s, u)
  BY DEF Prefix

\* Emit adds one block that is understood: the invariant stays.
LEMMA EmitKeepsIInv ==
  ASSUME IInv, NEW b \in Block, NEW newTable \in Seq(Links), NEW newSent \in Seq(Packet),
         Emit(b, newTable, newSent), Prefix(Sent, newSent),
         blocks = <<>> => b.kind = "section", Means(b, table, Sent, newTable, newSent)
  PROVE  IInv'
<1> DEFINE n == Len(blocks)
<1>0. [table |-> newTable, sent |-> newSent] \in Meaning
  BY DEF Meaning
<1>a. /\ meant \in Seq(Meaning) /\ blocks \in Seq(Block) /\ Len(meant) = n
      /\ meant' = Append(meant, [table |-> newTable, sent |-> newSent])
      /\ blocks' = Append(blocks, b) /\ table' = newTable
      /\ n < MaxBlocks /\ mode = "open"
      /\ UNCHANGED <<mode, flushed, torn, phase, pos, interfaces, packets, sealed, outcome, active>>
  BY DEF IInv, TypeOK, MeantFollows, Emit, diskVars, loadVars
<1>1. /\ n \in Nat /\ Len(blocks') = n + 1 /\ Len(meant') = n + 1
      /\ blocks' \in Seq(Block) /\ meant' \in Seq(Meaning)
  BY <1>0, <1>a
<1>b. \A i \in 1..n : meant'[i] = meant[i] /\ blocks'[i] = blocks[i]
  BY <1>0, <1>1, <1>a
<1>2. \A i \in 0..n : TableAt(i)' = TableAt(i) /\ SentAt(i)' = SentAt(i)
  BY <1>1, <1>b DEF TableAt, SentAt
<1>3. /\ \A i \in {n + 1} : TableAt(i)' = newTable /\ SentAt(i)' = newSent
      /\ TableAt(Len(blocks))' = newTable /\ Sent' = newSent /\ table' = newTable
  <2>1. meant'[n + 1] = [table |-> newTable, sent |-> newSent]
    BY <1>0, <1>1, <1>a
  <2> QED BY <1>1, <1>a, <2>1 DEF TableAt, SentAt, Sent
<1>4. TypeOK'
  <2>1. /\ flushed \in 0..n /\ pos \in 0..flushed /\ n + 1 <= MaxBlocks
    BY <1>1, <1>a, CaptureFileAssumption DEF IInv, TypeOK
  <2> QED BY <1>1, <1>a, <2>1 DEF IInv, TypeOK
<1>5. MeantFollows'
  <2>1. ASSUME NEW i \in 1..n PROVE Follows(i)'
    <3>1. blocks'[i] = blocks[i] /\ Follows(i) /\ i \in 0..n /\ i - 1 \in 0..n
      BY <1>1, <1>a, <1>b DEF IInv, MeantFollows
    <3>2. /\ TableAt(i)' = TableAt(i) /\ SentAt(i)' = SentAt(i)
          /\ TableAt(i - 1)' = TableAt(i - 1) /\ SentAt(i - 1)' = SentAt(i - 1)
      BY <1>1, <1>b, <3>1 DEF TableAt, SentAt
    <3> QED BY <3>1, <3>2 DEF Follows
  <2>2. ASSUME NEW i \in {n + 1} PROVE Follows(i)'
    <3>1. TableAt(i - 1)' = table /\ SentAt(i - 1)' = Sent
      BY <1>1, <1>b DEF IInv, MeantFollows, TableAt, SentAt, Sent
    <3>2. blocks'[i] = b /\ (i = 1 => blocks = <<>>)
      BY <1>1, <1>a
    <3> QED BY <1>3, <3>1, <3>2 DEF Follows
  <2>3. \A i \in 1..n + 1 : Follows(i)'
    BY <1>1, <2>1, <2>2
  <2> QED BY <1>1, <1>3, <2>3 DEF MeantFollows
<1>6. SentGrows'
  <2> SUFFICES ASSUME NEW i \in 0..n + 1, NEW j \in 0..n + 1, i <= j
               PROVE Prefix(SentAt(i)', SentAt(j)')
    BY <1>1 DEF SentGrows, Prefix
  <2>1. CASE j <= n
    BY <2>1, <1>1, <1>2 DEF IInv, SentGrows
  <2>2. CASE i = n + 1
    BY <2>2, <1>1, <1>3 DEF Prefix
  <2>3. CASE i <= n /\ j = n + 1
    <3>1. Prefix(SentAt(i), Sent) /\ SentAt(i)' = SentAt(i)
      BY <2>3, <1>1, <1>2 DEF IInv, SentGrows, Sent
    <3>2. SentAt(i) \in Seq(Packet) /\ Sent \in Seq(Packet)
      BY <2>3, <1>1, MeantTypes DEF Sent
    <3> QED BY <3>1, <3>2, <2>3, <1>3, PrefixTransitive
  <2> QED BY <1>1, <2>1, <2>2, <2>3
<1>7. LoadFollows'
  <2>1. pos \in 0..n
    BY <1>1 DEF IInv, TypeOK
  <2> QED BY <1>1, <1>2, <1>a, <2>1 DEF IInv, LoadFollows
<1>8. DiskIsWhole'
  BY <1>1, <1>a DEF IInv, TypeOK, DiskIsWhole
<1>9. LoadedIsPrefix'
  <2>1. Sent \in Seq(Packet) /\ active \in Seq(Packet)
    BY <1>1, MeantTypes DEF IInv, TypeOK, Sent
  <2> QED BY <1>1, <1>3, <1>a, <2>1, PrefixTransitive DEF IInv, LoadedIsPrefix
<1>10. ClosedFileLoads'
  BY <1>1, <1>a DEF IInv, DiskIsWhole, ClosedFileLoads
<1> QED BY <1>4, <1>5, <1>6, <1>7, <1>8, <1>9, <1>10 DEF IInv

\* Each kind of write is understood.
LEMMA WriteKeepsIInv ==
  ASSUME IInv, Write
  PROVE  IInv'
<1>0. table \in Seq(Links) /\ Sent \in Seq(Packet) /\ Prefix(Sent, Sent)
  BY MeantTypes DEF IInv, TypeOK, Sent, Prefix
<1>1. CASE WriteSectionHeader
  <2> DEFINE b == [kind |-> "section"]
  <2>1. b \in Block /\ <<>> \in Seq(Links) /\ Emit(b, <<>>, Sent) /\ Means(b, table, Sent, <<>>, Sent)
    BY <1>0, <1>1 DEF Block, WriteSectionHeader, Means
  <2> QED BY <1>0, <2>1, EmitKeepsIInv
<1>2. ASSUME NEW link \in Links, WriteInterface(link) PROVE IInv'
  <2> DEFINE b == [kind |-> "interface", link |-> link]
             t == Append(table, link)
  <2>1. b \in Block /\ t \in Seq(Links) /\ Emit(b, t, Sent) /\ blocks # <<>>
    BY <1>0, <1>2 DEF Block, WriteInterface
  <2>2. Means(b, table, Sent, t, Sent)
    BY DEF Means
  <2> QED BY <1>0, <2>1, <2>2, EmitKeepsIInv
<1>3. ASSUME NEW id \in 0..MaxBlocks, NEW form \in Forms, WritePacket(id, form) PROVE IInv'
  <2> DEFINE b == [kind |-> "packet", id |-> id, form |-> form]
             p == [link |-> table[id + 1], form |-> form]
             s == Append(Sent, p)
  <2>1. id < Len(table) /\ id + 1 \in 1..Len(table) /\ id \in Nat /\ b \in Block
    BY <1>0, <1>3, CaptureFileAssumption DEF Block, WritePacket
  <2>2. p \in Packet
    BY <1>0, <2>1 DEF Packet
  <2>3. s \in Seq(Packet) /\ Prefix(Sent, s)
    BY <1>0, <2>2, PrefixGrows
  <2>4. Emit(b, table, s) /\ blocks # <<>> /\ Means(b, table, Sent, table, s)
    BY <1>3, <2>1 DEF WritePacket, Means, IdOf
  <2> QED BY <1>0, <2>1, <2>3, <2>4, EmitKeepsIInv
<1>4. ASSUME NEW form \in Forms, WriteSimple(form) PROVE IInv'
  <2> DEFINE b == [kind |-> "simple", form |-> form]
             p == [link |-> table[1], form |-> form]
             s == Append(Sent, p)
  <2>1. b \in Block /\ blocks # <<>>
    BY <1>4 DEF Block, WriteSimple
  <2>2. CASE table = <<>>
    <3>1. Emit(b, table, Sent) /\ Means(b, table, Sent, table, Sent)
      BY <1>4, <2>2 DEF WriteSimple, Means
    <3> QED BY <1>0, <2>1, <3>1, EmitKeepsIInv
  <2>3. CASE table # <<>>
    <3>1. 1 \in 1..Len(table) /\ 0 < Len(table)
      BY <1>0, <2>3
    <3>2. p \in Packet
      BY <1>0, <3>1 DEF Packet
    <3>3. s \in Seq(Packet) /\ Prefix(Sent, s)
      BY <1>0, <3>2, PrefixGrows
    <3>4. Emit(b, table, s) /\ Means(b, table, Sent, table, s)
      BY <1>4, <2>3, <3>1 DEF WriteSimple, Means, IdOf
    <3> QED BY <1>0, <2>1, <3>3, <3>4, EmitKeepsIInv
  <2> QED BY <2>2, <2>3
<1>5. CASE WriteOther
  <2> DEFINE b == [kind |-> "other"]
  <2>1. b \in Block /\ Emit(b, table, Sent) /\ blocks # <<>> /\ Means(b, table, Sent, table, Sent)
    BY <1>5 DEF Block, WriteOther, Means
  <2> QED BY <1>0, <2>1, EmitKeepsIInv
<1> QED BY <1>1, <1>2, <1>3, <1>4, <1>5 DEF Write

\* More of the blocks on disk changes nothing but how far a load may get.
LEMMA DiskKeepsIInv ==
  ASSUME IInv, UNCHANGED <<writerVars, loadVars>>,
         mode' \in {"open", "failing", "closed", "failed", "killed"}, mode # "closed",
         flushed' \in flushed..Len(blocks), torn' \in BOOLEAN,
         torn' => flushed' < Len(blocks),
         mode' = "closed" => flushed' = Len(blocks)
  PROVE  IInv'
<1>1. TypeOK'
  <2>1. pos \in 0..flushed' /\ flushed' \in 0..Len(blocks)
    BY DEF IInv, TypeOK
  <2> QED BY <2>1 DEF IInv, TypeOK, writerVars, loadVars
<1>2. MeantFollows'
  BY DEF IInv, MeantFollows, Follows, TableAt, SentAt, writerVars
<1>3. SentGrows' /\ LoadFollows' /\ LoadedIsPrefix'
  BY DEF IInv, SentGrows, LoadFollows, LoadedIsPrefix, TableAt, SentAt, Sent, writerVars, loadVars
<1>4. DiskIsWhole' /\ ClosedFileLoads'
  BY DEF IInv, DiskIsWhole, ClosedFileLoads, writerVars, loadVars
<1> QED BY <1>1, <1>2, <1>3, <1>4 DEF IInv

\* A step of the load that keeps LoadFollows, and ends as it should, if it ends.
LEMMA LoadKeepsIInv ==
  ASSUME IInv, UNCHANGED <<writerVars, diskVars>>,
         phase' \in {"idle", "reading"}, pos' \in 0..flushed, sealed' \in BOOLEAN,
         outcome' \in {"none", "loaded", "interface", "truncated", "malformed"},
         interfaces' \in Seq(Links), packets' \in Seq(Packet), active' \in Seq(Packet),
         LoadFollows', sealed' => mode = "closed", LoadedIsPrefix', ClosedFileLoads'
  PROVE  IInv'
<1>1. TypeOK'
  BY DEF IInv, TypeOK, writerVars, diskVars
<1>2. MeantFollows'
  BY DEF IInv, MeantFollows, Follows, TableAt, SentAt, writerVars
<1>3. SentGrows'
  BY DEF IInv, SentGrows, SentAt, writerVars
<1>4. DiskIsWhole'
  BY DEF IInv, DiskIsWhole, writerVars, diskVars
<1> QED BY <1>1, <1>2, <1>3, <1>4 DEF IInv

\* A load that ends without a capture.
LEMMA RefuseKeepsIInv ==
  ASSUME IInv, NEW reason \in {"interface", "truncated", "malformed"}, Refuse(reason),
         UNCHANGED <<writerVars, diskVars>>,
         sealed => \/ reason = "malformed" /\ \E k \in DOMAIN Sent : ~Decodable(Sent[k])
                   \/ reason = "interface" /\ \E i \in DOMAIN blocks : Homeless(i)
  PROVE  IInv'
<1>1. <<>> \in Seq(Links) /\ <<>> \in Seq(Packet) /\ 0 \in 0..flushed
  BY DEF IInv, TypeOK
<1>2. LoadFollows' /\ LoadedIsPrefix'
  BY DEF IInv, Refuse, End, LoadFollows, LoadedIsPrefix, Sent, SentAt, writerVars
<1>3. ClosedFileLoads'
  BY DEF Refuse, End, ClosedFileLoads, Sent, SentAt, Homeless, TableAt, writerVars
<1>4. /\ phase' = "idle" /\ pos' = 0 /\ interfaces' = <<>> /\ packets' = <<>>
      /\ outcome' = reason /\ UNCHANGED <<sealed, active>>
  BY DEF Refuse, End
<1>5. /\ active' \in Seq(Packet) /\ sealed' \in BOOLEAN /\ (sealed' => mode = "closed")
      /\ outcome' \in {"none", "loaded", "interface", "truncated", "malformed"}
  BY <1>4 DEF IInv, TypeOK, DiskIsWhole
<1> QED BY <1>1, <1>2, <1>3, <1>4, <1>5, LoadKeepsIInv

\* What the load knows when it meets its next block.
LEMMA NextBlock ==
  ASSUME IInv, phase = "reading", pos < flushed
  PROVE  /\ pos \in Nat /\ pos + 1 \in DOMAIN blocks /\ pos + 1 \in 0..flushed
         /\ interfaces = TableAt(pos) /\ packets = SentAt(pos)
         /\ Means(blocks[pos + 1], interfaces, packets, TableAt(pos + 1), SentAt(pos + 1))
<1>1. pos \in Nat /\ pos + 1 \in DOMAIN blocks /\ pos + 1 \in 0..flushed /\ (pos + 1) - 1 = pos
  BY DEF IInv, TypeOK
<1>2. Follows(pos + 1)
  BY <1>1 DEF IInv, MeantFollows
<1> QED BY <1>1, <1>2 DEF IInv, LoadFollows, Follows

\* The load reads a block as the writer meant it.
LEMMA ReadKeepsIInv ==
  ASSUME IInv, ReadBlock
  PROVE  IInv'
<1> DEFINE b == blocks[pos + 1]
<1>1. /\ phase = "reading" /\ pos < flushed /\ ~Dangles(b) /\ pos' = pos + 1
      /\ CASE b.kind = "section" -> TakeSection
           [] b.kind = "interface" -> TakeInterface(b.link)
           [] b.kind = "other" -> UNCHANGED <<interfaces, packets>>
           [] OTHER -> TakePacket(IdOf(b), b.form)
      /\ UNCHANGED <<phase, sealed, outcome, active, writerVars, diskVars>>
  BY DEF ReadBlock
<1>2. /\ pos + 1 \in DOMAIN blocks /\ pos + 1 \in 0..flushed
      /\ Means(b, interfaces, packets, TableAt(pos + 1), SentAt(pos + 1))
  BY <1>1, NextBlock
<1>3. b.kind \in {"section", "interface", "other", "packet", "simple"}
  <2>1. b \in Block
    BY <1>2 DEF IInv, TypeOK
  <2> QED BY <2>1 DEF Block
<1>4. interfaces' = TableAt(pos + 1) /\ packets' = SentAt(pos + 1)
  <2>1. ~(b.kind = "simple" /\ interfaces = <<>>)
    BY <1>1 DEF Dangles, IdOf
  <2> HIDE DEF b
  <2> QED BY <1>1, <1>2, <1>3, <2>1 DEF Means, TakeSection, TakeInterface, TakePacket
<1>5. pos + 1 \in 0..Len(blocks)
  BY <1>2 DEF IInv, TypeOK
<1>6. interfaces' \in Seq(Links) /\ packets' \in Seq(Packet)
  BY <1>4, <1>5, MeantTypes
<1>7. LoadFollows'
  BY <1>1, <1>4 DEF LoadFollows, TableAt, SentAt, writerVars
<1>8. LoadedIsPrefix' /\ ClosedFileLoads'
  BY <1>1 DEF IInv, LoadedIsPrefix, ClosedFileLoads, Sent, SentAt, writerVars
<1>9. /\ phase' \in {"idle", "reading"} /\ pos' \in 0..flushed /\ sealed' \in BOOLEAN
      /\ outcome' \in {"none", "loaded", "interface", "truncated", "malformed"}
      /\ active' \in Seq(Packet) /\ (sealed' => mode = "closed")
  BY <1>1, <1>2 DEF IInv, TypeOK, DiskIsWhole
<1> QED BY <1>1, <1>6, <1>7, <1>8, <1>9, LoadKeepsIInv

\* Only a simple packet in a section without an interface dangles.
LEMMA DanglingKeepsIInv ==
  ASSUME IInv, ReadDangling
  PROVE  IInv'
<1> DEFINE b == blocks[pos + 1]
<1>1. phase = "reading" /\ pos < flushed /\ Dangles(b) /\ Refuse("interface")
      /\ UNCHANGED <<writerVars, diskVars>>
  BY DEF ReadDangling
<1>2. /\ pos \in Nat /\ pos + 1 \in DOMAIN blocks
      /\ Means(b, interfaces, packets, TableAt(pos + 1), SentAt(pos + 1))
  BY <1>1, NextBlock
<1>3. b.kind = "simple" /\ interfaces = <<>> /\ TableAt(pos + 1) = <<>>
  <2>1. Len(interfaces) \in Nat /\ (Len(interfaces) = 0 => interfaces = <<>>)
    BY DEF IInv, TypeOK
  <2>2. b \in Block
    BY <1>2 DEF IInv, TypeOK
  <2>3. CASE b.kind = "packet"
    <3>1. b.id \in Nat
      BY <2>2, <2>3 DEF Block
    <3> HIDE DEF b
    <3>2. IdOf(b) = b.id /\ IdOf(b) < Len(interfaces)
      BY <1>2, <2>3 DEF Means, IdOf
    <3> QED BY <1>1, <2>1, <3>1, <3>2 DEF Dangles
  <2>4. CASE b.kind = "simple"
    <3> HIDE DEF b
    <3>1. interfaces = <<>>
      BY <1>1, <2>1, <2>4 DEF Dangles, IdOf
    <3> QED BY <1>2, <2>4, <3>1 DEF Means
  <2> QED BY <1>1, <2>3, <2>4 DEF Dangles
<1>4. Homeless(pos + 1)
  BY <1>3 DEF Homeless
<1> QED BY <1>1, <1>2, <1>4, RefuseKeepsIInv

\* A load that reaches the end of the file.
LEMMA EndKeepsIInv ==
  ASSUME IInv, ReadTruncated \/ ReadEnd
  PROVE  IInv'
<1>1. /\ phase = "reading" /\ pos = flushed /\ packets = SentAt(pos)
      /\ UNCHANGED <<writerVars, diskVars>> /\ pos \in 0..Len(blocks)
  BY DEF IInv, TypeOK, LoadFollows, ReadTruncated, ReadEnd
<1>2. sealed => ~torn /\ packets = Sent
  BY <1>1 DEF IInv, DiskIsWhole, TypeOK, Sent
<1>3. CASE ReadTruncated
  BY <1>1, <1>2, <1>3, RefuseKeepsIInv DEF ReadTruncated
<1>4. CASE ReadEnd /\ ~(\A k \in DOMAIN packets : Decodable(packets[k]))
  <2>1. Refuse("malformed") /\ \E k \in DOMAIN packets : ~Decodable(packets[k])
    BY <1>4 DEF ReadEnd
  <2>2. sealed => \E k \in DOMAIN Sent : ~Decodable(Sent[k])
    BY <1>2, <2>1
  <2> QED BY <1>1, <2>1, <2>2, RefuseKeepsIInv
<1>5. CASE ReadEnd /\ \A k \in DOMAIN packets : Decodable(packets[k])
  <2>1. End("loaded") /\ active' = packets
    BY <1>5 DEF ReadEnd
  <2>2. LoadFollows'
    BY <2>1 DEF End, LoadFollows
  <2>3. LoadedIsPrefix'
    <3>1. Prefix(packets, Sent)
      BY <1>1 DEF IInv, TypeOK, SentGrows, Sent
    <3> QED BY <1>1, <2>1, <3>1 DEF LoadedIsPrefix, Sent, SentAt, writerVars
  <2>4. ClosedFileLoads'
    BY <1>1, <1>2, <2>1 DEF End, ClosedFileLoads, Sent, SentAt, writerVars
  <2>5. /\ <<>> \in Seq(Links) /\ <<>> \in Seq(Packet) /\ 0 \in 0..flushed
        /\ packets \in Seq(Packet) /\ sealed \in BOOLEAN /\ (sealed => mode = "closed")
    BY DEF IInv, TypeOK, DiskIsWhole
  <2>6. /\ phase' = "idle" /\ pos' = 0 /\ interfaces' = <<>> /\ packets' = <<>>
        /\ outcome' = "loaded" /\ sealed' = sealed
    BY <2>1 DEF End
  <2> QED BY <1>1, <2>1, <2>2, <2>3, <2>4, <2>5, <2>6, LoadKeepsIInv
<1> QED BY <1>3, <1>4, <1>5

\* A load that begins.
LEMMA BeginKeepsIInv ==
  ASSUME IInv, BeginLoad
  PROVE  IInv'
<1>1. /\ phase' = "reading" /\ sealed' = (mode = "closed") /\ pos = 0
      /\ UNCHANGED <<pos, interfaces, packets, outcome, active, writerVars, diskVars>>
  BY DEF IInv, BeginLoad, LoadFollows
<1>2. LoadFollows' /\ LoadedIsPrefix' /\ ClosedFileLoads'
  BY <1>1 DEF IInv, BeginLoad, LoadFollows, LoadedIsPrefix, ClosedFileLoads, TableAt, SentAt, Sent,
     writerVars
<1>3. /\ pos \in 0..flushed /\ interfaces \in Seq(Links) /\ packets \in Seq(Packet)
      /\ active \in Seq(Packet) /\ outcome \in {"none", "loaded", "interface", "truncated", "malformed"}
  BY DEF IInv, TypeOK
<1> QED BY <1>1, <1>2, <1>3, LoadKeepsIInv

LEMMA NextIInv == IInv /\ [Next]_vars => IInv'
<1> SUFFICES ASSUME IInv, [Next]_vars PROVE IInv'
  OBVIOUS
<1>1. CASE Write
  BY <1>1, WriteKeepsIInv
<1>2. CASE Flush \/ WriteFails \/ CloseFails
  <2>1. mode # "closed" /\ mode' \in {"open", "failing", "failed"} /\ UNCHANGED <<writerVars, loadVars>>
    BY <1>2 DEF Flush, WriteFails, CloseFails
  <2>2. PICK k \in flushed..Len(blocks), p \in BOOLEAN : Reaches(k, p)
    BY <1>2 DEF Flush, WriteFails, CloseFails
  <2> QED BY <2>1, <2>2, DiskKeepsIInv DEF Reaches
<1>3. CASE Close
  <2>1. Len(blocks) \in flushed..Len(blocks)
    BY DEF IInv, TypeOK
  <2>2. /\ mode # "closed" /\ mode' \in {"closed", "failed"} /\ UNCHANGED <<writerVars, loadVars>>
        /\ flushed' = Len(blocks) /\ torn' = FALSE
    BY <1>3 DEF Close
  <2> QED BY <2>1, <2>2, DiskKeepsIInv
<1>4. CASE Kill
  <2>1. flushed \in flushed..Len(blocks) /\ torn \in BOOLEAN /\ (torn => flushed < Len(blocks))
    BY DEF IInv, TypeOK, DiskIsWhole
  <2> QED BY <1>4, <2>1, DiskKeepsIInv DEF Kill
<1>5. CASE BeginLoad
  BY <1>5, BeginKeepsIInv
<1>6. CASE ReadBlock
  BY <1>6, ReadKeepsIInv
<1>7. CASE ReadDangling
  BY <1>7, DanglingKeepsIInv
<1>8. CASE ReadTruncated \/ ReadEnd
  BY <1>8, EndKeepsIInv
<1>9. CASE UNCHANGED vars
  <2>1. TypeOK'
    BY <1>9 DEF IInv, TypeOK, vars, writerVars, diskVars, loadVars
  <2>2. MeantFollows' /\ SentGrows' /\ LoadFollows'
    BY <1>9 DEF IInv, MeantFollows, Follows, SentGrows, LoadFollows, TableAt, SentAt, vars, writerVars,
       loadVars
  <2>3. DiskIsWhole' /\ LoadedIsPrefix' /\ ClosedFileLoads'
    BY <1>9 DEF IInv, DiskIsWhole, LoadedIsPrefix, ClosedFileLoads, Homeless, TableAt, SentAt, Sent, vars,
       writerVars, diskVars, loadVars
  <2> QED BY <2>1, <2>2, <2>3 DEF IInv
<1> QED BY <1>1, <1>2, <1>3, <1>4, <1>5, <1>6, <1>7, <1>8, <1>9 DEF Next

(***************************************************************************)
(* The inductive invariant of writer, file and loader (pcapng_writer.py,   *)
(* pcapng_reader.py, session.py), for files of any length.                 *)
(***************************************************************************)
THEOREM Invariance == Spec => []IInv
  BY InitIInv, NextIInv, PTL DEF Spec

(***************************************************************************)
(* However the writing ended, what a load makes the active capture is a    *)
(* prefix of the packets that were written, on the interfaces that the     *)
(* writer meant.                                                           *)
(***************************************************************************)
THEOREM LoadsArePrefixes == Spec => []LoadedIsPrefix
<1>1. IInv => LoadedIsPrefix
  BY DEF IInv
<1> QED BY <1>1, Invariance, PTL

(***************************************************************************)
(* A file that was closed without an error loads whole, unless one of its  *)
(* packets cannot be decoded or has no interface.                          *)
(***************************************************************************)
THEOREM ClosedFilesLoad == Spec => []ClosedFileLoads
<1>1. IInv => ClosedFileLoads
  BY DEF IInv
<1> QED BY <1>1, Invariance, PTL
=============================================================================
