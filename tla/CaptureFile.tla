----------------------------- MODULE CaptureFile -----------------------------
(***************************************************************************)
(* A capture file on its way to disk and back: the block writer            *)
(* (pcapng_writer.py) over a buffered file, the file as a kill or a full   *)
(* disk leaves it, the block reader (pcapng_reader.py) and the loader      *)
(* (session.py) which turns blocks into the active capture.                *)
(*                                                                         *)
(* The writer is driven by any client that follows the rules of the        *)
(* format, as other capture programs do.  capture() (sniffer.py) is the    *)
(* client that writes one section header, one interface and then packets   *)
(* until it closes the file.                                               *)
(*                                                                         *)
(* The file is its blocks and how much of them is on disk: so many whole   *)
(* blocks, and whether a part of the next one.  A block's bytes, options   *)
(* and time stamps are left out.  A packet is the link type of the         *)
(* interface it was captured on and what decode_urb makes of its data: a   *)
(* record, isochronous, or malformed.                                      *)
(***************************************************************************)
EXTENDS Naturals, Sequences

CONSTANTS
  Links,       \* link types in use
  UsbLinks,    \* those decode_urb knows: the two of usbmon
  Forms,       \* what the data of a packet are
  MaxBlocks    \* bound: blocks in the file

ASSUME CaptureFileAssumption ==
  /\ UsbLinks \subseteq Links
  /\ Forms \subseteq {"urb", "iso", "bad"}
  /\ MaxBlocks \in Nat

VARIABLES
  blocks,      \* the blocks handed to the stream
  table,       \* the link types of the interfaces of the writer's section
  mode,        \* the stream: open, failing, closed, failed or killed
  flushed,     \* whole blocks on disk
  torn,        \* a part of the block after them is on disk, too
  meant,       \* auxiliary: table and packets written, after each block
  phase,       \* the load: idle or reading
  pos,         \* the load: blocks read
  interfaces,  \* the load: current_section_interfaces, by link type
  packets,     \* the load: packets
  sealed,      \* auxiliary: the load began after the file was closed
  outcome,     \* how the last load ended
  active       \* Session.capture: the packets of the last load that succeeded

writerVars == <<blocks, table, meant>>
diskVars == <<mode, flushed, torn>>
loadVars == <<phase, pos, interfaces, packets, sealed, outcome, active>>
vars == <<writerVars, diskVars, loadVars>>

-----------------------------------------------------------------------------
Packet == [link : Links, form : Forms]
Block ==
  [kind : {"section", "other"}] \cup [kind : {"interface"}, link : Links]
    \cup [kind : {"packet"}, id : Nat, form : Forms] \cup [kind : {"simple"}, form : Forms]

Meaning == [table : Seq(Links), sent : Seq(Packet)]

\* What the writer meant with the first i blocks.
TableAt(i) == IF i = 0 THEN <<>> ELSE meant[i].table
SentAt(i) == IF i = 0 THEN <<>> ELSE meant[i].sent
Sent == SentAt(Len(blocks))

Init ==
  /\ blocks = <<>> /\ table = <<>> /\ meant = <<>>
  /\ mode = "open" /\ flushed = 0 /\ torn = FALSE
  /\ phase = "idle" /\ pos = 0 /\ interfaces = <<>> /\ packets = <<>>
  /\ sealed = FALSE /\ outcome = "none" /\ active = <<>>

-----------------------------------------------------------------------------
(* The writer *)

\* _write_block: the block goes to the stream, which keeps it for later.
Emit(block, newTable, newSent) ==
  /\ mode = "open"
  /\ Len(blocks) < MaxBlocks
  /\ blocks' = Append(blocks, block)
  /\ table' = newTable
  /\ meant' = Append(meant, [table |-> newTable, sent |-> newSent])
  /\ UNCHANGED <<diskVars, loadVars>>

\* write_section_header: the first block, and the first of each new section.
WriteSectionHeader == Emit([kind |-> "section"], <<>>, Sent)

\* write_interface_description: the id it returns is the old interface_count.
WriteInterface(link) ==
  /\ blocks # <<>>
  /\ Emit([kind |-> "interface", link |-> link], Append(table, link), Sent)

\* Mutant: any id that was ever handed out passes the test.
WritePacketUnchecked(id, form) ==
  /\ blocks # <<>>
  /\ id < Len(blocks)
  /\ Emit([kind |-> "packet", id |-> id, form |-> form], table,
          IF id < Len(table) THEN Append(Sent, [link |-> table[id + 1], form |-> form]) ELSE Sent)

\* write_enhanced_packet, for an id it knows.
WritePacket(id, form) ==
  /\ blocks # <<>>
  /\ id < Len(table)
  /\ Emit([kind |-> "packet", id |-> id, form |-> form], table,
          Append(Sent, [link |-> table[id + 1], form |-> form]))

\* Blocks bsu-tool never writes but reads: packets without an id, which belong
\* to the first interface even if a careless program wrote none, and
\* statistics and unknown blocks.
WriteSimple(form) ==
  /\ blocks # <<>>
  /\ Emit([kind |-> "simple", form |-> form], table,
          IF table = <<>> THEN Sent ELSE Append(Sent, [link |-> table[1], form |-> form]))

WriteOther ==
  /\ blocks # <<>>
  /\ Emit([kind |-> "other"], table, Sent)

-----------------------------------------------------------------------------
(* The buffered stream *)

\* More of the blocks is on disk than before; p says if a block is cut.
Reaches(n, p) ==
  /\ n \in flushed..Len(blocks)
  /\ p => n < Len(blocks)
  /\ n > flushed \/ p \/ ~torn
  /\ flushed' = n
  /\ torn' = p

\* The stream hands bytes to the operating system, in the middle of a block
\* if the block or the buffer is large.
Flush ==
  /\ mode = "open"
  /\ \E n \in flushed..Len(blocks), p \in BOOLEAN : Reaches(n, p)
  /\ <<flushed, torn>>' # <<flushed, torn>>
  /\ UNCHANGED <<mode, writerVars, loadVars>>

\* A write fails: the client's with block is left and closes the stream.
WriteFails ==
  /\ mode = "open"
  /\ mode' = "failing"
  /\ \E n \in flushed..Len(blocks), p \in BOOLEAN : Reaches(n, p)
  /\ UNCHANGED <<writerVars, loadVars>>

\* close() flushes what is left ...
Close ==
  /\ mode \in {"open", "failing"}
  /\ mode' = IF mode = "open" THEN "closed" ELSE "failed"
  /\ flushed' = Len(blocks)
  /\ torn' = FALSE
  /\ UNCHANGED <<writerVars, loadVars>>

\* ... or fails in it.
CloseFails ==
  /\ mode \in {"open", "failing"}
  /\ mode' = "failed"
  /\ \E n \in flushed..Len(blocks), p \in BOOLEAN : Reaches(n, p)
  /\ UNCHANGED <<writerVars, loadVars>>

\* The process is killed: what the buffer holds is lost.
Kill ==
  /\ mode \in {"open", "failing"}
  /\ mode' = "killed"
  /\ UNCHANGED <<flushed, torn, writerVars, loadVars>>

-----------------------------------------------------------------------------
(* The loader, in another process if the stream is open *)

BeginLoad ==
  /\ phase = "idle"
  /\ phase' = "reading"
  /\ sealed' = (mode = "closed")
  /\ UNCHANGED <<pos, interfaces, packets, outcome, active, writerVars, diskVars>>

\* The load ends; its locals are gone.
End(result) ==
  /\ phase' = "idle"
  /\ pos' = 0
  /\ interfaces' = <<>>
  /\ packets' = <<>>
  /\ outcome' = result
  /\ UNCHANGED sealed

\* _load_capture raises: the old capture stays.
Refuse(reason) == End(reason) /\ UNCHANGED active

\* Mutant: the loader numbers the interfaces of the file, not of the section.
TakeSectionKeeps == UNCHANGED <<interfaces, packets>>

TakeSection == interfaces' = <<>> /\ UNCHANGED packets

TakeInterface(link) == interfaces' = Append(interfaces, link) /\ UNCHANGED packets

\* _capture_enhanced_packet, or _capture_simple_packet with id 0.
TakePacket(id, form) ==
  /\ packets' = Append(packets, [link |-> interfaces[id + 1], form |-> form])
  /\ UNCHANGED interfaces

IdOf(b) == IF b.kind = "packet" THEN b.id ELSE 0

\* _interface_for_packet raises.
Dangles(b) == b.kind \in {"packet", "simple"} /\ IdOf(b) >= Len(interfaces)

\* The loader takes the next block from the reader.
ReadBlock ==
  /\ phase = "reading"
  /\ pos < flushed
  /\ LET b == blocks[pos + 1] IN
       /\ ~Dangles(b)
       /\ CASE b.kind = "section" -> TakeSection
            [] b.kind = "interface" -> TakeInterface(b.link)
            [] b.kind = "other" -> UNCHANGED <<interfaces, packets>>
            [] OTHER -> TakePacket(IdOf(b), b.form)
  /\ pos' = pos + 1
  /\ UNCHANGED <<phase, sealed, outcome, active, writerVars, diskVars>>

ReadDangling ==
  /\ phase = "reading"
  /\ pos < flushed
  /\ Dangles(blocks[pos + 1])
  /\ Refuse("interface")
  /\ UNCHANGED <<writerVars, diskVars>>

\* decode_urb takes the packet, if only to skip it as isochronous.
Decodable(p) == p.link \in UsbLinks /\ p.form # "bad"

\* The file ends in the middle of a block.
ReadTruncated ==
  /\ phase = "reading"
  /\ pos = flushed /\ torn
  /\ Refuse("truncated")
  /\ UNCHANGED <<writerVars, diskVars>>

\* The file ends after a block: all packets are decoded before the active
\* capture is replaced.
ReadEnd ==
  /\ phase = "reading"
  /\ pos = flushed /\ ~torn
  /\ IF \A k \in DOMAIN packets : Decodable(packets[k])
     THEN End("loaded") /\ active' = packets
     ELSE Refuse("malformed")
  /\ UNCHANGED <<writerVars, diskVars>>

-----------------------------------------------------------------------------
Write ==
  \/ WriteSectionHeader
  \/ \E link \in Links : WriteInterface(link)
  \/ \E id \in 0..MaxBlocks, form \in Forms : WritePacket(id, form)
  \/ \E form \in Forms : WriteSimple(form)
  \/ WriteOther

Next ==
  \/ Write
  \/ Flush \/ WriteFails \/ Close \/ CloseFails \/ Kill
  \/ BeginLoad \/ ReadBlock \/ ReadDangling \/ ReadTruncated \/ ReadEnd

Spec == Init /\ [][Next]_vars

-----------------------------------------------------------------------------
Prefix(s, t) == Len(s) <= Len(t) /\ \A k \in DOMAIN s : s[k] = t[k]

TypeOK ==
  /\ blocks \in Seq(Block)
  /\ Len(blocks) <= MaxBlocks
  /\ table \in Seq(Links)
  /\ meant \in Seq(Meaning)
  /\ mode \in {"open", "failing", "closed", "failed", "killed"}
  /\ flushed \in 0..Len(blocks)
  /\ torn \in BOOLEAN
  /\ phase \in {"idle", "reading"}
  /\ pos \in 0..flushed
  /\ interfaces \in Seq(Links)
  /\ packets \in Seq(Packet)
  /\ sealed \in BOOLEAN
  /\ outcome \in {"none", "loaded", "interface", "truncated", "malformed"}
  /\ active \in Seq(Packet)

\* Whenever and however the writing ended, and whenever the load was made, a
\* capture that is loaded is a prefix of the packets that were written, each
\* on the interface that the writer meant: interface ids count from 0 in
\* every section (session.py:385), and a file cut in a block is refused.
LoadedIsPrefix == Prefix(active, Sent)

\* A simple packet in a section without an interface.
Homeless(i) == blocks[i].kind = "simple" /\ TableAt(i) = <<>>

\* A file that was closed without an error loads whole; it is refused only if
\* one of its packets cannot be decoded or has no interface.
ClosedFileLoads ==
  sealed /\ phase = "idle" =>
    \/ outcome = "loaded" /\ active = Sent
    \/ outcome = "malformed" /\ \E k \in DOMAIN Sent : ~Decodable(Sent[k])
    \/ outcome = "interface" /\ \E i \in DOMAIN blocks : Homeless(i)

-----------------------------------------------------------------------------
(* What makes these inductive *)

\* What block b means after table t0 and packets s0 ...
Means(b, t0, s0, t, s) ==
  CASE b.kind = "section" -> t = <<>> /\ s = s0
    [] b.kind = "interface" -> t = Append(t0, b.link) /\ s = s0
    [] b.kind = "other" \/ (b.kind = "simple" /\ t0 = <<>>) -> t = t0 /\ s = s0
    [] OTHER -> /\ IdOf(b) < Len(t0)
                /\ t = t0
                /\ s = Append(s0, [link |-> t0[IdOf(b) + 1], form |-> b.form])

\* ... is what was recorded for block i ...
Follows(i) ==
  /\ i = 1 => blocks[i].kind = "section"
  /\ Means(blocks[i], TableAt(i - 1), SentAt(i - 1), TableAt(i), SentAt(i))

MeantFollows ==
  /\ Len(meant) = Len(blocks)
  /\ table = TableAt(Len(blocks))
  /\ \A i \in DOMAIN blocks : Follows(i)

\* ... and the packets only grow in number.
SentGrows == \A i, j \in 0..Len(blocks) : i <= j => Prefix(SentAt(i), SentAt(j))

\* The load has understood the blocks it read.
LoadFollows ==
  /\ phase = "reading" => interfaces = TableAt(pos) /\ packets = SentAt(pos)
  /\ phase = "idle" => pos = 0 /\ interfaces = <<>> /\ packets = <<>>

\* What is on disk once the stream is closed.
DiskIsWhole ==
  /\ torn => flushed < Len(blocks)
  /\ mode = "closed" => flushed = Len(blocks)
  /\ sealed => mode = "closed"

\* The inductive invariant.
IInv ==
  /\ TypeOK
  /\ MeantFollows
  /\ SentGrows
  /\ LoadFollows
  /\ DiskIsWhole
  /\ LoadedIsPrefix
  /\ ClosedFileLoads

=============================================================================
