# A formal model of bsu-tool

bsu-tool records the traffic of a USB device through the Linux kernel's usbmon,
and turns the recording into a description of the device's protocol. An analyst
uses it through MCP servers that a language model drives: one for capture and
analysis (`bsu_tool/mcp`), one through which the model asks the analyst to press
a button or plug a cable (`bsu_tool/guided`), and a command line
(`bsu_tool/__main__.py`).

This directory holds TLA+ models of the parts of that program that are hard to
get right and hard to test, TLC configurations that check them on small
instances, and TLAPS proofs for all values of their constants. Every definition
is translated from the source; `PROJECT.json` maps each to its lines. Line
numbers below are those of this commit, paths are relative to `bsu_tool/`.

1. [The system](#1-the-system)
2. [The modules](#2-the-modules)
3. [The runs](#3-the-runs)
4. [Fairness, deadlock and bounds](#4-fairness-deadlock-and-bounds)
5. [The proofs](#5-the-proofs)
6. [Where the code disagrees with what it says](#6-where-the-code-disagrees-with-what-it-says)
7. [What is not modelled](#7-what-is-not-modelled)
8. [The plan](#8-the-plan)

## 1. The system

### Processes, threads and shared state

| thread | runs | shares with the others |
| --- | --- | --- |
| event loop of the MCP server | tools, one call at a time with the SDK's dispatch of synchronous tools | the `Session` object |
| worker threads of tool calls | tools, if calls are dispatched to threads: what the session's lock, the tests with a `ThreadPoolExecutor` and the comment at `guided/human.py:82` are written for | the `Session` object |
| capture thread, one per `start_capture` | `sniffer._run` and `capture()` | events `_ready`, `_stop`, `_finished` and the field `_exc` of its `CaptureController`; the output file |
| worker thread of a question | `ask_human` on the terminal | the terminal |
| other programs, the kernel, the analyst | write files, reuse URB ids, press ctrl-d, unplug | files, usbmon, the terminal |

### Components

For each: its state, its operations, what is hard, and what makes it correct.

**Live-capture session slot and tools** (`session.py:305-400`,
`mcp/tools/live_capture.py`, `mcp/tools/capture.py`). *State:* the
slot (`live_capture`), its phase (`starting`, `running`, `stopping`), the active
loaded capture, a lock around slot and phase only. *Operations:* reserve, mark
running, begin stop, release, load, load stopped; the tools `start_capture`,
`stop_capture`, `load_capture`. *Hard:* every tool has a `try`/`finally` that
decides from what the capture thread happens to be doing whether to keep the
slot; the lock is not held while a file is read. *Correct if* one capture runs at
a time, no call works on another call's claim, a capture whose start or stop
failed is neither lost nor holds the slot for ever, and a stop summarizes what
it stopped.

**Capture controller and capture thread** (`sniffer.py`). *State:* three events,
an exception, the thread. *Operations:* `start`, `stop`, `_run`, `capture`.
*Hard:* timeouts race with the events they wait for; `_finished` is set before
the thread is gone; a stop may come at any moment of the startup; the output is
created exclusively and removed on a failed start. *Correct if* what it reports
is true, and no file is overwritten or removed that is not its own.

**usbmon source** (`usbmon_source.py`). *State:* a file descriptor and buffers.
*Operations:* open, next, close. *Hard:* open may hang in the kernel; the poll
loop has to look at the stop event. *Correct if* a stop ends the recording.

**pcap-ng writer and reader** (`pcapng_writer.py`, `pcapng_reader.py`). *State:* a
file and, in the reader, interfaces by section. *Hard:* a crash, kill or full
disk in the middle of a block; several sections. *Correct if* what was written
is read back, and a file cut anywhere is told from a whole one.

**Capture loader** (`session.py:358-417`). *State:* the active capture. *Correct
if* a load replaces all of the capture or nothing.

**URB decoder** (`urb_decoder.py`). *State* of `pair_urbs`: pending submissions
by URB id. *Hard:* the kernel reuses URB ids, a capture starts and ends in the
middle of the traffic and misses records. *Correct if* a transfer whose two
records are in the file comes back as one transaction, and no record is lost.

**Enumeration classifier** (`session.py:1578-1602`). *State:* the open ep0
request by URB id. *Hard:* it pairs the records a second time, by itself.
*Correct if* both records of a request are classified alike and truly.

**Device identity and summaries** (`session.py:1125-1446`, `device_identity.py`).
*State:* none, a pass over the capture. *Hard:* addresses are reused and
reassigned on replug; two units of one model; several devices at address 0.
*Correct if* traffic is credited to the device it came from.

**Markers, packet queries and pagination** (`session.py:417-1120`,
`mcp/tools/markers.py`, `packets.py`, `pagination.py`). *State:* the markers of
the active capture. *Hard:* addresses, identities and pages have to be counted in the same way.
*Correct if* what a client reads page by page is what the summary counted.

**Repeated-sequence analyzer** (`analyzer.py`). *State:* none. *Hard:*
overlapping occurrences, subsumption, limits. *Correct if* a sequence that is
dropped is represented by one that is kept.

**Command/response pairing** (`analysis/pairing.py`). *State:* per device and
transfer type a deque of pending commands. *Hard:* failed and successful
commands in one queue, the timeout window, equal time stamps, the end of the
capture. *Correct if* pairs are plausible and what is reported as an
anomaly is one.

**Protocol description** (`analysis/description.py`, `models.py`). *State:* none,
an assembly of the other passes.

**Analyst channel** (`guided/human.py`). *State:* the turn lock, the latched
abort, the terminal. *Operations:* `ask`, `ask_human`. *Hard:* calls overlap and
are cancelled while a blocking read runs in a thread; the terminal goes away.
*Correct if* an answer reaches its question, an ended session stays ended, and
every call returns.

**MCP server, analysis and device tools** (`mcp/server.py`, `mcp/tools/`).
Registration and result records.

**Device detection, sysfs enumeration** (`detect_device.py`, `usb_enum.py`). The
difference of two sysfs snapshots around a key press.

**USB descriptors** (`descriptors.py`), **command line and its JSON session**
(`__main__.py`, `sniff_command.py`), **sanitizer, setup script, tests, docs**.
Byte parsers, argument parsing and printing, and what is not part of the
running program.

### Interactions

```
 start_capture ─reserve─► slot ◄─begin stop── stop_capture ─load─► active capture
      │                    ▲ mark / release (finally)                  ▲      │
      └──start/wait──► controller ◄──signal/join──┘      load_capture ─┘      │ read by
                           │ _ready _stop _finished _exc                      ▼
                      capture thread ──► output file ──► reader ─► pair_urbs, classifier
                           │                                           ▼
                        usbmon                            pairing, sequences, description

 wait_for_human ─► turn lock ─► worker thread ─► terminal ─► analyst
```

## 2. The modules

| module | models | proofs |
| --- | --- | --- |
| `CaptureLease` | the abstract promise of the slot | |
| `LiveCapture` | slot, tools, controller, capture thread, files | `LiveCaptureProofs` |
| `HumanChannel` | the analyst channel | `HumanChannelProofs` |
| `UrbPairing` | `pair_urbs` and the enumeration classifier over the traffic of a bus | `UrbPairingProofs` |
| `CommandPairing` | the pairing pass of one device | `CommandPairingProofs` |
| `CaptureFile` | writer, buffered file, reader and loader | `CaptureFileProofs` |
| `DeviceIdentity` | a bus whose devices come, move and go, and everything the code derives from the addresses in its capture | `DeviceIdentityProofs` |
| `Normalization` | the tokens of the analyzer (operators only) | |
| `RepeatedSequences` | detection of repeated sequences in any streams of tokens | `ProtocolAnalysisProofs` |
| `ProtocolAnalysis` | from a log and its markers to the description; composes the two above | `ProtocolAnalysisProofs` |
| | order in finite sets: what the last two proof modules share | `OrderLemmas` |

`MCLiveCapture`, `MCHumanChannel`, `MCUrbPairing`, `MCCommandPairing`, `MCCaptureFile`,
`MCDeviceIdentity` and `MCProtocolAnalysis` instantiate them for TLC.
Definitions whose comment begins with "Mutant" are no part of a specification: each is a
plausible bug in the definition below it, kept to show that a property can fail.

### LiveCapture

A *worker* is a thread that executes tool calls; `pc[w]` is where it is, `claim[w]`
and `verdict[w]` are the tool's locals. A step ends where another thread can first
see its effect, so each locked region, each test of an event and each `is_alive()` is one
action. A *capture* is a `LiveCapture` object with its controller and thread.

| action | code |
| --- | --- |
| `Reserve` | `Session.reserve_live_capture`, with the suffix checked before |
| `Launch`, `LaunchFails` | `Thread.start()` in `CaptureController.start`, which may raise |
| `WaitReturns`, `WaitExpires`, `CheckReady`, `CheckExc` | `_wait_ready` and what `start` does after it, one test at a time |
| `Confirm`, `MarkRunning` | `is_running`, which asks the ready and the finished event, and `mark_live_capture_running` in `start_capture` |
| `BeginStop` | `Session.begin_stop_live_capture` |
| `SignalStop`, `StopJoins`, `StopJoinExpires` | `CaptureController.stop` and the `except` clauses around it, in `stop_capture` and in `start_capture`'s timeout handler |
| `CleanupFailed` | that handler's own test of `is_active` |
| `CheckOwner` | the test of `load_stopped_capture` |
| `BeginLoad` | `Session.load`'s test of the slot, after which the lock is free |
| `ReadFile`, `ReadFails`, `Publish`, `Collect` | `_load_capture`, and the second read of `self.capture` |
| `Summarize`, `Finally`, `Keep`, `Free` | the answer and the `finally` clauses |
| `ProbeOutput` … `ThreadExits` | `capture()` and `_run`, in program order, with each way out (`exists()` may raise too) |
| `ForeignWrite` | another program creates a file (environment) |

A file is abstracted to who wrote it, and `Sealed` says whether its writer closed
it. Exceptions are `"timeout"`, a `TimeoutError`, or `"error"`, any other: the
tools' `except` clauses tell no more apart. A refused call (slot busy, no capture
running) changes nothing and is a stuttering step.

`CaptureLease` states what all this is for without calls, timeouts or files: the
slot is acquired once per capture, the thread runs only for the holder, and the
holder is released only once its thread is gone. `LeaseSpec` maps `slot` to
`holder`, the phases `starting` and `stopping` to `busy`, and the thread's many
places to `unborn`, `alive` and `dead`.

### HumanChannel

An asyncio task runs alone between two awaits, so a step is what happens from one
await to the next, or one operation of the worker thread on the terminal.
`Call`, `Take`, `TakeLatched` are `_HumanChannel.ask` up to the offloading of
the read; `Prompt`, `PromptFails`, `Read`, `ReadAborts`, `ReadRaises` are
`ask_human` with the `except` clauses and the way back through `ask`; `Cancel`
is a cancellation by the client, which `run_sync` shields the thread from. An answer is
identified with the question it was typed for. One assumption is made on the
analyst: he types an answer when a question is on the screen, not ahead of it.

### UrbPairing

The module runs the bus and the two passes side by side. The bus submits and
completes transfers under URB ids that no other transfer in flight uses; the
capture is switched on and off at any time and misses up to `MaxMissed` records
between: `Unseen` is a fault of the environment, a record that usbmon dropped. (The loader skips
isochronous records, but those of a transfer all or none.) What
the passes see of a record is its URB id, its half and its class; what the
properties speak of is the transfer it stands for, which the code cannot see. Both
passes keep only what they learned from a prefix, so the model lets them run as the records
appear. The order in which `pair_urbs` yields what is pending at the end (the insertion
order of a dict) is left out.

### CommandPairing

`Init` chooses any log of the device's events in the order `_result_for`
sorts them into, and the end of the capture, which other devices' traffic may
put later. Then events are processed one by one: `SetAside` is the part of `_result_for` that
files events before the lanes are built, `Command`, `Answer` and `Unprompted` are the body of
`_pair_lane`'s loop, `Finish` the flush after it. A lane is a set of event
numbers, which is what an append-only deque is. `verdict` is the list of
`PairingResult` an event was filed in, `"explained"` if in none, and `partner`
the event it left its lane with. The code runs one lane after the other, the model all
of them in the order of the log; lanes share nothing but the lists they append to. An event is
in one form: successful with or without a payload, not successful, or half of a transaction
whose other half is not in the capture. Counters, timing statistics and the notes of
`PairingResult` are left out.

### CaptureFile

`LiveCapture` knows of a file only who wrote it; this module is about what is in it. `blocks`
is what was handed to the file object, `flushed` and `torn` how much of it the disk has: so many
whole blocks, and perhaps a part of the next.

| action | code |
| --- | --- |
| `WriteSectionHeader`, `WriteInterface`, `WritePacket` | the three methods of `PcapNgWriter`, each with `_write_block` (`Emit`) |
| `WriteSimple`, `WriteOther` | blocks of other capture programs, whose files `load_capture` reads too (environment) |
| `Flush`, `WriteFails`, `Close`, `CloseFails`, `Kill` | the buffered file object and the `with` block of `capture()`: the buffer is written out, a write or the close fails, the process is killed (environment) |
| `BeginLoad` | `_load_capture` opens the file |
| `ReadBlock`, `ReadDangling` | `PcapNgReader.__next__` and one turn of the loader's loop, which raises for a packet without an interface |
| `ReadTruncated` | `TruncatedFileError` |
| `ReadEnd` | the end of the loop: decoding of all packets, then the assignment of `capture` |

The client of the writer follows the rules of the format, writes a section header first and no
packet whose interface it did not declare, and may start a second section, which `capture()`
does not do but the files of other programs do. The load may run while the file is still written, as a
command line next to the server can. `meant` is an auxiliary variable, the interfaces and packets
the writer had written after each block, which the loader has to find out from the blocks
alone. Not in the model: page cache that is lost when the machine loses power, where the disk
may keep later blocks and lose earlier ones, and files that no writer of the format makes.

### DeviceIdentity

The actions are the world: `Plug` gives a unit an address, after an optional request for its
descriptor at address 0, `Enumerate` is the next request of its enumeration, `Use` its
runtime traffic. A unit is put at an address that another has had, moves to a new one,
is there before the capture begins, and may lose the answer to a request for its descriptor.
The code is a pass over the capture, so it appears as operators on `trace`, evaluated in
every state:

| operators | code |
| --- | --- |
| `Seen`, `At`, `FirstIndex`, `LastIndex`, `Packets`, `Accumulate` | `_accumulate_devices` and the accumulator of an address |
| `Answers`, `Identities`, `Descriptor`, `Configuration`, `Prefer` | `_apply_descriptor_info`, the descriptor parsers, `_prefer_configuration` |
| `IdOf`, `AddressId`, `IdentityId` | `_accumulator_device_id`, `device_identity.py` |
| `Absorb`, `Fold`, `Merged`, `DeviceIds`, `Resolve` | `_merge_by_identity`, `_absorb`, the address map, `resolve_device_id` |
| `Summary`, `Matches`, `GetPackets`, `Page`, `HasMore` | `_device_summary`, `Session.get_packets` and the paging of the tool |
| `IdentityConflicts`, `Overlap`, `OverMerges` | the two complaints of `validate` about identities |
| `Runtime`, `Enumeration`, `IsComplete`, `EnumerationOf` | `_enumeration_indices`, `_build_enumeration` |
| `Live`, `Diff`, `Detected` | `enumerate_usb_devices`, `diff_snapshots`, `run_detect` |

A transfer stands for its submission and completion side by side. There is one bus, so an
address is the code's pair of bus and device number. Endpoints are 0 and one other; byte
counts, strings and the layout of descriptors are left out. `Paged` is a client that asks for pages as
long as `has_more` tells it to.

### Normalization, RepeatedSequences, ProtocolAnalysis

`Normalization` is `normalize_tokens` in set form: a lane is the set of its events, a group
(`Messages`) a set of events with a header and a length in common, with the mode that tells how it
is classified. `Messages` and `Tokenize` speak of one lane, `Normalize` of all. The bytes are numbers;
which of them are equal is all that matters.

`RepeatedSequences` is `_detect_for_device`. It knows nothing of where tokens come from: its
`DetectInit` takes any streams of any tokens. `Subsume` decides all sequences of one length,
which is what the inner loop looks at (only longer ones); `Rank` is the rest of the
function, from the sort to the parents.

`ProtocolAnalysis` chooses a log of transfers and a scope, makes the streams of it as
`build_analysis_events`, `background_endpoints`, `normalize_tokens` and `_streams` do, and lets
the detection run. `AddMarker` is `Session.add_marker`, after the analysis in time only: the description is
evaluated from the current markers in every state, as each call of `analyze_protocol` does. The
operators after that are `assemble_protocol_hypotheses` and its helpers: `Times` for response timing, `Candidates`, `ObservedBefore` and `Observations` for what was
seen once, `Like`, `Samples`, `Lookups` and `Reported` for anomalies. A transfer stands for its payload record and a
packet index for the position of that record. Markers come in with the observations; the correlation of
patterns with spans of markers (`_correlate_markers`) is left out.

Time stamps are ticks since the first record. `AnalysisInit` chooses any that do not fall: usbmon stamps a record when it queues it. (Its clock is
the wall clock, so one that is set back during a capture is outside the model.) Several records may have the same stamp, and every comparison of the code, strict or not, is
kept. A tick is a microsecond, the resolution of usbmon. `Samples` looks an event up with
`Tolerance`: the code compares two floats (seconds since 1970) for a difference below 0.000001, and at that size
most stamps that are a microsecond apart are less than that apart, so `Tolerance` is 1. Which of two is found at a
distance within it is left open.

Ties in the ranking of patterns are broken by the order of tokens, which the model does not have:
`Rankings` is the set of all that the sort may come to. Streams are keyed as in
`_streams`: one for the device, or one for each endpoint number and transfer type.

## 3. The runs

| run | instance | question |
| --- | --- | --- |
| `LiveCaptureConcurrent` | 2 workers, 2 captures, 2 paths, both faults | Is the slot a lease whatever fails, and are files safe? |
| `LiveCaptureSerial` | 1 worker, 2 captures, 2 paths, both faults | Does a stop summarize what it stopped, does every call return, does the slot recover? |
| `LiveCaptureFailedStart` | 1 worker, 1 capture, fault `error` | Does a failed start free the slot? No. |
| `LiveCaptureWedged` | 1 worker, 1 capture, fault `timeout` | Does a dead capture free the slot in the end? No. |
| `HumanChannelTurns` | 4 calls, 2 kinds of abort | Do answers reach their questions, does an ended session stay ended, does every call return? |
| `HumanChannelHangup` | the same | Is the end of the input always reported as an abort? No. |
| `UrbPairing` | 4 transfers, 2 URB ids, 2 missed records | Do records come back together, and are they flagged alike? |
| `CommandPairing` | 4 events, 2 lanes, window 1, time 0..2 | Are pairs sound, and reported anomalies real? |
| `CommandPairingExemptions` | 5 events, 1 lane, window 1, time 0..2 | Is what failed traffic or the start of the capture explains kept out of the reports? Neither is. |
| `CaptureFile` | 5 blocks, 2 link types, 1 of them usbmon | Is a capture that loads a prefix of what was written, and does a closed file load whole? |
| `ProtocolAnalysis` | 4 transfers of 4 kinds, both scopes, time 0..2, windows of 1 to 3, 2 markers, 2 patterns and 2 observations returned | Are dropped patterns explained and listed ones news, and does what is attached to them belong to them? |
| `DeviceIdentity` | 2 units, 2 models, 2 addresses and address 0, 6 transfers, pages of 2 | Are packets credited to their device or complained of, and do summaries, pages, enumeration and detection agree with what happened? |

What they show:

* **`LiveCaptureConcurrent`.** `ThreadOwnsSlot`: whichever way a start or stop
  fails (no thread to start, a deadline that expires just as the capture goes live, an
  exception in the thread, an exception in the load), the session is
  not given away while the capture thread lives. `ExclusiveClaim`: one start
  or stop works on the slot at a time, and no busy phase is left behind by a call
  that is gone. `LiveAnswerIsTrue`: a capture reported live is live or died after
  the report, has its file, and will be found by `stop_capture`.
  `FilesAreSafe`: nothing overwrites or removes a foreign file or a live
  capture's output, although the check with `exists()`, the exclusive creation and the removal
  after a failed start are separate steps. `LeaseSpec`: refinement of
  `CaptureLease`. `IInv` is the induction hypothesis of the proofs.
* **`LiveCaptureSerial`.** The SDK runs synchronous tools on the event loop, so this
  is how the server runs today. `StopSummarizesItsCapture` holds here and *not*
  with two workers: `Session.load` tests the slot under the lock and then reads and publishes
  without it, so a load that began before a capture can replace the active capture after
  the stop's own load. The property is therefore claimed for serial dispatch only.
  It is also claimed only of a capture that went live: a stop that arrives during the
  startup makes `capture()` return statistics without ever creating a file
  (`sniffer.py:139`), and `stop_capture` then loads whatever another program may have put
  there. `CallsReturn` and `SlotRecovers` are the liveness properties.
* **`HumanChannelTurns`.** Calls overlap, are cancelled while queued, at the moment
  they are handed the turn, or while their thread reads (which changes nothing
  until it returns); the terminal goes away before a prompt, or during a read.
* **`UrbPairing`.** The capture sees a window of the traffic with holes in it. A missed
  completion leaves a submission pending that the next use of the URB id replaces; a
  missed submission makes a completion an orphan or, if an older submission was left
  pending, pairs it with the wrong one. That can happen only to transfers of
  which a record is missing (`WholeTransfersPair`).
* **`CommandPairing`.** All logs up to the bound, with ties in time, windows that end
  exactly at an IN or at the end of the capture, failed commands and answers before
  and after successful ones, endpoints that poll in the background. `NoCommandIsLeft` says
  what an unsolicited response is worth: no successful command was left that it
  could answer. It does not say that none was sent: a failed IN takes the
  oldest successful command with it (`pairing.py:409`), so the IN that answers the retry
  is reported unsolicited, against the document (`CommandPairingExemptions`, section 6).
* **`CaptureFile`.** The file is cut wherever a buffer, a full disk or a kill may cut it, and
  loaded at any time. `LoadedIsPrefix`: no packet is lost from the middle, added, or credited to
  an interface of another section. `ClosedFileLoads`: the loader refuses no file that was written
  and closed without an error, except for the two reasons it names. Two things the
  model shows that no property claims: a file that is cut between two blocks loads
  without a word about what is missing, down to the empty file, which loads as an empty capture; and a
  file cut inside its last block is refused with all the packets before it. And
  one packet that cannot be decoded is enough to refuse a file of any length
  (`session.py:1047`), against the document (section 6); `ClosedFileLoads` therefore names it as a reason.
* **`ProtocolAnalysis`.** All logs up to the bound, in both scopes, with payloads that
  share a header and differ in a byte or in length, a failed transfer and an endpoint that polls.
  `DroppedIsExplained` is about overlap: counts alone decide what is dropped, and it has to follow that
  each occurrence of the dropped sequence lies in one of the longer sequence. `KeptIsNews` is the
  converse. `TokensDescribe`: a signature agrees with every payload it is given for, although small groups
  borrow theirs from others. `ListIsCoherent`: limit and
  ranking do not leave a parent that the client cannot see; it claims nothing of the criterion of the ranking, which is not
  the documented one (section 6). `TimingIsNear`: a command joined to a pattern by time is an event of an occurrence, or
  has the very time stamp of its first or last event; the second half is the code's disagreement with itself
  (section 6). `ObservationsAreSingle`: what is said to be seen once is not among the patterns. `AnomaliesAreFound`: an
  anomaly that is looked up again by time is shown as itself or as an earlier event like it that is as near,
  and what is reported of its group spans its time.
* **`DeviceIdentity`.** `MisattributionIsReported`, `OverMergeIsTwoUnits` and `TwoUnitsAreReported` say
  what the two complaints of `validate` are worth: where it is silent, no unit that
  showed its descriptor is credited to another model; where it complains of two addresses, there are two
  units, and it does complain when their traffic alternates. `SummariesAddUp`: merged tallies and the
  pages a client reads are the same packets. `EnumerationIsWhole`: traffic of other
  devices does not cut an enumeration short. `DetectionFindsArrival`: the device plugged in is
  found beside another of its model, under the id the capture has for it.

What the runs of *DeviceIdentity* and *ProtocolAnalysis* show that no property claims:

* *DeviceIdentity.* A unit whose descriptor is not in the capture, at an address another unit had
  before, is credited to that unit's model without a complaint, so "an empty list genuinely means
  the capture is valid" (`session.py:687`) holds only for units that were seen to identify themselves.
  `OverMergeIsTwoUnits` needs addresses that were assigned once: a unit that
  comes back to an address it had before overlaps itself. A device given an address
  that was in use at the first snapshot is not found by `detect-device`.
* *ProtocolAnalysis.* With a failed transfer in the log, an exchange can be reported both as a
  pattern and as seen once: the detection normalizes failed events too (`analyzer.py:740`), the observations
  do not (`description.py:853`), so the tokens differ. `ObservationsAreSingle`
  therefore asks for logs without one. The lengths reported for a token of a lane without headers are those
  of the last group with it (`analyzer.py:545`), so `TokensDescribe` does not ask for them. A pattern whose longest
  container was cut off has no parent, though a shorter container may be listed (`analyzer.py:821`).

Each property of a passing run has a mutant in `PROJECT.json` that TLC refutes
under the same configuration.

## 4. Fairness, deadlock and bounds

**Fairness.** `LiveCapture!FairSpec` is weak fairness of each worker's step: Python
schedules every thread that can run and timeouts expire. The capture thread has no fairness in it,
so `CallsReturn` holds even if the thread hangs in the kernel for ever.
`SlotRecovers` needs more and says so: `Retries` adds that usbmon
and the disk answer (weak fairness of the thread's steps and of the opening) and that the
analyst calls `stop_capture` for as long as a capture is held, which
is what the tools' error messages tell him to do. `HumanChannel!FairSpec` is weak
fairness of each call's own steps, where a read ends by an answer, the end of the input or
the loss of the terminal, and of the analyst's typing: without an analyst
`wait_for_human` waits by design. `UrbPairing`, `CommandPairing`, `CaptureFile`,
`ProtocolAnalysis` and `DeviceIdentity` are passes over data and have no liveness property.

**Deadlock** is checked in the `LiveCapture` and `CaptureFile` runs, where tools can always be
called and files loaded. It is off where the system really stops: all calls of the session made
(`HumanChannel`), the capture over and the traffic done (`UrbPairing`, `DeviceIdentity`), the pass
finished (`CommandPairing`, `ProtocolAnalysis`).

**Bounds.**

* *Two workers, two captures, two paths* for `LiveCapture`: the hazards are races of two
  calls (a stop with a start, two stops, a load with either), or of one call with its capture
  thread; a third worker could only be refused. The second capture is the one that must
  not start beside the first, and the second path is the file a load reads meanwhile. The
  proofs have no such bound.
* *Four calls* for `HumanChannel`: one at the terminal, one cancelled as it gets the
  turn, one behind it, one made after an abort.
* *Four transfers, two URB ids, two missed records* for `UrbPairing`: three uses of one id
  with a missed record at each change, beside a transfer of another id.
* *Four events, time 0..2, window 1* for `CommandPairing`: two commands and two
  answers, before, at and after the end of the window, at and before the end of the capture.
  `MaxEvents` and `MaxTime` bound the logs in `Init`; the time stamps are ticks since only
  their order and comparison with the window count.
* *Five blocks* for `CaptureFile`: a section with an interface, a second section with an
  interface of another link type, and a packet, which is the least in which a packet could be credited to the
  wrong section.
* *Four transfers, time 0..2, windows of 1 to 3* for `ProtocolAnalysis`: a sequence of one that occurs twice inside
  and once outside one of two, and sequences that overlap; two events at one time with one before or
  after them, inside and at the edges of an occurrence, and stamps within and beyond `Tolerance` 1 and
  `MarkerWindow` 1. The shortest window is 2 in the server (`MIN_SEQUENCE_WINDOW`); 1 is admitted too (`analyzer.py:714`) and
  gives a parent and its part in so short a log. One endpoint has two transfer types, so that the
  streams of `endpoint_lane` differ from the endpoints. *Two markers*: two distances, or both on one packet. *Two
  patterns and two observations* so that both limits are met. `AnomalyBytes` 1: payloads that begin
  alike fall into one group. *Header of at most 2 bytes, 2 samples*: lanes with and without a header, and
  groups that borrow their signature. `MaxTransactions`, `MaxTime` and `MaxMarkers` bound `AnalysisInit` and `AddMarker`.
* *Two units, two models, two addresses, six transfers* for `DeviceIdentity`: two units of one model or of two,
  an address used by both, a unit at both, a whole enumeration with the
  assignment of its address and one transfer of another unit. One descriptor is lost at most.
* *Symmetry* is used in `LiveCaptureConcurrent`, `UrbPairing`, `ProtocolAnalysis` (marker names) and
  `DeviceIdentity` (units and models), which check no liveness property, over sets whose elements are only compared for equality.

## 5. The proofs

Proved by TLAPS for any sets of workers, captures, paths, calls, transfers, URB ids, devices, addresses and
tokens, and for logs, windows, captures and files of any length. Every invariant and every action property
that a run checks is proved, and so are both refinements; liveness is not (below).

The assumptions are the named `ASSUME`s in the modules. They say that the special values (`NoCapture`, `Foreign`,
`None`, `NoParent` ...) differ from what they stand beside, that bounds are naturals, and:

* the streams of `RepeatedSequences` and the addresses of `DeviceIdentity` are finite sets, as everything in a capture is;
* payloads are sequences of naturals (bytes);
* `MaxHeaderBytes` is at least 1 and at most `PrefixBytes` (4 and 8 in `analyzer.py:62-71`, module constants), at least
  two samples make a lane (`LaneSamples`), and a page has at least one packet (`mcp/tools/pagination.py:15`).

That time stamps do not fall in the order of the packets is no assumption on constants but part of `AnalysisInit`.

`SummariesAreOwn` has a hypothesis besides, `SerialDispatch`: any two workers are the same. It is how the SDK
dispatches synchronous tools, and the property is false without it (section 3).

| module | theorems |
| --- | --- |
| `LiveCaptureProofs` | `Invariance` (`[]IInv`), `TypeCorrect`, `ThreadsOwnTheSlot`, `ClaimsAreExclusive`, `LiveAnswersAreTrue`, `FilesStaySafe` (an action property), `SlotIsLease` (refinement), `SummariesAreOwn` |
| `HumanChannelProofs` | `Invariance`, `AnswersMatchQuestions`, `SessionStaysEnded` (an action property) |
| `UrbPairingProofs` | `Invariance`, `WholeTransfersArePaired`, `RecordsAreUsedOnce`, `FlagsFollowRequests` |
| `CommandPairingProofs` | `Invariance`, `PairingIsSound`, `UnansweredCommandsAreReal`, `UnsolicitedHadNoCommand` |
| `CaptureFileProofs` | `Invariance`, `LoadsArePrefixes`, `ClosedFilesLoad` |
| `ProtocolAnalysisProofs` | `InvCorrect`, `DroppedCorrect`, `KeptCorrect` (of `DetectSpec`), `AnalysisDetects` (`AnalysisSpec` implements `DetectSpec`), `AnalysisCorrect`, `AnalysisInvariant`, `AnalysisTypeCorrect`, `ListCorrect`, `TimingCorrect`, `TokensCorrect`, `ObservationsCorrect`, `AnomaliesCorrect` |
| `DeviceIdentityProofs` | `WorldTypeCorrect`, `StaysCorrect`, `OverMergeCorrect`, `MisattributionCorrect`, `TwoUnitsCorrect`, `DetectionCorrect`, `EnumerationCorrect`, `SummariesCorrect` |
| `OrderLemmas` | lemmas only |

Each follows the same scheme: `Init => IInv`, `IInv /\ [Next]_vars => IInv'` with
a lemma per action or group of actions and a step per conjunct that the action
disturbs, and `IInv => Property`. What the strengthening is for:

* **LiveCapture.** `ThreadOwnsSlot` is not inductive: a call could free the slot
  while the thread lives. `ThreadOfPc` says a call at `free` has seen its thread dead,
  and `ToolOfPc` with `ExclusiveClaim` that it is the only one to decide, for the capture
  that holds the slot. `FileOfThread` and `ReadyOfPc` carry the
  ready event and the file from the thread's step to the call that reports them.
  `FilesStaySafe` uses `FileOfThread`: the file that a failing start removes is the
  capture's own. `SlotIsLease` maps `Reserve`, `Launch`, `MarkRunning` or `Keep`,
  `BeginStop`, `Free` and `ThreadExits` to the lease's six actions and everything else to
  a stutter. `SummariesAreOwn` adds `SummaryOfPc`: from the join on, a stop call holds a capture that is gone and
  died of nothing, so the file at its path is its own and whole (`StoppedIsWhole`, from `FileOfThread`), and what the call
  has read and published is that file.
* **HumanChannel.** `AnswersMatch` rests on `TurnIsExclusive` and
  `TerminalFollowsTurn`: what is on the screen or in the buffer belongs to
  the read of the call that owns the turn. `EndedStaysEnded` rests on `AbortsAreLatched`.
* **UrbPairing.** `PendingIsOpen` is the heart: while the capture records, the
  submission of a transfer in flight is what is pending under its URB id, since the bus
  does not reuse an id in flight. `OpenIsTrue` is the same for the classifier,
  which therefore agrees with `pair_urbs` although the two never meet.
* **CommandPairing.** `UnansweredIsReal` speaks of INs that came before and after the
  command left its lane. `FlushedIsLate` says that a command leaves without an IN
  only when the next IN is out of its window, `OlderFirst` that the INs of its
  window went to older successful commands, `NoOvertaking` that none went to a later
  one. Non-crossing of pairs follows from the last.
* **CaptureFile.** `LoadFollows` is the heart: whatever blocks the load has read, its table and
  packets are those the writer had after them. `MeantFollows` is what it needs of the file,
  block by block. `SentGrows` turns it into a prefix of what is written by now, and
  `DiskIsWhole` says that a closed file has all blocks and no torn one.
* **RepeatedSequences.** `DroppedIsExplained` is a counting argument: each occurrence of a longer sequence
  has an occurrence of the shorter one at a fixed distance, different ones for different ones; if
  there are as many of both, that injection is onto, so every occurrence of the shorter one is inside one of
  the longer. `SeqInv` says that whatever is decided so far is dropped by a longer kept
  sequence with its count. It is proved for any streams, and carried to `ProtocolAnalysis` by refinement.
* **ProtocolAnalysis.** `AnalysisInv` has four parts: `CaptureInv` (the streams are those of the log, in
  capture order and disjoint, and time stamps do not fall), `SeqInv`, `ListInv` (the list is the top of the ranking, with its parents) and
  `MarkersOK`.
  * `ListCorrect`: whatever ranking is taken, it names each kept sequence once and none before one that
    occurs more often (`RankingFacts`). A parent comes *after* its part because it occurs less often, which is `KeptIsNews`.
  * `TimingCorrect`: the stamps of an occurrence's events lie between its first and last (`WindowInTime`). Conversely a
    successful OUT whose stamp is strictly between them lies strictly between their packets, since stamps do not fall; it
    is in the same stream, and as streams rise it is one of the occurrence's packets.
  * `AnomaliesCorrect`: an event is among those like it, so the first of its time is no later than it; what is found before
    that is within the tolerance. The group contains what is shown for the anomaly, which bounds it on one side; on the
    other, stamps do not fall between an event found first and the anomaly.
  * `TokensCorrect`: a byte that a signature does not mask is the same in all members it was made of. Two groups of
    one token are of one lane and mode; in `prefix` mode the header is part of the signature (that is
    what `MaxHeaderBytes <= PrefixBytes` is for), so they have one pool and report the same lengths.
  * `ObservationsCorrect`: without failures both passes normalize the same events, up to the polls of background
    endpoints, which are lanes of their own; so an event has one token in both. If the
    packets of an observation are those of an occurrence, position by position (`SameStretch`), it
    has the tokens of a listed pattern, which `Candidates` excludes.
* **DeviceIdentity.** `StaysInv` is what the code takes for granted: between the assignment of an address and
  a packet at it, the packet's unit was at no other address. With an address assigned once, two addresses of
  one unit are then active one after the other, so an overlap means two units. `DetectionCorrect` adds
  that a unit had one place when the first snapshot was taken, `EnumerationCorrect` (`EnumerationInv`) that a unit is
  enumerated after it was used only if it was given an address again. `SummariesCorrect` needs the
  types only, but three recursions: `FoldGathers` (whatever addresses are absorbed, the accumulator has
  gathered exactly the packets at them), `PagesAreAll` (a client that reads page by page has everything, once and
  in order) and `ConfigurationIs` (of all answers one with interfaces is kept if there is one).
* **OrderLemmas.** Induction over data is out of reach of the installed provers, which cannot instantiate a
  theorem whose parameter is an operator. Three devices take its place. *Least counterexamples:* a set of
  naturals has a least element (`HasLeast`), so a recursion is shown to have a solution, and its value to
  be what it should, by looking at the first place where not. *Ranks:* in a finite order without ties, the number of
  elements before one is an injection into as many numbers, hence onto (`Ranks`), which is
  what sorting by `CHOOSE` relies on. *Listings:* a set in its order, and a stretch of one (`Lists`, `SameStretch`).

Only model-checked: `CallsReturn` of both modules and `SlotRecovers`, as liveness under fairness is out
of reach of the installed provers, and the violations of section 6. No module with a theorem uses a recursive operator;
`Fold` and `Paged` recur through functions.

## 6. Where the code disagrees with what it says

* **A failed start may hold the session** (`LiveCaptureFailedStart`,
  `live_capture.py:106`). The controller raises the startup exception once
  `_finished` is set, and the thread lives a moment longer. If `start_capture`'s `finally` clause asks
  `is_active` in that moment, it marks the failed capture as running; the next
  `start_capture` is refused until someone calls `stop_capture`. `tests/unit/mcp/test_live_capture.py:195`
  says that a startup failure "does not wedge the capture slot".
* **A capture that died of a timeout is never let go** (`LiveCaptureWedged`,
  `live_capture.py:130`). `stop()` raises the exception the thread died of. If it is a
  `TimeoutError`, `stop_capture` takes it for a thread that did not stop in time and keeps
  the slot, on every call. `test_live_capture.py:368` says that a
  capture that died "reports its error without wedging the slot".
* **The end of the input may raise instead of aborting** (`HumanChannelHangup`,
  `guided/human.py:74`). The handler for the end of the input writes a newline to the
  terminal before it reports the abort. If the terminal takes no output, that raises; the
  call fails, and the abort is not latched.
* **What is explained is reported all the same** (`CommandPairingExemptions`).
  `docs/architecture/m3-engine-spec.md:389-396` exempts from both kinds of anomaly what "is explained by failed traffic or an
  incomplete transfer at a capture boundary". The code keeps neither promise, and the run shows both in one log.
  A transfer cut by the *start* of the capture explains nothing: the code looks at the end only
  (`analysis/pairing.py:264`), so the command it answers is unanswered. And a failed IN takes the
  command out of the lane (`:409`), so the IN that answers on the retry finds none and is unsolicited, although the
  comment at `:272` says that failed events are kept so that they do not turn a nearby one into a false
  unsolicited response.

Four more were met while modelling. No run is spent on them, as the properties name them as exceptions or leave
them out:

* **One malformed packet refuses the whole file** (`session.py:1047`).
  `m3-engine-spec.md:62` says that isochronous and malformed packets are skipped; the loop skips isochronous ones only,
  and any other error of the decoder ends the load. `ClosedFileLoads` names it as a reason.
* **A command at the edge of an occurrence lends it its timing** (`analysis/description.py:773`). The spans in time
  are closed at both ends, so a command with the stamp of an occurrence's first or last event counts for it;
  `description.py:743` says "the pairs inside its own occurrences", and that spans in time and in
  packets agree. `TimingIsNear` names it as an exception.
* **Markers are correlated by spans of packets, not by nearness** (`analysis/description.py:840`).
  `m3-engine-spec.md:345-350` and `:686` say that an occurrence belongs to the one marker nearest in
  time, if within two seconds, and that the percentage is always reported. The code takes the two markers
  around an occurrence, at any distance, correlates nothing with a single marker (`:785`), and drops a share
  below 70 percent (`:826`). The correlation is not modelled.
* **Patterns are ranked without their markers** (`analyzer.py:825`).
  `m3-engine-spec.md:498` and `protocol-description.md:198` put marker correlation first, before truncation. The code ranks
  and cuts by count, length and time before it looks at markers, and does not rank again. `ListIsCoherent` claims
  nothing of the criterion.

## 7. What is not modelled

* *Byte formats:* usbmon headers, descriptors, pcap-ng options, the usbmon ioctl and its buffers. Pure
  functions of their input with unit tests over real captures.
* *Wording:* notes, statistics, progress callbacks, result records, JSON.
* *Registration:* which tools a server offers.
* *The command line,* which runs `capture()` on the main thread, where a signal handler takes the
  place of `stop_capture`.
* *Queries beside a load.* Tools run one at a time on the event loop, so none sees the active capture change. For
  the same reason nothing is claimed of `Session.load` beside other tools (`session.py:360`): it reads and
  publishes outside the lock, and `StopSummarizesItsCapture` is false with two workers (section 3).
* *Which events are anomalies* is `CommandPairing`'s matter; `ProtocolAnalysis` lets any set of them be
  looked up, grouped and shown. Incomplete transfers are only counted (`description.py:1108`).
* *The correlation of patterns with markers* (`description.py:781-842`), a count of the occurrences between two adjacent
  ones, and *`packets_between_markers`*, a slice of the packets between two marked ones.
* *The sanitizer* (`tools/sanitize_capture.py`), a rewrite of byte fields that is run by hand.
* In `LiveCapture`: the `shutdown` of the server with a capture running (the thread is a
  daemon thread), and `KeyboardInterrupt` within a tool.
* In `CommandPairing`: the split of traffic by device identity, which is in
  `DeviceIdentity`, and the detection of background endpoints beyond the rule that a
  device without an OUT has none.

## 8. The plan

Most important first; the first seven are done.

1. `CaptureLease`, `LiveCapture`: the slot, the threads and the files.
2. `HumanChannel`: the second concurrent part.
3. `UrbPairing`: what everything later stands on.
4. `CommandPairing`: the analysis with the most rules.
5. `CaptureFile`: writer, crash and reader.
6. `DeviceIdentity`: addresses reused in time, the merge by vid:pid, the enumeration view, `validate`, packet
   queries and `detect-device`.
7. `Normalization`, `RepeatedSequences`, `ProtocolAnalysis`: the analyzer and the description.
8. The abstract specifications below, each with a refinement proved.

Abstract specifications worth stating besides the lease: one analyst who answers one question at
a time (for `HumanChannel`), the set of true transfers (for `UrbPairing`), and a log whose readable
part is what was appended (for `CaptureFile`).
