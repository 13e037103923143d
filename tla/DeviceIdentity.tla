--------------------------- MODULE DeviceIdentity ---------------------------
(***************************************************************************)
(* Which device the packets of a capture belong to (session.py,            *)
(* device_identity.py, descriptors.py).  A URB header has an address only, *)
(* and a device changes its address: it is enumerated at address 0, moves  *)
(* to the one it is assigned, and gets another when it is plugged in again.*)
(* The code tells devices apart by the descriptors it finds in the capture *)
(* and merges the addresses that show the same vid:pid.                    *)
(*                                                                         *)
(* The actions are the USB host and its devices, which are external; they  *)
(* write the capture.  What the code makes of it are operators on trace.   *)
(* An entry of trace is a transfer, submission and completion side by side,*)
(* or a submission alone.  Its unit, which no record holds, is there for   *)
(* the properties only.  There is one bus.                                 *)
(***************************************************************************)
EXTENDS Integers, FiniteSets, Sequences

CONSTANTS
  Units,         \* physical devices
  Models,        \* what a device descriptor tells apart: vid:pid
  Addresses,     \* that the host assigns
  Away,          \* the place of a unit that is not attached
  None,          \* Python's None
  MaxTransfers,  \* bound: length of the capture
  Losses,        \* bound: requests for the device descriptor without an answer
  PageLimit      \* the limit a client asks for

ASSUME DeviceIdentityAssumption ==
  /\ Addresses \subseteq Nat \ {0} /\ IsFiniteSet(Addresses)
  /\ Away \notin Nat /\ None \notin Models \cup [model : Models, interfaces : {0, 1}]
  /\ MaxTransfers \in Nat /\ Losses \in Nat /\ PageLimit \in Nat \ {0}

VARIABLES
  model,   \* of each unit
  place,   \* the address of each unit, or Away
  step,    \* of each unit: the next request of its enumeration
  given,   \* the addresses assigned, each with the length of the capture at that time
  trace    \* the capture

worldVars == <<model, place, step, given, trace>>

-----------------------------------------------------------------------------
\* What the host asks a device that has its address: the device descriptor, the
\* header of the configuration, all of it, and SET_CONFIGURATION.
Script == <<"device", "header", "configuration", "configure">>
Configured == Len(Script) + 1

\* Requests of the enumeration, and runtime traffic.
Kinds == {"address", "device", "header", "configuration", "configure", "data"}
Transfers == [addr : Addresses \cup {0}, unit : Units, kind : Kinds, answered : BOOLEAN]
Transfer(a, u, kind, answered) == [addr |-> a, unit |-> u, kind |-> kind, answered |-> answered]

\* One more transfer of a unit that has its address; only of a descriptor does it
\* matter whether the answer was captured.
Capture(u, kind) ==
  /\ Len(trace) < MaxTransfers
  /\ \E answered \in BOOLEAN :
       /\ ~answered => kind = "device" /\ Cardinality({i \in DOMAIN trace : ~trace[i].answered}) < Losses
       /\ trace' = Append(trace, Transfer(place[u], u, kind, answered))

\* Mutant: who loses its address is back at address 0.
PlacesAtZero(u, a) == [v \in Units |-> IF v = u THEN a ELSE IF place[v] = a THEN 0 ELSE place[v]]

\* Leaving is silent, so a unit leaves when it is plugged in anew or another gets
\* its address.
Places(u, a) == [v \in Units |-> IF v = u THEN a ELSE IF place[v] = a THEN Away ELSE place[v]]

\* A device is plugged in: at address 0 the host may ask for its descriptor, and then
\* assigns the address.
Plug(u, a) ==
  /\ \E probes \in {<<>>, <<Transfer(0, u, "device", TRUE)>>} :
       trace' = trace \o probes \o <<Transfer(0, u, "address", TRUE)>>
  /\ Len(trace') <= MaxTransfers
  /\ UNCHANGED model
  /\ place' = Places(u, a)
  /\ step' = [step EXCEPT ![u] = 1]
  /\ given' = given \cup {[addr |-> a, unit |-> u, from |-> Len(trace'), new |-> TRUE]}

Enumerate(u) ==
  /\ place[u] # Away
  /\ step[u] < Configured
  /\ Capture(u, Script[step[u]])
  /\ step' = [step EXCEPT ![u] = @ + 1]
  /\ UNCHANGED <<model, place, given>>

Use(u) ==
  /\ place[u] # Away
  /\ step[u] = Configured
  /\ Capture(u, "data")
  /\ UNCHANGED <<model, place, step, given>>

\* Some devices are in use when the capture begins.
WorldInit ==
  /\ model \in [Units -> Models]
  /\ place \in [Units -> Addresses \cup {Away}]
  /\ \A u, v \in Units : place[u] = place[v] => u = v \/ place[u] = Away
  /\ step = [u \in Units |-> Configured]
  /\ given = {[addr |-> place[u], unit |-> u, from |-> 0, new |-> FALSE] : u \in {v \in Units : place[v] # Away}}
  /\ trace = <<>>

WorldNext ==
  \E u \in Units : (\E a \in Addresses : Plug(u, a)) \/ Enumerate(u) \/ Use(u)

WorldSpec == WorldInit /\ [][WorldNext]_worldVars

-----------------------------------------------------------------------------
\* What the accumulator of an address gathers.
Seen == {trace[i].addr : i \in DOMAIN trace}
At(a) == {i \in DOMAIN trace : trace[i].addr = a}
FirstIndex(a) == CHOOSE i \in At(a) : \A j \in At(a) : i <= j
LastIndex(a) == CHOOSE i \in At(a) : \A j \in At(a) : j <= i

\* _apply_descriptor_info: the answers, with their request, that hold a descriptor of a kind.
Answers(a, kind) == {i \in At(a) : trace[i].kind = kind /\ trace[i].answered}

\* Mutant: the device descriptor that was seen last is the only one remembered.
IdentitiesLast(a) ==
  {model[trace[i].unit] : i \in {j \in Answers(a, "device") : \A k \in Answers(a, "device") : k <= j}}

Identities(a) == {model[trace[i].unit] : i \in Answers(a, "device")}

\* The last device descriptor.
Descriptor(a) ==
  IF Answers(a, "device") = {} THEN None
  ELSE model[trace[CHOOSE i \in Answers(a, "device") : \A j \in Answers(a, "device") : j <= i].unit]

\* address_device_id, identity_device_id and _accumulator_device_id
AddressId(a) == <<"dev", a>>
IdentityId(m) == <<"id", m>>
IdOf(a) == IF Descriptor(a) = None THEN AddressId(a) ELSE IdentityId(Descriptor(a))

\* _prefer_configuration: of two configurations, by the number of their interfaces.
Prefer(existing, candidate) == existing = None \/ candidate.interfaces > existing.interfaces

\* parse_configuration: the header alone has no interfaces.  Of all answers, the one
\* that is preferred to those before it, and to which none after it is preferred.
Configuration(a) ==
  LET answers == Answers(a, "header") \cup Answers(a, "configuration")
      parsed(i) == [model |-> model[trace[i].unit], interfaces |-> IF trace[i].kind = "header" THEN 0 ELSE 1]
      stays(i) == \A j \in answers : IF j < i THEN Prefer(parsed(j), parsed(i)) ELSE j = i \/ ~Prefer(parsed(i), parsed(j))
  IN IF answers = {} THEN None ELSE parsed(CHOOSE i \in answers : stays(i))

\* _endpoint_address, of endpoint 0 and the others.
Endpoint(i) == IF trace[i].kind = "data" THEN 1 ELSE 0
Packets(S) == Cardinality(S) + Cardinality({i \in S : trace[i].answered})

\* _accumulate_devices
Accumulate(a) ==
  [dev |-> a, addresses |-> {a},
   first |-> FirstIndex(a), last |-> LastIndex(a),
   count |-> [e \in {0, 1} |-> Packets({i \in At(a) : Endpoint(i) = e})],
   configuration |-> Configuration(a)]

\* _absorb, but for the address.
Tallies(target, other) ==
  [dev |-> target.dev,
   addresses |-> target.addresses \cup other.addresses,
   first |-> IF other.first < target.first THEN other.first ELSE target.first,
   last |-> IF other.last > target.last THEN other.last ELSE target.last,
   count |-> [e \in {0, 1} |-> target.count[e] + other.count[e]],
   configuration |-> IF other.configuration # None /\ Prefer(target.configuration, other.configuration)
                     THEN other.configuration ELSE target.configuration]

\* Mutant: the address that comes first in the numbering stays.
AbsorbStays(target, other) == Tallies(target, other)

\* _absorb: the last address is the operational one.
Absorb(target, other) ==
  [Tallies(target, other) EXCEPT !.dev = IF other.last > target.last THEN other.dev ELSE @]

\* Numbers in their order.
InOrder(S) == [k \in 1..Cardinality(S) |-> CHOOSE i \in S : Cardinality({j \in S : j <= i}) = k]

\* The accumulator of the first of some addresses, after it has absorbed the others.
Fold(a) ==
  LET merged[k \in DOMAIN a] ==
        IF k = 1 THEN Accumulate(a[1]) ELSE Absorb(merged[k - 1], Accumulate(a[k]))
  IN merged[Len(a)]

\* _merge_by_identity, in the order of addresses.
Merged == [d \in {IdOf(a) : a \in Seen} |-> Fold(InOrder({a \in Seen : IdOf(a) = d}))]

\* _device_ids_by_address and resolve_device_id
DeviceIds(merged) == [a \in Seen |-> CHOOSE d \in DOMAIN merged : a \in merged[d].addresses]
Resolve(ids, i) == ids[trace[i].addr]
Credited(ids, d) == {i \in DOMAIN trace : Resolve(ids, i) = d}

\* _device_summary, with the interface class for its configuration.
Summary(merged, d) ==
  [device |-> d, dev |-> merged[d].dev, count |-> merged[d].count,
   class |-> IF merged[d].configuration = None \/ merged[d].configuration.interfaces = 0 THEN None
             ELSE merged[d].configuration.model]

\* _record_matches, of a device and an endpoint; the other criteria are the record's own.
Matches(ids, d, e, i) == Resolve(ids, i) = d /\ Endpoint(i) = e

\* Session.get_packets
GetPackets(ids, d, e) == InOrder({i \in DOMAIN trace : Matches(ids, d, e, i)})

\* The page of the tool get_packets, and its has_more.
Page(matches, offset, limit) ==
  SubSeq(matches, offset + 1, IF offset + limit < Len(matches) THEN offset + limit ELSE Len(matches))
HasMore(matches, offset, limit) == offset + Len(Page(matches, offset, limit)) < Len(matches)

\* What a client reads that asks for the next page as long as there is more.
Paged(matches, limit) ==
  LET read[k \in 0..Len(matches) + 1] ==
        IF k = 0 THEN <<>>
        ELSE LET before == read[k - 1] IN before \o Page(matches, Len(before), limit)
      more(k) == HasMore(matches, Len(read[k - 1]), limit)
      pages == CHOOSE k \in 1..Len(matches) + 1 : ~more(k) /\ \A j \in 1..k - 1 : more(j)
  IN read[pages]

-----------------------------------------------------------------------------
\* validate: what it complains about.
IdentityConflicts == {a \in Seen : Cardinality(Identities(a)) > 1}

\* Mutant: the range of one address begins while the other's lasts.
OverlapOneSided(a, b) == FirstIndex(a) <= FirstIndex(b) /\ FirstIndex(b) <= LastIndex(a)

\* _concurrently_active_addresses, of two.
Overlap(a, b) == FirstIndex(a) <= LastIndex(b) /\ FirstIndex(b) <= LastIndex(a)

\* Mutant: address 0 is one of them.
OverMergesWithZero ==
  {p \in Seen \X Seen : p[1] < p[2] /\ IdOf(p[1]) = IdOf(p[2]) /\ Overlap(p[1], p[2])}

\* _over_merge_conflicts
OverMerges ==
  {p \in (Seen \ {0}) \X (Seen \ {0}) : p[1] < p[2] /\ IdOf(p[1]) = IdOf(p[2]) /\ Overlap(p[1], p[2])}

\* _classify_enumeration_records, as UrbPairing shows it to be.
Standard(i) == trace[i].kind # "data"

\* Mutant: the runtime of any device.
RuntimeOfAny(ids, d) == {i \in DOMAIN trace : ~Standard(i)}

\* _enumeration_indices: runtime_start is the first of these,
Runtime(ids, d) == {i \in Credited(ids, d) : ~Standard(i)}

\* enum_indices are those before it,
Enumeration(ids, d) == {i \in Credited(ids, d) : Standard(i) /\ \A j \in Runtime(ids, d) : i < j}

\* and is_complete tells whether SET_CONFIGURATION is one of them.
IsComplete(ids, d) ==
  \E i \in Enumeration(ids, d) : trace[i].kind = "configure"

\* _build_enumeration: configuration and phase in one answer.
EnumerationOf(merged, d) ==
  LET ids == DeviceIds(merged)
  IN [configuration |-> merged[d].configuration,
      indices |-> Enumeration(ids, d), complete |-> IsComplete(ids, d)]

-----------------------------------------------------------------------------
\* enumerate_usb_devices: what is attached, with the ids of device_id_for and
\* identity_capture_id.
Live(at) ==
  {[addr |-> at[u], id |-> AddressId(at[u]), identity |-> IdentityId(model[u])]
     : u \in {v \in Units : at[v] # Away}}

\* The snapshot of detect-device before the prompt, taken when the capture began.
PlaceBefore ==
  [u \in Units |-> IF \E g \in given : g.unit = u /\ ~g.new
                   THEN (CHOOSE g \in given : g.unit = u /\ ~g.new).addr ELSE Away]

\* Mutant: by what stays the same across a replug.
DiffByIdentity(before, after) == {d \in after : \A b \in before : b.identity # d.identity}

\* diff_snapshots
Diff(before, after) == {d \in after : \A b \in before : b.id # d.id}

\* run_detect reports a device if it is the only new one.
Detected ==
  LET new == Diff(Live(PlaceBefore), Live(place))
  IN {d \in new : Cardinality(new) = 1}

-----------------------------------------------------------------------------
WorldTypeOK ==
  /\ model \in [Units -> Models]
  /\ place \in [Units -> Addresses \cup {Away}]
  /\ step \in [Units -> 1..Configured]
  /\ given \subseteq [addr : Addresses, unit : Units, from : Nat, new : BOOLEAN]
  /\ trace \in Seq(Transfers)

\* An address is assigned more than once.
Reassigned(a) == \E g, h \in given : g # h /\ g.addr = a /\ h.addr = a

\* A unit's packets go to another model only with a complaint (session.py:1188,
\* session.py:1388): whenever a unit has shown its descriptor at an address, and
\* validate is silent, its packets there are credited to its own model.
MisattributionIsReported ==
  IdentityConflicts = {} =>
    \A i, j \in DOMAIN trace :
      /\ trace[i].unit = trace[j].unit /\ trace[i].addr = trace[j].addr
      /\ trace[i].kind = "device" /\ trace[i].answered
      => IdOf(trace[j].addr) = IdentityId(model[trace[i].unit])

\* Overlapping ranges tell two units from one that was replugged
\* (session.py:1343), unless an address was used twice: one complaint means two units of the model...
OverMergeIsTwoUnits ==
  \A p \in OverMerges :
    \/ Reassigned(p[1]) \/ Reassigned(p[2])
    \/ \E i \in At(p[1]), j \in At(p[2]) :
         /\ trace[i].unit # trace[j].unit
         /\ IdOf(p[1]) = IdentityId(model[trace[i].unit])
         /\ IdOf(p[2]) = IdentityId(model[trace[j].unit])

\* ... and two units whose packets alternate do not go unnoticed.
TwoUnitsAreReported ==
  \A i, j, k \in DOMAIN trace :
    /\ i < j /\ j < k /\ trace[i].addr = trace[k].addr /\ trace[j].addr # trace[i].addr
    /\ 0 \notin {trace[i].addr, trace[j].addr}
    /\ IdOf(trace[i].addr) = IdOf(trace[j].addr)
    => \E p \in OverMerges : {p[1], p[2]} = {trace[i].addr, trace[j].addr}

\* A device is reported once (session.py:1168), under the id by which its
\* packets are found: page by page, a client finds as many packets at an endpoint of that
\* id as the summary counts; and the address reported is that of the last one.  The
\* configuration is read twice (session.py:1400), and again after a replug: whenever the
\* capture holds one with interfaces, the summary has one.
SummariesAddUp ==
  \A merged \in {Merged} : \A ids \in {DeviceIds(merged)} :
     \A d \in DOMAIN merged :
       LET summary == Summary(merged, d)
       IN /\ \A e \in {0, 1} : \A matches \in {GetPackets(ids, d, e)} :
               LET read == Paged(matches, PageLimit)
               IN summary.count[e] = Len(read) + Cardinality({k \in DOMAIN read : trace[read[k]].answered})
          /\ merged[d].last \in Credited(ids, d) /\ merged[d].first \in Credited(ids, d)
          /\ \A i \in Credited(ids, d) : merged[d].first <= i /\ i <= merged[d].last
          /\ summary.dev = trace[merged[d].last].addr
          /\ (\E a \in merged[d].addresses : Answers(a, "configuration") # {})
               => summary.class # None

\* The enumeration of a device that was plugged in during the capture is found whole
\* (session.py:1556), whatever runs beside it: if all packets of the id are of one unit at one
\* assigned address, it is what comes before that unit's first own traffic.
EnumerationIsWhole ==
  \A g \in given :
    /\ g.new /\ g.addr \in Seen
    /\ \A h \in given : h = g \/ (h.unit # g.unit /\ h.addr # g.addr)
    => \A merged \in {Merged} : \A ids \in {DeviceIds(merged)} :
         LET own == Credited(ids, ids[g.addr])
             view == EnumerationOf(merged, ids[g.addr])
         IN (\A i \in own : trace[i].unit = g.unit) =>
              /\ {i \in own : trace[i].kind # "data"} \subseteq view.indices
              /\ view.complete <=> \E i \in own : trace[i].kind = "configure"

\* detect-device finds what the analyst plugs in (detect_device.py:45), although a unit of its
\* model may be attached already: if one unit was plugged in since the first
\* snapshot, and not at an address in it, that unit is found; and if the capture
\* has its descriptor, it is there under the id that the live tools give.
DetectionFindsArrival ==
  \A g \in given :
    /\ g.new /\ place[g.unit] = g.addr
    /\ \A h \in given : h = g \/ (~h.new /\ h.addr # g.addr)
    => \E d \in Detected :
         /\ d.addr = g.addr
         /\ Answers(g.addr, "device") # {} => IdOf(g.addr) = d.identity
=============================================================================
