----------------------------- MODULE UrbPairing -----------------------------
(***************************************************************************)
(* From usbmon records back to transfers.  A bus runs transfers under URB  *)
(* ids it reuses; a capture that starts and ends in the middle of the      *)
(* traffic, and that may miss records, sees their submissions ("S") and    *)
(* completions or errors ("C").  Two passes over the records undo this:    *)
(* pair_urbs (urb_decoder.py) builds the transactions, and the enumeration *)
(* classifier (session.py) flags the records of standard ep0 requests.     *)
(*                                                                         *)
(* Both passes look at one record after the other in capture order, so     *)
(* what they hold after a prefix does not depend on when they run: the     *)
(* model runs them as the records appear.  A record is the transfer and    *)
(* the half it stands for, which the code never sees: it has the URB id.   *)
(* An isochronous record, which the loader skips, is one that is missed.   *)
(* The kinds of transfer are the classes the classifier tells apart:       *)
(* standard and other requests on ep0, ep0 submissions without a setup     *)
(* packet ("bare"), and everything else ("data").                          *)
(***************************************************************************)
EXTENDS Naturals

CONSTANTS
  Transfers,   \* what really happens on the bus
  Urbs,        \* URB ids, which the kernel reuses
  None,        \* Python's None for a missing half
  MaxMissed    \* bound: records the capture misses while it runs

ASSUME UrbPairingAssumption ==
  /\ None \notin Transfers
  /\ MaxMissed \in Nat

VARIABLES
  status,      \* the bus: how far each transfer is
  urb,         \* the bus: the URB id of a submitted transfer
  kind,        \* the bus: its kind
  mode,        \* whether the capture is recording
  missed,      \* how many records it missed while recording
  seen,        \* the records in the file
  pending,     \* pair_urbs: pending
  yielded,     \* pair_urbs: the transactions <<submission, completion>>
  open,        \* _classify_enumeration_records: open_standard
  flagged      \* _classify_enumeration_records: the records flagged True

busVars == <<status, urb, kind>>
pairVars == <<pending, yielded>>
flagVars == <<open, flagged>>
vars == <<busVars, mode, missed, seen, pairVars, flagVars>>

-----------------------------------------------------------------------------
Kinds == {"standard", "vendor", "bare", "data"}
Sub(t) == <<t, "S">>
Comp(t) == <<t, "C">>
Records == Transfers \X {"S", "C"}

Init ==
  /\ status = [t \in Transfers |-> "new"]
  /\ urb \in {[t \in Transfers |-> u] : u \in Urbs}
  /\ kind = [t \in Transfers |-> "data"]
  /\ mode = "before"
  /\ missed = 0
  /\ seen = {}
  /\ pending = [u \in Urbs |-> None]
  /\ yielded = {}
  /\ open = [u \in Urbs |-> "none"]
  /\ flagged = {}

\* Mutant: the replaced submission is dropped instead of yielded.
PairSubmissionDrops(t, u) ==
  /\ yielded' = yielded
  /\ pending' = [pending EXCEPT ![u] = t]

\* pair_urbs on a submission: one that is still pending under the same URB id
\* is yielded as an orphan and replaced.
PairSubmission(t, u) ==
  /\ yielded' = yielded \cup {<<s, None>> : s \in {pending[u]} \ {None}}
  /\ pending' = [pending EXCEPT ![u] = t]

\* Mutant: get where the code has pop.
PairCompletionKeeps(t, u) ==
  /\ yielded' = yielded \cup {<<pending[u], t>>}
  /\ UNCHANGED pending

\* pair_urbs on a completion or an error.
PairCompletion(t, u) ==
  /\ yielded' = yielded \cup {<<pending[u], t>>}
  /\ pending' = [pending EXCEPT ![u] = None]

Flag(r, standard) == flagged' = IF standard THEN flagged \cup {r} ELSE flagged

\* The classifier meets an ep0 record that is no submission with a setup
\* packet: it goes by what is open under the URB id, standard by default.
ClassifyOther(r, u) ==
  /\ Flag(r, open[u] # "vendor")
  /\ open' = [open EXCEPT ![u] = "none"]

\* Mutant: setdefault where the code assigns.
ClassifySubmissionSticky(t, u, k) ==
  CASE k \in {"standard", "vendor"} ->
         /\ open' = [open EXCEPT ![u] = IF @ = "none" THEN k ELSE @]
         /\ Flag(Sub(t), k = "standard")
    [] k = "bare" -> ClassifyOther(Sub(t), u)
    [] OTHER -> UNCHANGED flagVars

\* The classifier meets a submission.
ClassifySubmission(t, u, k) ==
  CASE k \in {"standard", "vendor"} ->
         /\ open' = [open EXCEPT ![u] = k]
         /\ Flag(Sub(t), k = "standard")
    [] k = "bare" -> ClassifyOther(Sub(t), u)
    [] OTHER -> UNCHANGED flagVars

\* The classifier meets a completion or an error.
ClassifyCompletion(t, u, k) ==
  IF k = "data" THEN UNCHANGED flagVars ELSE ClassifyOther(Comp(t), u)

\* A record the capture does not get: outside its span, or missed inside.
Unseen ==
  /\ IF mode = "recording"
     THEN missed < MaxMissed /\ missed' = missed + 1
     ELSE UNCHANGED missed
  /\ UNCHANGED <<seen, pairVars, flagVars>>

\* The bus submits a transfer; its URB id is one that no transfer uses.
Submit(t, u, k) ==
  /\ status[t] = "new"
  /\ \A s \in Transfers : status[s] = "flying" => urb[s] # u
  /\ status' = [status EXCEPT ![t] = "flying"]
  /\ urb' = [urb EXCEPT ![t] = u]
  /\ kind' = [kind EXCEPT ![t] = k]
  /\ UNCHANGED mode
  /\ \/ Unseen
     \/ /\ mode = "recording"
        /\ seen' = seen \cup {Sub(t)}
        /\ PairSubmission(t, u)
        /\ ClassifySubmission(t, u, k)
        /\ UNCHANGED missed

\* The bus completes a transfer.
Complete(t) ==
  /\ status[t] = "flying"
  /\ status' = [status EXCEPT ![t] = "done"]
  /\ UNCHANGED <<urb, kind, mode>>
  /\ \/ Unseen
     \/ /\ mode = "recording"
        /\ seen' = seen \cup {Comp(t)}
        /\ PairCompletion(t, urb[t])
        /\ ClassifyCompletion(t, urb[t], kind[t])
        /\ UNCHANGED missed

StartRecording ==
  /\ mode = "before"
  /\ mode' = "recording"
  /\ UNCHANGED <<busVars, missed, seen, pairVars, flagVars>>

\* Mutant: pair_urbs forgets what is pending at the end of its input.
EndOfInputForgets ==
  /\ mode = "recording"
  /\ mode' = "ended"
  /\ pending' = [u \in Urbs |-> None]
  /\ UNCHANGED <<busVars, missed, seen, yielded, flagVars>>

\* The input of pair_urbs is exhausted: what is pending is yielded.
EndOfInput ==
  /\ mode = "recording"
  /\ mode' = "ended"
  /\ yielded' = yielded \cup {<<pending[u], None>> : u \in {v \in Urbs : pending[v] # None}}
  /\ pending' = [u \in Urbs |-> None]
  /\ UNCHANGED <<busVars, missed, seen, flagVars>>

Next ==
  \/ \E t \in Transfers :
       \/ \E u \in Urbs, k \in Kinds : Submit(t, u, k)
       \/ Complete(t)
  \/ StartRecording
  \/ EndOfInput

Spec == Init /\ [][Next]_vars

-----------------------------------------------------------------------------
Halves == Transfers \cup {None}

TypeOK ==
  /\ status \in [Transfers -> {"new", "flying", "done"}]
  /\ urb \in [Transfers -> Urbs]
  /\ kind \in [Transfers -> Kinds]
  /\ mode \in {"before", "recording", "ended"}
  /\ missed \in 0..MaxMissed
  /\ seen \in SUBSET Records
  /\ pending \in [Urbs -> Halves]
  /\ yielded \in SUBSET (Halves \X Halves)
  /\ open \in [Urbs -> {"none", "standard", "vendor"}]
  /\ flagged \in SUBSET seen

\* A transfer whose two records are in the file is one transaction with both
\* halves, and neither half shows up in another: whatever records are missing
\* around it and however often its URB id is reused (pair_urbs).
WholeTransfersPair ==
  \A t \in Transfers : Sub(t) \in seen /\ Comp(t) \in seen =>
    \A x \in yielded : x[1] = t \/ x[2] = t => x = <<t, t>>

\* No record is lost or used twice: every recorded half is in exactly one
\* place, a transaction or pending, and at the end of the input in a
\* transaction (urb_decoder.py:343, "rather than silently dropping data").
EveryRecordOnce ==
  \A t \in Transfers :
    /\ Sub(t) \in seen <=> (\E x \in yielded : x[1] = t) \/ (\E u \in Urbs : pending[u] = t)
    /\ Comp(t) \in seen <=> \E x \in yielded : x[2] = t
    /\ \A x, y \in yielded : (x[1] = t /\ y[1] = t) \/ (x[2] = t /\ y[2] = t) => x = y
    /\ \A u \in Urbs, x \in yielded : pending[u] = t => x[1] # t
    /\ mode = "ended" => \A u \in Urbs : pending[u] # t

\* The two passes agree on whose completion a completion is: if both records
\* of an ep0 request are in the file, they are flagged alike, and flagged as
\* enumeration exactly if the request was a standard one.
FlagsAreTrue ==
  \A t \in Transfers :
    /\ kind[t] = "data" => Sub(t) \notin flagged /\ Comp(t) \notin flagged
    /\ (kind[t] \in {"standard", "vendor"} /\ Sub(t) \in seen) =>
         /\ Sub(t) \in flagged <=> kind[t] = "standard"
         /\ Comp(t) \in seen => (Comp(t) \in flagged <=> kind[t] = "standard")

\* What makes these inductive.  What is pending is a submission in the file
\* whose completion is not, and while the capture records, the submission of
\* a transfer in flight is pending under its URB id.
PendingIsOpen ==
  /\ \A u \in Urbs : pending[u] # None =>
       /\ urb[pending[u]] = u
       /\ Sub(pending[u]) \in seen
       /\ Comp(pending[u]) \notin seen
  /\ \A t \in Transfers :
       mode = "recording" /\ status[t] = "flying" /\ Sub(t) \in seen => pending[urb[t]] = t

\* The classifier has a request in flight open under its URB id.
OpenIsTrue ==
  \A t \in Transfers :
    mode = "recording" /\ status[t] = "flying" /\ Sub(t) \in seen /\ kind[t] \in {"standard", "vendor"}
      => open[urb[t]] = kind[t]

\* Records are of transfers that got that far, and one URB id serves one
\* transfer at a time.
SeenHappened ==
  /\ mode = "before" => seen = {} /\ yielded = {} /\ pending = [u \in Urbs |-> None]
  /\ \A t \in Transfers :
       /\ Sub(t) \in seen => status[t] # "new"
       /\ Comp(t) \in seen => status[t] = "done"
  /\ \A s, t \in Transfers :
       status[s] = "flying" /\ status[t] = "flying" /\ urb[s] = urb[t] => s = t

\* The inductive invariant.
IInv ==
  /\ TypeOK
  /\ SeenHappened
  /\ PendingIsOpen
  /\ EveryRecordOnce
  /\ WholeTransfersPair
  /\ OpenIsTrue
  /\ FlagsAreTrue

=============================================================================
