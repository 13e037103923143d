-------------------------- MODULE UrbPairingProofs --------------------------
(***************************************************************************)
(* UrbPairing for any number of transfers, URB ids and missed records: a   *)
(* transfer recorded whole is paired whole, every record is used once, and *)
(* the enumeration flags agree with it.                                    *)
(***************************************************************************)
EXTENDS UrbPairing, TLAPS

\* Init establishes the inductive invariant.
LEMMA InitIInv == Init => IInv
<1> SUFFICES ASSUME Init PROVE IInv
  OBVIOUS
<1> USE UrbPairingAssumption DEF Init
<1>1. TypeOK
  BY DEF TypeOK, Kinds, Halves
<1>2. SeenHappened /\ PendingIsOpen /\ OpenIsTrue /\ WholeTransfersPair
  BY DEF SeenHappened, PendingIsOpen, OpenIsTrue, WholeTransfersPair
<1>3. EveryRecordOnce /\ FlagsAreTrue
  BY DEF EveryRecordOnce, FlagsAreTrue
<1> QED
  BY <1>1, <1>2, <1>3 DEF IInv

\* A transfer that is new has no record, is not pending and is not yielded.
LEMMA NewHasNoTrace ==
  ASSUME IInv, NEW t \in Transfers, status[t] = "new"
  PROVE  /\ Sub(t) \notin seen /\ Comp(t) \notin seen
         /\ \A u \in Urbs : pending[u] # t
         /\ \A x \in yielded : x[1] # t /\ x[2] # t
BY DEF IInv, SeenHappened, EveryRecordOnce

\* A submission the capture does not get keeps the invariant.
LEMMA SubmitUnseen ==
  ASSUME IInv, NEW t \in Transfers, NEW u \in Urbs, NEW k \in Kinds,
         Submit(t, u, k), Unseen
  PROVE  IInv'
<1> USE UrbPairingAssumption
<1>1. /\ status[t] = "new"
      /\ \A s \in Transfers : status[s] = "flying" => urb[s] # u
      /\ status' = [status EXCEPT ![t] = "flying"]
      /\ urb' = [urb EXCEPT ![t] = u]
      /\ kind' = [kind EXCEPT ![t] = k]
      /\ UNCHANGED <<mode, seen, pairVars, flagVars>>
      /\ missed' \in 0..MaxMissed
  BY DEF Submit, Unseen, IInv, TypeOK
<1>2. TypeOK'
  BY <1>1 DEF IInv, TypeOK, pairVars, flagVars
<1>3. SeenHappened'
  BY <1>1, NewHasNoTrace DEF IInv, TypeOK, SeenHappened, pairVars
<1>4. PendingIsOpen'
  BY <1>1, NewHasNoTrace DEF IInv, TypeOK, PendingIsOpen, Halves, pairVars
<1>5. EveryRecordOnce' /\ WholeTransfersPair'
  BY <1>1 DEF IInv, EveryRecordOnce, WholeTransfersPair, pairVars
<1>6. OpenIsTrue'
  BY <1>1, NewHasNoTrace DEF IInv, TypeOK, OpenIsTrue, flagVars
<1>7. FlagsAreTrue'
  BY <1>1, NewHasNoTrace DEF IInv, TypeOK, FlagsAreTrue, flagVars
<1> QED
  BY <1>2, <1>3, <1>4, <1>5, <1>6, <1>7 DEF IInv

\* A completion the capture does not get keeps the invariant.
LEMMA CompleteUnseen ==
  ASSUME IInv, NEW t \in Transfers, Complete(t), Unseen
  PROVE  IInv'
<1> USE UrbPairingAssumption
<1>1. /\ status[t] = "flying"
      /\ status' = [status EXCEPT ![t] = "done"]
      /\ UNCHANGED <<urb, kind, mode, seen, pairVars, flagVars>>
      /\ missed' \in 0..MaxMissed
  BY DEF Complete, Unseen, IInv, TypeOK
<1>2. TypeOK'
  BY <1>1 DEF IInv, TypeOK, pairVars, flagVars
<1>3. SeenHappened'
  BY <1>1 DEF IInv, TypeOK, SeenHappened, pairVars
<1>4. PendingIsOpen'
  BY <1>1 DEF IInv, TypeOK, PendingIsOpen, pairVars
<1>5. EveryRecordOnce' /\ WholeTransfersPair'
  BY <1>1 DEF IInv, EveryRecordOnce, WholeTransfersPair, pairVars
<1>6. OpenIsTrue' /\ FlagsAreTrue'
  BY <1>1 DEF IInv, TypeOK, OpenIsTrue, FlagsAreTrue, flagVars
<1> QED
  BY <1>2, <1>3, <1>4, <1>5, <1>6 DEF IInv

\* A recorded submission keeps the invariant: it becomes pending, and the one
\* it replaces becomes an orphan transaction.
LEMMA SubmitSeen ==
  ASSUME IInv, NEW t \in Transfers, NEW u \in Urbs, NEW k \in Kinds,
         Submit(t, u, k), ~Unseen
  PROVE  IInv'
<1> USE UrbPairingAssumption
<1>1. /\ status[t] = "new"
      /\ \A s \in Transfers : status[s] = "flying" => urb[s] # u
      /\ status' = [status EXCEPT ![t] = "flying"]
      /\ urb' = [urb EXCEPT ![t] = u]
      /\ kind' = [kind EXCEPT ![t] = k]
      /\ mode = "recording" /\ mode' = mode
      /\ seen' = seen \cup {Sub(t)}
      /\ UNCHANGED missed
  BY DEF Submit
<1>2. /\ yielded' = yielded \cup {<<s, None>> : s \in {pending[u]} \ {None}}
      /\ pending' = [pending EXCEPT ![u] = t]
  BY DEF Submit, PairSubmission
<1>3. \/ /\ k \in {"standard", "vendor"}
         /\ open' = [open EXCEPT ![u] = k]
         /\ flagged' = IF k = "standard" THEN flagged \cup {Sub(t)} ELSE flagged
      \/ /\ k = "bare"
         /\ open' = [open EXCEPT ![u] = "none"]
         /\ flagged' \in {flagged, flagged \cup {Sub(t)}}
      \/ k = "data" /\ UNCHANGED <<open, flagged>>
  <2>1. ClassifySubmission(t, u, k)
    BY DEF Submit
  <2>2. CASE k \in {"standard", "vendor"}
    BY <2>1, <2>2 DEF ClassifySubmission, Flag
  <2>3. CASE k = "bare"
    BY <2>1, <2>3 DEF ClassifySubmission, ClassifyOther, Flag
  <2>4. CASE k = "data"
    BY <2>1, <2>4 DEF ClassifySubmission, flagVars
  <2> QED
    BY <2>2, <2>3, <2>4 DEF Kinds
<1>4. pending[u] = None \/ pending[u] \in Transfers
  BY DEF IInv, TypeOK, Halves
<1>5. TypeOK'
  <2>1. /\ flagged' \in SUBSET seen'
        /\ open' \in [Urbs -> {"none", "standard", "vendor"}]
    BY <1>1, <1>3 DEF IInv, TypeOK
  <2>2. yielded' \in SUBSET (Halves \X Halves) /\ pending' \in [Urbs -> Halves]
    BY <1>2, <1>4 DEF IInv, TypeOK, Halves
  <2> QED
    BY <1>1, <2>1, <2>2 DEF IInv, TypeOK, Records, Sub
<1>6. SeenHappened'
  BY <1>1 DEF IInv, TypeOK, SeenHappened, Sub, Comp
<1>7. PendingIsOpen'
  BY <1>1, <1>2, NewHasNoTrace DEF IInv, TypeOK, PendingIsOpen, Halves, Sub, Comp
<1>8. EveryRecordOnce'
  <2> SUFFICES ASSUME NEW s \in Transfers
               PROVE  /\ Sub(s) \in seen' <=> (\E x \in yielded' : x[1] = s) \/ (\E v \in Urbs : pending'[v] = s)
                      /\ Comp(s) \in seen' <=> \E x \in yielded' : x[2] = s
                      /\ \A x, y \in yielded' : (x[1] = s /\ y[1] = s) \/ (x[2] = s /\ y[2] = s) => x = y
                      /\ \A v \in Urbs, x \in yielded' : pending'[v] = s => x[1] # s
                      /\ mode' = "ended" => \A v \in Urbs : pending'[v] # s
    BY DEF EveryRecordOnce
  <2>0. \A x \in yielded' : x \in yielded \/ (pending[u] # None /\ x[1] = pending[u] /\ x[2] = None)
    BY <1>2
  <2>1. \A v \in Urbs : pending[u] # None /\ pending[v] = pending[u] => v = u
    BY DEF IInv, PendingIsOpen
  <2>2. CASE s = t
    BY <1>1, <1>2, <1>4, <2>0, <2>2, NewHasNoTrace DEF IInv, TypeOK, Sub, Comp
  <2>3. CASE s # t /\ s = pending[u]
    <3>1. <<s, None>> \in yielded'
      BY <1>2, <2>3
    <3>2. \A x \in yielded : x[1] # s
      BY <2>3 DEF IInv, EveryRecordOnce
    <3>3. \A v \in Urbs : pending'[v] # s
      BY <1>2, <2>1, <2>3 DEF IInv, TypeOK
    <3> QED
      BY <1>1, <1>2, <2>0, <2>3, <3>1, <3>2, <3>3
      DEF IInv, TypeOK, EveryRecordOnce, Sub, Comp
  <2>4. CASE s # t /\ s # pending[u]
    <3>1. \A x \in yielded' : x[1] = s \/ x[2] = s => x \in yielded
      BY <2>0, <2>4
    <3>2. \A v \in Urbs : pending'[v] = s <=> pending[v] = s
      BY <1>2, <2>4 DEF IInv, TypeOK
    <3>3. yielded \subseteq yielded'
      BY <1>2
    <3> QED
      BY <1>1, <2>4, <3>1, <3>2, <3>3 DEF IInv, EveryRecordOnce, Sub, Comp
  <2> QED
    BY <2>2, <2>3, <2>4
<1>9. WholeTransfersPair'
  <2> SUFFICES ASSUME NEW s \in Transfers, Sub(s) \in seen', Comp(s) \in seen',
                      NEW x \in yielded', x[1] = s \/ x[2] = s
               PROVE  x = <<s, s>>
    BY DEF WholeTransfersPair
  <2>1. s # t /\ Sub(s) \in seen /\ Comp(s) \in seen
    BY <1>1, NewHasNoTrace DEF Sub, Comp
  <2>2. s # pending[u]
    BY <2>1 DEF IInv, PendingIsOpen
  <2>3. x \in yielded
    BY <1>2, <2>2
  <2> QED
    BY <2>1, <2>3 DEF IInv, WholeTransfersPair
<1>10. OpenIsTrue'
  BY <1>1, <1>3 DEF IInv, TypeOK, OpenIsTrue, Sub
<1>11. FlagsAreTrue'
  <2> SUFFICES ASSUME NEW s \in Transfers
               PROVE  /\ kind'[s] = "data" => Sub(s) \notin flagged' /\ Comp(s) \notin flagged'
                      /\ (kind'[s] \in {"standard", "vendor"} /\ Sub(s) \in seen') =>
                           /\ Sub(s) \in flagged' <=> kind'[s] = "standard"
                           /\ Comp(s) \in seen' => (Comp(s) \in flagged' <=> kind'[s] = "standard")
    BY DEF FlagsAreTrue
  <2>1. CASE s = t
    <3>1. Sub(t) \notin flagged /\ Comp(t) \notin flagged /\ Comp(t) \notin seen'
      BY <1>1, NewHasNoTrace DEF IInv, TypeOK, Sub, Comp
    <3>2. kind'[s] = k
      BY <1>1, <2>1 DEF IInv, TypeOK
    <3> QED
      BY <1>3, <2>1, <3>1, <3>2 DEF Sub, Comp
  <2>2. CASE s # t
    <3>1. /\ Sub(s) \in flagged' <=> Sub(s) \in flagged
          /\ Comp(s) \in flagged' <=> Comp(s) \in flagged
          /\ Sub(s) \in seen' <=> Sub(s) \in seen
          /\ Comp(s) \in seen' <=> Comp(s) \in seen
      BY <1>1, <1>3, <2>2 DEF Sub, Comp
    <3>2. kind'[s] = kind[s]
      BY <1>1, <2>2 DEF IInv, TypeOK
    <3> QED
      BY <3>1, <3>2 DEF IInv, FlagsAreTrue
  <2> QED
    BY <2>1, <2>2
<1> QED
  BY <1>5, <1>6, <1>7, <1>8, <1>9, <1>10, <1>11 DEF IInv

\* A recorded completion keeps the invariant: it takes what is pending under
\* its URB id, which is its own submission if that was recorded.
LEMMA CompleteSeen ==
  ASSUME IInv, NEW t \in Transfers, Complete(t), ~Unseen
  PROVE  IInv'
<1> USE UrbPairingAssumption
<1> DEFINE u == urb[t]
<1>1. /\ status[t] = "flying"
      /\ status' = [status EXCEPT ![t] = "done"]
      /\ UNCHANGED <<urb, kind, missed>>
      /\ mode = "recording" /\ mode' = mode
      /\ seen' = seen \cup {Comp(t)}
  BY DEF Complete
<1>2. /\ yielded' = yielded \cup {<<pending[u], t>>}
      /\ pending' = [pending EXCEPT ![u] = None]
  BY DEF Complete, PairCompletion
<1>3. \/ /\ kind[t] = "data" /\ UNCHANGED <<open, flagged>>
      \/ /\ kind[t] # "data"
         /\ open' = [open EXCEPT ![u] = "none"]
         /\ flagged' = IF open[u] # "vendor" THEN flagged \cup {Comp(t)} ELSE flagged
  BY DEF Complete, ClassifyCompletion, ClassifyOther, Flag, flagVars
<1>4. u \in Urbs /\ Comp(t) \notin seen /\ (Sub(t) \in seen <=> pending[u] = t)
  BY <1>1 DEF IInv, TypeOK, SeenHappened, PendingIsOpen
<1>5. pending[u] = None \/ pending[u] \in Transfers
  BY <1>4 DEF IInv, TypeOK, Halves
<1>6. TypeOK'
  <2>1. /\ flagged' \in SUBSET seen'
        /\ open' \in [Urbs -> {"none", "standard", "vendor"}]
    BY <1>1, <1>3 DEF IInv, TypeOK
  <2>2. yielded' \in SUBSET (Halves \X Halves) /\ pending' \in [Urbs -> Halves]
    BY <1>2, <1>5 DEF IInv, TypeOK, Halves
  <2> QED
    BY <1>1, <2>1, <2>2 DEF IInv, TypeOK, Records, Comp
<1>7. SeenHappened'
  BY <1>1 DEF IInv, TypeOK, SeenHappened, Sub, Comp
<1>8. \A v \in Urbs : pending[v] # None => pending'[v] = pending[v] \/ v = u
  BY <1>2 DEF IInv, TypeOK
<1>9. \A v \in Urbs : v # u => pending[v] # t
  BY DEF IInv, PendingIsOpen
<1>10. PendingIsOpen'
  <2>1. \A v \in Urbs : pending'[v] # None => v # u /\ pending'[v] = pending[v]
    BY <1>2, <1>4 DEF IInv, TypeOK
  <2>2. ASSUME NEW v \in Urbs, pending'[v] # None
        PROVE  urb'[pending'[v]] = v /\ Sub(pending'[v]) \in seen' /\ Comp(pending'[v]) \notin seen'
    BY <1>1, <1>9, <2>1, <2>2 DEF IInv, PendingIsOpen, Sub, Comp
  <2>3. ASSUME NEW s \in Transfers, status'[s] = "flying", Sub(s) \in seen'
        PROVE  pending'[urb'[s]] = s
    <3>1. s # t /\ status[s] = "flying" /\ Sub(s) \in seen
      BY <1>1, <2>3 DEF IInv, TypeOK, Sub, Comp
    <3>2. urb[s] # u /\ urb[s] \in Urbs
      BY <1>1, <3>1 DEF IInv, TypeOK, SeenHappened
    <3> QED
      BY <1>1, <1>2, <3>1, <3>2 DEF IInv, TypeOK, PendingIsOpen
  <2> QED
    BY <1>1, <2>2, <2>3 DEF PendingIsOpen
<1>11. \A x \in yielded : x[2] # t
  BY <1>4 DEF IInv, EveryRecordOnce
<1>12. \A x \in yielded' : x \in yielded \/ x = <<pending[u], t>>
  BY <1>2
<1>13. EveryRecordOnce'
  <2> SUFFICES ASSUME NEW s \in Transfers
               PROVE  /\ Sub(s) \in seen' <=> (\E x \in yielded' : x[1] = s) \/ (\E v \in Urbs : pending'[v] = s)
                      /\ Comp(s) \in seen' <=> \E x \in yielded' : x[2] = s
                      /\ \A x, y \in yielded' : (x[1] = s /\ y[1] = s) \/ (x[2] = s /\ y[2] = s) => x = y
                      /\ \A v \in Urbs, x \in yielded' : pending'[v] = s => x[1] # s
                      /\ mode' = "ended" => \A v \in Urbs : pending'[v] # s
    BY DEF EveryRecordOnce
  <2>1. <<pending[u], t>> \in yielded' /\ yielded \subseteq yielded'
    BY <1>2
  <2>2. Sub(s) \in seen' <=> Sub(s) \in seen
    BY <1>1 DEF Sub, Comp
  <2>3. Comp(s) \in seen' <=> Comp(s) \in seen \/ s = t
    BY <1>1 DEF Comp
  <2>4. CASE s = pending[u]
    <3>1. \A x \in yielded : x[1] # s
      BY <1>4, <2>4 DEF IInv, EveryRecordOnce
    <3>2. \A v \in Urbs : pending'[v] # s
      BY <1>2, <1>4, <2>4, UrbPairingAssumption DEF IInv, TypeOK, PendingIsOpen
    <3>3. Sub(s) \in seen
      BY <1>4, <2>4 DEF IInv, EveryRecordOnce
    <3>4. Comp(s) \in seen' <=> \E x \in yielded' : x[2] = s
      BY <1>12, <2>1, <2>3 DEF IInv, EveryRecordOnce
    <3>5. \A x, y \in yielded' : (x[1] = s /\ y[1] = s) \/ (x[2] = s /\ y[2] = s) => x = y
      BY <1>11, <1>12, <3>1 DEF IInv, EveryRecordOnce
    <3> QED
      BY <1>1, <2>1, <2>2, <2>4, <3>2, <3>3, <3>4, <3>5
  <2>5. CASE s # pending[u]
    <3>1. \A x \in yielded' : x[1] = s => x \in yielded
      BY <1>12, <2>5
    <3>2. \A v \in Urbs : pending'[v] = s <=> pending[v] = s
      BY <1>2, <1>4, <2>5, UrbPairingAssumption DEF IInv, TypeOK
    <3>3. Comp(s) \in seen' <=> \E x \in yielded' : x[2] = s
      BY <1>12, <2>1, <2>3 DEF IInv, EveryRecordOnce
    <3>4. \A x, y \in yielded' : (x[1] = s /\ y[1] = s) \/ (x[2] = s /\ y[2] = s) => x = y
      BY <1>11, <1>12, <3>1 DEF IInv, EveryRecordOnce
    <3> QED
      BY <1>1, <2>1, <2>2, <3>1, <3>2, <3>3, <3>4 DEF IInv, EveryRecordOnce
  <2> QED
    BY <2>4, <2>5
<1>14. WholeTransfersPair'
  <2> SUFFICES ASSUME NEW s \in Transfers, Sub(s) \in seen', Comp(s) \in seen',
                      NEW x \in yielded', x[1] = s \/ x[2] = s
               PROVE  x = <<s, s>>
    BY DEF WholeTransfersPair
  <2>1. Sub(s) \in seen
    BY <1>1 DEF Sub, Comp
  <2>2. CASE s = t
    <3>1. pending[u] = t
      BY <1>4, <2>1, <2>2
    <3>2. \A y \in yielded : y[1] # t
      BY <1>4, <3>1 DEF IInv, EveryRecordOnce
    <3> QED
      BY <1>11, <1>12, <2>2, <3>1, <3>2
  <2>3. CASE s # t
    <3>1. Comp(s) \in seen
      BY <1>1, <2>3 DEF Comp
    <3>2. pending[u] # s
      BY <1>4, <3>1 DEF IInv, PendingIsOpen
    <3> QED
      BY <1>12, <2>1, <2>3, <3>1, <3>2 DEF IInv, WholeTransfersPair
  <2> QED
    BY <2>2, <2>3
<1>15. OpenIsTrue'
  <2> SUFFICES ASSUME NEW s \in Transfers, status'[s] = "flying", Sub(s) \in seen',
                      kind'[s] \in {"standard", "vendor"}
               PROVE  open'[urb'[s]] = kind'[s]
    BY DEF OpenIsTrue
  <2>1. s # t /\ status[s] = "flying" /\ Sub(s) \in seen
    BY <1>1 DEF IInv, TypeOK, Sub, Comp
  <2>2. urb[s] # u /\ urb[s] \in Urbs
    BY <1>1, <2>1 DEF IInv, TypeOK, SeenHappened
  <2>3. open[urb[s]] = kind[s]
    BY <1>1, <2>1 DEF IInv, OpenIsTrue
  <2> QED
    BY <1>1, <1>3, <2>2, <2>3 DEF IInv, TypeOK
<1>16. FlagsAreTrue'
  <2> SUFFICES ASSUME NEW s \in Transfers
               PROVE  /\ kind[s] = "data" => Sub(s) \notin flagged' /\ Comp(s) \notin flagged'
                      /\ (kind[s] \in {"standard", "vendor"} /\ Sub(s) \in seen') =>
                           /\ Sub(s) \in flagged' <=> kind[s] = "standard"
                           /\ Comp(s) \in seen' => (Comp(s) \in flagged' <=> kind[s] = "standard")
    BY <1>1 DEF FlagsAreTrue
  <2>1. /\ Sub(s) \in flagged' <=> Sub(s) \in flagged
        /\ Sub(s) \in seen' <=> Sub(s) \in seen
    BY <1>1, <1>3 DEF Sub, Comp
  <2>2. CASE s = t
    <3>1. Comp(t) \notin flagged
      BY <1>4 DEF IInv, TypeOK
    <3>2. kind[t] \in {"standard", "vendor"} /\ Sub(t) \in seen => open[u] = kind[t]
      BY <1>1 DEF IInv, OpenIsTrue
    <3> QED
      BY <1>3, <2>1, <2>2, <3>1, <3>2 DEF IInv, FlagsAreTrue
  <2>3. CASE s # t
    <3>1. /\ Comp(s) \in flagged' <=> Comp(s) \in flagged
          /\ Comp(s) \in seen' <=> Comp(s) \in seen
      BY <1>1, <1>3, <2>3 DEF Comp
    <3> QED
      BY <2>1, <3>1 DEF IInv, FlagsAreTrue
  <2> QED
    BY <2>2, <2>3
<1> QED
  BY <1>6, <1>7, <1>10, <1>13, <1>14, <1>15, <1>16 DEF IInv

\* The end of the input keeps the invariant: what was pending is yielded.
LEMMA EndKeepsIInv == IInv /\ EndOfInput => IInv'
<1> SUFFICES ASSUME IInv, EndOfInput PROVE IInv'
  OBVIOUS
<1> USE UrbPairingAssumption
<1>1. /\ mode = "recording" /\ mode' = "ended"
      /\ pending' = [u \in Urbs |-> None]
      /\ UNCHANGED <<busVars, missed, seen, flagVars>>
  BY DEF EndOfInput
<1>2. yielded' = yielded \cup {<<pending[u], None>> : u \in {v \in Urbs : pending[v] # None}}
  BY DEF EndOfInput
<1>3. \A x \in yielded' : \/ x \in yielded
                          \/ \E u \in Urbs : pending[u] # None /\ x = <<pending[u], None>>
  BY <1>2
<1>4. \A u \in Urbs : pending[u] # None => <<pending[u], None>> \in yielded'
  BY <1>2
<1>5. yielded \subseteq yielded'
  BY <1>2
<1>6. TypeOK'
  <2>1. yielded' \in SUBSET (Halves \X Halves)
    BY <1>3 DEF IInv, TypeOK, Halves
  <2> QED
    BY <1>1, <2>1 DEF IInv, TypeOK, Halves, busVars, flagVars
<1>7. SeenHappened' /\ PendingIsOpen' /\ OpenIsTrue' /\ FlagsAreTrue'
  BY <1>1 DEF IInv, SeenHappened, PendingIsOpen, OpenIsTrue, FlagsAreTrue, busVars, flagVars
<1>8. EveryRecordOnce'
  <2> SUFFICES ASSUME NEW s \in Transfers
               PROVE  /\ Sub(s) \in seen <=> \E x \in yielded' : x[1] = s
                      /\ Comp(s) \in seen <=> \E x \in yielded' : x[2] = s
                      /\ \A x, y \in yielded' : (x[1] = s /\ y[1] = s) \/ (x[2] = s /\ y[2] = s) => x = y
    BY <1>1 DEF EveryRecordOnce
  <2>1. Sub(s) \in seen <=> \E x \in yielded' : x[1] = s
    <3>1. ASSUME NEW v \in Urbs, pending[v] = s PROVE \E x \in yielded' : x[1] = s
      <4>1. <<s, None>> \in yielded' /\ <<s, None>>[1] = s
        BY <1>4, <3>1
      <4> QED
        BY <4>1
    <3>2. Sub(s) \in seen <=> (\E x \in yielded : x[1] = s) \/ (\E v \in Urbs : pending[v] = s)
      BY DEF IInv, EveryRecordOnce
    <3>3. ASSUME NEW x \in yielded', x[1] = s PROVE Sub(s) \in seen
      BY <1>3, <3>2, <3>3
    <3> QED
      BY <1>5, <3>1, <3>2, <3>3
  <2>2. Comp(s) \in seen <=> \E x \in yielded' : x[2] = s
    BY <1>3, <1>5 DEF IInv, EveryRecordOnce
  <2>3. \A x, y \in yielded' : x[2] = s /\ y[2] = s => x = y
    BY <1>3 DEF IInv, EveryRecordOnce
  <2>4. \A x, y \in yielded' : x[1] = s /\ y[1] = s => x = y
    BY <1>3 DEF IInv, EveryRecordOnce
  <2> QED
    BY <2>1, <2>2, <2>3, <2>4
<1>9. WholeTransfersPair'
  <2> SUFFICES ASSUME NEW s \in Transfers, Sub(s) \in seen, Comp(s) \in seen,
                      NEW x \in yielded', x[1] = s \/ x[2] = s
               PROVE  x = <<s, s>>
    BY <1>1 DEF WholeTransfersPair
  <2>1. \A u \in Urbs : pending[u] # s
    BY DEF IInv, PendingIsOpen
  <2>2. x \in yielded
    BY <1>3, <2>1
  <2> QED
    BY <2>2 DEF IInv, WholeTransfersPair
<1> QED
  BY <1>6, <1>7, <1>8, <1>9 DEF IInv

\* Every step keeps the inductive invariant.
LEMMA NextIInv == IInv /\ [Next]_vars => IInv'
<1> SUFFICES ASSUME IInv, [Next]_vars PROVE IInv'
  OBVIOUS
<1>1. CASE UNCHANGED vars
  BY <1>1 DEF vars, busVars, pairVars, flagVars, IInv, TypeOK, SeenHappened, PendingIsOpen,
     EveryRecordOnce, WholeTransfersPair, OpenIsTrue, FlagsAreTrue
<1>2. CASE StartRecording
  BY <1>2 DEF StartRecording, busVars, pairVars, flagVars, IInv, TypeOK, SeenHappened,
     PendingIsOpen, EveryRecordOnce, WholeTransfersPair, OpenIsTrue, FlagsAreTrue
<1>3. CASE EndOfInput
  BY <1>3, EndKeepsIInv
<1>4. CASE \E t \in Transfers, u \in Urbs, k \in Kinds : Submit(t, u, k)
  BY <1>4, SubmitSeen, SubmitUnseen
<1>5. CASE \E t \in Transfers : Complete(t)
  BY <1>5, CompleteSeen, CompleteUnseen
<1> QED
  BY <1>1, <1>2, <1>3, <1>4, <1>5 DEF Next

\* The inductive invariant holds in every reachable state.
THEOREM Invariance == Spec => []IInv
BY InitIInv, NextIInv, PTL DEF Spec

\* A transfer recorded whole is paired whole, whatever else is missing.
THEOREM WholeTransfersArePaired == Spec => []WholeTransfersPair
<1>1. IInv => WholeTransfersPair
  BY DEF IInv
<1> QED
  BY <1>1, Invariance, PTL

\* pair_urbs uses every record it is given exactly once.
THEOREM RecordsAreUsedOnce == Spec => []EveryRecordOnce
<1>1. IInv => EveryRecordOnce
  BY DEF IInv
<1> QED
  BY <1>1, Invariance, PTL

\* The enumeration flags follow the requests they belong to.
THEOREM FlagsFollowRequests == Spec => []FlagsAreTrue
<1>1. IInv => FlagsAreTrue
  BY DEF IInv
<1> QED
  BY <1>1, Invariance, PTL
=============================================================================
