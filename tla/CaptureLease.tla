---------------------------- MODULE CaptureLease ----------------------------
(***************************************************************************)
(* What the live-capture tools promise about the one capture slot of a     *)
(* session, with no tool call, timeout or file in sight: the slot is a     *)
(* lease.  A capture acquires it once, its thread runs only while it holds *)
(* it, and it gives it back only after that thread is gone.  Between two   *)
(* tool calls the lease is parked: still held, but free to be claimed by   *)
(* the next stop_capture.  LiveCapture is shown to implement this module.  *)
(***************************************************************************)
CONSTANTS
  Captures,   \* capture objects: one per start_capture call
  NoCapture   \* the session holds no live capture

VARIABLES
  holder,     \* the capture that owns the session
  busy,       \* a tool call is working on the holder
  life        \* the capture thread of every capture

vars == <<holder, busy, life>>

Init ==
  /\ holder = NoCapture
  /\ busy = FALSE
  /\ life = [c \in Captures |-> "unborn"]

Acquire(c) ==
  /\ holder = NoCapture
  /\ life[c] = "unborn"
  /\ holder' = c
  /\ busy' = TRUE
  /\ UNCHANGED life

Spawn(c) ==
  /\ holder = c
  /\ busy
  /\ life[c] = "unborn"
  /\ life' = [life EXCEPT ![c] = "alive"]
  /\ UNCHANGED <<holder, busy>>

\* The thread dies on its own, whoever is looking at it.
Die(c) ==
  /\ life[c] = "alive"
  /\ life' = [life EXCEPT ![c] = "dead"]
  /\ UNCHANGED <<holder, busy>>

\* The call answers and leaves the capture to a later stop_capture.
Park ==
  /\ holder # NoCapture
  /\ busy
  /\ busy' = FALSE
  /\ UNCHANGED <<holder, life>>

Claim ==
  /\ holder # NoCapture
  /\ ~busy
  /\ busy' = TRUE
  /\ UNCHANGED <<holder, life>>

Release ==
  /\ holder # NoCapture
  /\ busy
  /\ life[holder] # "alive"
  /\ holder' = NoCapture
  /\ busy' = FALSE
  /\ UNCHANGED life

Next ==
  \/ \E c \in Captures : Acquire(c) \/ Spawn(c) \/ Die(c)
  \/ Park
  \/ Claim
  \/ Release

Spec == Init /\ [][Next]_vars

=============================================================================
