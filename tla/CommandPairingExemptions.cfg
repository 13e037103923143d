SPECIFICATION Spec
CONSTANTS
  Types = {"bulk"}
  Forms = {"ok", "failed", "orphan"}
  Timeout = 1
  MaxEvents = 5
  MaxTime = 2
CHECK_DEADLOCK FALSE
INVARIANTS
  OneExemptionHolds
