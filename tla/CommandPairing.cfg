SPECIFICATION Spec
CONSTANTS
  Types = {"bulk", "interrupt"}
  Forms = {"ok", "failed", "empty"}
  Timeout = 1
  MaxEvents = 4
  MaxTime = 2
CHECK_DEADLOCK FALSE
INVARIANTS
  PairsAreSound
  UnansweredIsReal
  NoCommandIsLeft
  IInv
