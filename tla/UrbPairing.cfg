SPECIFICATION Spec
CONSTANTS
  Transfers = {t1, t2, t3, t4}
  Urbs = {u1, u2}
  None = None
  MaxMissed = 2
SYMMETRY Symmetry
INVARIANTS
  IInv
  WholeTransfersPair
  EveryRecordOnce
  FlagsAreTrue
CHECK_DEADLOCK FALSE
