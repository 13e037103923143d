SPECIFICATION Spec
CONSTANTS
  Calls = {q1, q2, q3, q4}
  NoCall = NoCall
  Reasons = {EOFError, OSError}
  NoReason = NoReason
CHECK_DEADLOCK FALSE
INVARIANTS
  EndOfInputAborts
