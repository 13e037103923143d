SPECIFICATION FairSpec
CONSTANTS
  Workers = {w1}
  Captures = {c1, c2}
  Paths = {p1, p2}
  NoCapture = NoCapture
  NoPath = NoPath
  NoFile = NoFile
  Foreign = Foreign
  Faults = {"error", "timeout"}
INVARIANTS
  StopSummarizesItsCapture
PROPERTIES
  CallsReturn
  SlotRecovers
