SPECIFICATION RetrySpec
CONSTANTS
  Workers = {w1}
  Captures = {c1}
  Paths = {p1}
  NoCapture = NoCapture
  NoPath = NoPath
  NoFile = NoFile
  Foreign = Foreign
  Faults = {"timeout"}
PROPERTIES
  DeathFreesSlot
