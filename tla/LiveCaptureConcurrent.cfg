SPECIFICATION Spec
CONSTANTS
  Workers = {w1, w2}
  Captures = {c1, c2}
  Paths = {p1, p2}
  NoCapture = NoCapture
  NoPath = NoPath
  NoFile = NoFile
  Foreign = Foreign
  Faults = {"error", "timeout"}
SYMMETRY Symmetry
INVARIANTS
  TypeOK
  ThreadOwnsSlot
  ExclusiveClaim
  LiveAnswerIsTrue
  IInv
PROPERTIES
  FilesAreSafe
  LeaseSpec
