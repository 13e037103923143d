SPECIFICATION AnalysisSpec
CONSTANTS
  MaxHeaderBytes = 2
  PrefixBytes = 2
  LaneSamples = 2
  GroupSamples = 2
  Masked = Masked
  Streams <- MCStreams
  Tokens <- MCTokens
  MinWindow = 1
  MaxWindow = 3
  MinOccurrences = 2
  MaxPatterns = 2
  NoParent = NoParent
  Transactions <- MCTransactions
  MaxTransactions = 4
  MaxTime = 2
  Names = {a, b}
  MaxMarkers = 2
  MarkerWindow = 1
  MaxObservations = 2
  AnomalyBytes = 1
  Tolerance = 1
SYMMETRY MCSymmetry
INVARIANTS
  DroppedIsExplained
  KeptIsNews
  TokensDescribe
  ListIsCoherent
  AnalysisTypeOK
  TimingIsNear
  ObservationsAreSingle
  AnomaliesAreFound
CHECK_DEADLOCK FALSE
