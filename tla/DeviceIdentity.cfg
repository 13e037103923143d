SPECIFICATION WorldSpec
CONSTANTS
  Units = {u1, u2}
  Models = {A, B}
  Addresses <- MCAddresses
  Away = Away
  None = None
  MaxTransfers = 6
  Losses = 1
  PageLimit = 2
SYMMETRY MCSymmetry
INVARIANTS
  WorldTypeOK
  MisattributionIsReported
  OverMergeIsTwoUnits
  TwoUnitsAreReported
  SummariesAddUp
  EnumerationIsWhole
  DetectionFindsArrival
CHECK_DEADLOCK FALSE
