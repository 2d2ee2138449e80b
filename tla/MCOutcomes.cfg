SPECIFICATION Spec
CONSTANTS
  Jobs = {j1, j2}
  Handlers = {h1, h2}
  Predictions = {10, 40}
  Demands = {12, 17}
  None = None
  MaxReruns = 1
  MaxRequests = 2
INVARIANTS CorrectionIsSound RowsFollowMemory 
PROPERTIES AccuracyGoesToItsRow
SYMMETRY Symmetry
CHECK_DEADLOCK FALSE
