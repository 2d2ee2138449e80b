SPECIFICATION Spec
CONSTANTS
  Handlers = {h1, h2}
  Keys = {k1}
  NoKey = NoKey
  Limit = 1
  SlotsPerWindow = 2
  LastSlot = 4
  MaxRequests = 3
INVARIANTS KnownJobIsQueued JobsPerKeyBounded AdmissionBounded
CHECK_DEADLOCK FALSE
