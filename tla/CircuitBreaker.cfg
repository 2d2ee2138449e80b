SPECIFICATION FairSpec
CONSTANTS
  Clients = {c1, c2}
  Threshold = 3
  RecoveryTimeout = 2
  MaxFaults = 2
  MaxQuietDays = 1
INVARIANT StateMatchesCounter
PROPERTIES FailedTestReopens FollowsDiagramUnlessLate RecoveredServiceIsUsed OutageIsNoticed
