SPECIFICATION LaunchersSpec
CONSTANTS
  h1 = h1
  h2 = h2
  k1 = k1
  Hosts = {h1, h2}
  Issues = {k1}
  MaxLaunches = 3
  MaxLost = 1
  RunOutputs = {"missing", "valid"}
  OperatorEdits = TRUE
  RuntimeLimit = TRUE
  Construction = TRUE
SYMMETRY HostSymmetry
INVARIANT LaunchesAreAccounted
INVARIANT ConstructionHistory
INVARIANT GuidedHistory
CHECK_DEADLOCK FALSE
