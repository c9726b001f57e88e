SPECIFICATION ConstructionSpec
CONSTANTS
  h1 = h1
  k1 = k1
  Hosts = {h1}
  Issues = {k1}
  MaxLaunches = 3
  MaxLost = 0
  RunOutputs = {"missing", "valid"}
  OperatorEdits = FALSE
PROPERTY
  CompletedIsSuperseded
CHECK_DEADLOCK FALSE
