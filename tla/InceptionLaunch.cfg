SPECIFICATION Spec
CONSTANTS
  h1 = h1
  h2 = h2
  Hosts = {h1, h2}
  Issues = {}
  MaxLaunches = 3
  MaxLost = 0
  RunOutputs = {"missing", "invalid", "valid"}
  OperatorEdits = TRUE
INVARIANTS
  TypeOK
  OneLiveSession
  CompletedWorkIsFinal
  RetryChain
  TimeoutEscalates
PROPERTIES
  ImplementsSingleExecution
CHECK_DEADLOCK FALSE
