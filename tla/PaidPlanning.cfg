SPECIFICATION Spec
CONSTANTS
  h1 = h1
  h2 = h2
  Hosts = {h1, h2}
  Pool <- SmallPool
  ExecutorTiers = {"paid-efficient"}
  Needs = {"none", "generative", "frontier"}
  Inputs = {0, 1}
  RetryLimit = 1
  MaxRounds = 2
  MaxEdits = 1
  MaxMishaps = 1
SYMMETRY HostSymmetry
INVARIANT PlanFitsItsInput
INVARIANT PaidCallsBounded
INVARIANT LedgerBalances
CHECK_DEADLOCK FALSE
