SPECIFICATION Spec
CONSTANTS
  Stages = {"inception", "construction", "operations"}
  MaxActs = 1
  MaxMishaps = 2
  MaxRuns = 1
INVARIANT EvidenceIsBacked
INVARIANT DeployedIsDelivered
INVARIANT DeliveredIsScanned
PROPERTY WorkCompletes
CHECK_DEADLOCK FALSE
