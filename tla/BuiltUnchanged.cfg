SPECIFICATION Spec
CONSTANTS
  Stages = {"inception", "construction", "operations"}
  MaxActs = 2
  MaxMishaps = 1
  MaxRuns = 1
PROPERTY BuiltIsChanged
CHECK_DEADLOCK FALSE
