SPECIFICATION Spec
CONSTANTS
  Absent = Absent
  Cases <- MCCases
  MaxCuts = 1
  MaxActs = 2
INVARIANT PreparedOnTheIssueBranch
PROPERTY EditsStay
PROPERTY RepeatedStartsSucceed
