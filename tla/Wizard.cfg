SPECIFICATION WizardSpec
CONSTANTS
  local = local
  paid = paid
  none = none
  Runtimes = {local, paid}
  Cheap = {local}
  NoRuntime = none
  RetryLimit = 2
  MaxVersions = 2
  MaxConfirms = 4
  Sessions = {1, 2}
  Gaps = {"objective", "criteria"}
  MaxDrafts = 1
  MaxAnswerCuts = 1
  DeliveryTargets = {"none", "pull-request", "local-artifacts"}
  Paths <- MCPaths
  NumBolts = 3
  MaxEdits = 1
  StepIds = {"model", "design", "review", "elevate"}
  MaxDepth = 2
  Requires <- MCRequires
  Mandatory = {"model"}
  Optional = {"design", "review"}
  ForbiddenSkips = {"design"}
  Exempt = {}
  MinimumDepth = 1
  MaxPlanEdits = 3
INVARIANT SessionsAreBounded
INVARIANT BarIsBacked
INVARIANT BoltPlansAreSafe
INVARIANT PathwayPlansAreComplete
PROPERTY SessionReturns
PROPERTY QuestionsEnd
CHECK_DEADLOCK FALSE
