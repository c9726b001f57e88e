SPECIFICATION Spec
CONSTANTS
  MaxCommits = 2
  MaxTicks = 2
  MaxSnapshots = 2
  GateCommits = 2
  MaxRuns = 3
  MaxClock = 1
  Freshness = 0
  FindingIds = {"f1", "f2"}
  MaxRewrites = 1
  Actors = {"ann", "Ann", "bob"}
  Folded <- MCFolded
  Providers = {"p1", "p2"}
  MaxProductions = 2
  Producers = {"ann"}
  RequiredRoles = {"builder", "quality-reviewer"}
  Nobody = "nobody"
  Humans = {"ann", "bob"}
  Agents = {"bot"}
  Callers = {1, 2}
  RecordIds = {"r"}
  EvidenceIds = {"e", "f"}
  MaxInterventions = 1
  MaxCalls = 2
  Behaviors = {1}
  SliceIds = {"s"}
  Requesters = {1}
  MaxDocuments <- MCMaxDocuments
INVARIANT ObservationsAreTrue
INVARIANT DecisionsAreIndependent
INVARIANT RegulatedActionsAreBacked
PROPERTY ModernizationIsSettled
CHECK_DEADLOCK FALSE
