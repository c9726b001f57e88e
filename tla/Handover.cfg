SPECIFICATION HandoverSpec
CONSTANTS
  h1 = h1
  h2 = h2
  Hosts = {h1, h2}
  Tiers <- MCTiers
  CallBudget <- MCCallBudget
  MaxPlans = 4
  MaxRevisions = 1
  MaxLost = 1
  RuntimeIds = {"primary"}
  Paragraphs = {"team", "footer"}
  MaxInstallEdits = 2
  MaxInstallRuns = 2
  Keys = {"k1", "k2"}
  Checksums = {"a", "b"}
  Configs <- MCConfigs
  FirstReleases <- MCReleases
  MaxPublications = 1
  MaxKeyEvents = 2
  Files = {1, 2, 3, 4}
  Framework = {1}
  Score <- MCScore
  Size <- MCSize
  MaxRelated = 2
  MandatorySizes = {1, 7}
  Limit = 6
  MaxTouches = 2
  Nodes = {1, 2, 3}
  Missing = 9
  Documents <- MCDocuments
  Queries <- MCQueries
  CandidateFiles = {"f1", "f2"}
  MaxVersions = 2
  MaxCandidateCommits = 2
  Stages = {"inception", "construction", "operations"}
INVARIANT InstallationsAreSound
INVARIANT InputsAreHandedOver
INVARIANT CandidatesArePresent
INVARIANT CardsAreKept
INVARIANT RunsArePaidFor
CHECK_DEADLOCK FALSE
