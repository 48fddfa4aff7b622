SPECIFICATION ReadersSpec
CONSTANTS
  PublishedLogs <- MCPublished
  PageLimit = 2
  MaxEdits = 2
  MaxLines = 6
  EvidenceKept = 2
  NamesListed = 2
  StageAttempts <- MCStageAttempts
  StagesListed = 1
  TasksListed = 2
  OverviewEvents = 5
  StageEvents = 3
  TaskEvents = 3
  Hosts = {"n1", "jh"}
  Ports = {1, 2, 3, 4}
  Backends <- MCBackends
  Allowed <- MCAllowed
  TailBytes = 3
  OutputLimit = 4
  ResponseLimit = 3
  Logs <- MCLogs
  \* Logs are of 0, 3 and 4 bytes.
  Lengths = {2, 3, 4}
INVARIANTS
  ReaderHonest
  RouteHonest
  OverviewHonest
  MetricsHonest
CHECK_DEADLOCK FALSE
