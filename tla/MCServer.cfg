SPECIFICATION FairSpec
CONSTANTS
  MaxRepeats = 2
  \* No size, the default and one above the maximum, which is above what is
  \* shown of a page.
  PageSize = 1
  LargestPage = 3
  ListedItems = 2
  PageSizes = {0, 1, 4}
  ObjectsMade = 3
  PagesWalked = 5
  NoLimit = NoLimit
  LogLimits = {NoLimit, 0, 4}
  LogApplications = {"a1", "a2"}
  \* A log that is cut in the middle of its last line and one that is not.
  LogHalves = 5
  LogLines = 3
  ServerCalls = {"c1", "c2", "c3"}
  \* Two invocations and one thread: each may wait for the other.
  QueryCalls = {"c1", "c2"}
  Workers = 1
  \* A required and an optional field of each kind.
  SettingFields = {"host", "port"}
  SecretFields = {"password", "cookie"}
  RequiredFields = {"host", "password"}
  PluginSchemas <- MCSchemas
INVARIANTS
  OneStartPerCall
  PagesHonest
  ConfigRight
  ClientRight
  QueryReleased
PROPERTIES
  LogWhole
  ShutdownEnds
  QueriesEnd
CHECK_DEADLOCK FALSE
