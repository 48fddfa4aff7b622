\* Both are violated; TLC stops at the first it meets, so keep one at a time
\* or run it with -continue.
SPECIFICATION ToolsSpec
CONSTANTS
  Calls = {c1, c2}
  Ops = {"create", "run", "cancel", "status", "result"}
  Credentials = TRUE
  MaxDrops = 1
  MaxRuns = 1
  \* Characters of one and of three bytes on both sides of the limit.
  MaxResultBytes = 4
  MaxOutputBytes = 8
  MaxErrorBytes = 4
  Widths = {1, 3}
  MaxChars = 3
  MaxItems = 2
  BodyInterpreters = {"hive_sql", "spark", "sh", "md"}
  BodySqlInterpreters = {"hive_sql"}
  AllowedInterpreters = {"hive_sql", "spark", "sh"}
  ForbiddenKeywords = {"DROP"}
  WriteDatabases = {"tmp_dc_ep"}
  ShellCommands = {"echo"}
  BodyStatements = 2
  Names = {"a", "b"}
  PathDepth = 3
  ListedAtMost = 3
INVARIANTS
  CarriesSession
  NoneLost
SYMMETRY Symmetry
CHECK_DEADLOCK FALSE
