------------------------------ MODULE MCServer ------------------------------
(***************************************************************************)
(* The smaller parts of a process for TLC: the server and its runtime, the  *)
(* configuration it starts with, the statements of the Hive plugin, and the *)
(* DolphinScheduler plugin's calls, pages and logs.  They share no state,   *)
(* so that one of them runs from the start: `part' names it.                *)
(***************************************************************************)
EXTENDS DolphinCalls

CONSTANTS
  PageSize, LargestPage, ListedItems,   \* default_page_size, max_page_size, max_detail_items
  PageSizes,            \* page sizes callers give
  ObjectsMade, PagesWalked,   \* bounds: of DolphinPages
  LogLimits, NoLimit,   \* limits callers give; of one who gives none, not a number
  LogApplications, LogHalves, LogLines,   \* of DolphinLogs
  ServerCalls,          \* calls the host makes in the life of a server
  QueryCalls,           \* invocations of the Hive tools
  Workers,              \* threads they share
  SettingFields, SecretFields,     \* fields of a plugin's configuration
  RequiredFields,                  \* those without a default
  PluginSchemas                    \* what the models of a plugin may refuse

\* The three bounds are as they are configured, each for itself: the default
\* may exceed the largest page, and a page what is shown of it.
ASSUME PagesAssumption ==
  /\ PageSize \in Nat /\ LargestPage \in Nat /\ ListedItems \in Nat
  /\ PageSizes \subseteq Int /\ ObjectsMade \in Nat /\ PagesWalked \in Nat

\* A limit is a number or none; the rest is as it is configured.
ASSUME LogsAssumption ==
  /\ LogLimits \subseteq Int \cup {NoLimit}
  /\ LogHalves \in Nat /\ LogLines \in Nat

\* A model has no required field but its own.
ASSUME FieldsAssumption == RequiredFields \subseteq SettingFields \cup SecretFields

VARIABLES
  part,
  objects, walk, created,                                            \* DolphinPages
  log, skip, limit, got, told, extracted,                                  \* DolphinLogs
  input, stage, settings, secrets,                                   \* ConfigLoad
  phase, session, call, client, built, closed,                       \* ServerLifecycle
  caller, left, thread, conn, cursor, failure, opened, outcome       \* HiveQuery

pageVars == <<objects, walk, created>>
logVars == <<log, skip, limit, got, told, extracted>>
configVars == <<input, stage, settings, secrets>>
serverVars == <<phase, session, call, client, built, closed>>
queryVars == <<caller, left, thread, conn, cursor, failure, opened, outcome>>
allVars == <<part, vars, pageVars, logVars, configVars, serverVars, queryVars>>

Pages == INSTANCE DolphinPages WITH
  DefaultPageSize <- PageSize, MaxPageSize <- LargestPage, MaxDetailItems <- ListedItems,
  Asked <- PageSizes, MaxObjects <- ObjectsMade, MaxPages <- PagesWalked

Logs == INSTANCE DolphinLogs WITH
  DefaultPageSize <- PageSize, MaxPageSize <- LargestPage, MaxDetailItems <- ListedItems,
  MaxLogHalves <- LogHalves, Applications <- LogApplications, NoApplication <- "none",
  Asked <- LogLimits, MaxLines <- LogLines

Config == INSTANCE ConfigLoad WITH
  step <- stage, Settings <- SettingFields, Secrets <- SecretFields,
  Required <- RequiredFields, Schemas <- PluginSchemas

\* Models that refuse nothing, or one value or pair of values, and no more.
Faults(fields, sources) ==
  UNION {[among -> sources \cup {"default"}] :
           among \in {s \in SUBSET fields : Cardinality(s) \in 1..2}}
MCSchemas ==
  LET ofSettings == Faults(SettingFields, {"file", "generic", "prefix"})
      ofSecrets == Faults(SecretFields, {"file", "prefix"})
  IN  {[settings |-> {}, secrets |-> {}]}
        \cup {[settings |-> {x}, secrets |-> {}] : x \in ofSettings}
        \cup {[settings |-> {}, secrets |-> {x}] : x \in ofSecrets}

Server == INSTANCE ServerLifecycle WITH Calls <- ServerCalls

Query == INSTANCE HiveQuery WITH Calls <- QueryCalls

-----------------------------------------------------------------------------

Unused == "unused"
PagesUnused == objects = Unused /\ walk = Unused /\ created = Unused
LogsUnused ==
  /\ log = Unused /\ skip = Unused /\ limit = Unused
  /\ got = Unused /\ told = Unused /\ extracted = Unused
ConfigUnused == input = Unused /\ stage = Unused /\ settings = Unused /\ secrets = Unused

\* The parts that have one initial state are in it when another one runs.
ServerInit ==
  /\ Server!Init /\ Query!Init
  /\ \/ part = "calls" /\ Init /\ PagesUnused /\ LogsUnused /\ ConfigUnused
     \/ /\ Init /\ op = "dry_run"
        /\ \/ part = "pages" /\ Pages!Init /\ LogsUnused /\ ConfigUnused
           \/ part = "logs" /\ Logs!Init /\ PagesUnused /\ ConfigUnused
           \/ part = "config" /\ Config!Init /\ PagesUnused /\ LogsUnused
           \/ part \in {"server", "query"} /\ PagesUnused /\ LogsUnused /\ ConfigUnused

InCalls == part = "calls"
  /\ UNCHANGED <<part, pageVars, logVars, configVars, serverVars, queryVars>>
InPages == part = "pages"
  /\ UNCHANGED <<part, vars, logVars, configVars, serverVars, queryVars>>
InLogs == part = "logs"
  /\ UNCHANGED <<part, vars, pageVars, configVars, serverVars, queryVars>>
InConfig == part = "config"
  /\ UNCHANGED <<part, vars, pageVars, logVars, serverVars, queryVars>>
InServer == part = "server"
  /\ UNCHANGED <<part, vars, pageVars, logVars, configVars, queryVars>>
InQuery == part = "query"
  /\ UNCHANGED <<part, vars, pageVars, logVars, configVars, serverVars>>

ServerNext ==
  \/ InCalls /\ Next
  \/ InPages /\ Pages!Next
  \/ InLogs /\ Logs!Next
  \/ InConfig /\ Config!Next
  \/ InServer /\ Server!Next
  \/ InQuery /\ Query!Next

ServerSpec == ServerInit /\ [][ServerNext]_allVars

\* The fairness of ServerLifecycle, of HiveQuery and of a reader that goes on.
ServerFairness ==
  /\ WF_allVars(InServer /\ Server!Close)
  /\ WF_allVars(InServer /\ Server!ClientCloses)
  /\ \A c \in ServerCalls : WF_allVars(InServer /\ Server!Handler(c))
QueryFairness ==
  \A c \in QueryCalls :
    /\ WF_allVars(InQuery /\ Query!Resume(c))
    /\ WF_allVars(InQuery /\ Query!ThreadStarts(c))
    /\ WF_allVars(InQuery /\ Query!ThreadStep(c))

LogFairness == WF_allVars(InLogs /\ Logs!Reads)

FairSpec == ServerSpec /\ ServerFairness /\ QueryFairness /\ LogFairness

-----------------------------------------------------------------------------

\* The pages of a collection are it if none was cut, and the size that is
\* asked for is capped (list_objects, search_objects).
PagesHonest == part = "pages" => Pages!WalkComplete /\ Pages!SizeCapped

\* What has been read of a log is all of it so far, in order, and so are its
\* links.
LogKept == part = "logs" => Logs!LogInOrder /\ Logs!IdsComplete

\* A log that is followed comes whole and in order, its end included once it
\* is no longer written, and so do its links (get_task_log, extract_log_links).
LogWhole ==
  /\ []LogKept
  /\ <>[](part = "logs" => Logs!AllRead)

\* What is loaded is what the sources say in their order, and valid; what is
\* not loaded failed for a reason (load_config).
ConfigRight ==
  part = "config" =>
    Config!PrecedenceHolds /\ Config!LoadedIsValid /\ Config!FailsForAReason

\* Handlers use one client that is open, and the process closes it
\* (StdioMcpServer.serve, _ensure_client).
ClientRight == Server!RequestsOnOpenClient /\ Server!OneClientAndClosed

\* A session that ends, however it does, ends the process.
ShutdownEnds == Server!ShutdownEnds

\* An invocation that has returned holds nothing, and rows are only given by
\* one that released all it had (_execute, _execute_blocking).
QueryReleased == Query!ReleasedOnReturn /\ Query!RowsNeedCleanClose

\* Every invocation comes to its end, a cancelled one included.
QueriesEnd == Query!CallsEnd
=============================================================================
