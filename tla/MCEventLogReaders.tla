------------------------- MODULE MCEventLogReaders -------------------------
(***************************************************************************)
(* What the Spark plugin reads out of saved event logs, for TLC: five      *)
(* specifications that share no state, one of which runs from the start.   *)
(* `part' names it; the variables of the others stay Unused.  `events' is  *)
(* the log of whichever visitor runs.                                      *)
(***************************************************************************)
EXTENDS ExecutorLogRoute

CONSTANTS
  PublishedLogs,      \* contents of event logs a fetch published
  PageLimit,          \* limit of a query
  MaxEdits, MaxLines, \* bounds: of EventReader
  EvidenceKept,       \* failures and endings an overview keeps
  NamesListed,        \* names it lists
  StageAttempts,      \* attempts of stages
  StagesListed,       \* attempts listed
  TasksListed,        \* tasks listed
  OverviewEvents, StageEvents, TaskEvents   \* bounds: events of a log

\* A fetch publishes an event log only with its header and lines it can read.
ASSUME ReaderAssumption ==
  /\ PageLimit \in Nat \ {0} /\ MaxEdits \in Nat
  /\ \A lines \in PublishedLogs :
       /\ lines \in Seq({"logStart", "appStart", "hit", "miss", "appEnd"})
       /\ "logStart" \in ToSet(lines) /\ "appStart" \in ToSet(lines)

\* Lists have room; an attempt is a pair of numbers.
ASSUME ListsAssumption ==
  /\ EvidenceKept \in Nat \ {0} /\ TasksListed \in Nat \ {0}
  /\ NamesListed \in Nat /\ StagesListed \in Nat
  /\ StageAttempts \subseteq Nat \X Nat

VARIABLES
  part,
  manifest, log, edits, scan, walk,                                    \* EventReader
  events,
  types, reasons, signals, failures, endings, ended,                   \* InspectOverview
  request, groups, unassigned,                                         \* StageMetrics
  orderBy, samples, heap, counts                                       \* TaskDistribution

readerVars == <<manifest, log, edits, scan, walk>>
overviewVars == <<types, reasons, signals, failures, endings, ended>>
stageVars == <<request, groups, unassigned>>
taskVars == <<orderBy, samples, heap, counts>>
allVars == <<part, readerVars, vars, events, overviewVars, stageVars, taskVars>>

\* Three matches make two pages; "miss" is the wider line; two logs of one size.
MCPublished == {<<"logStart", "appStart", "hit", "miss", "hit", "hit">>,
                <<"appStart", "logStart", "hit", "miss", "hit", "appEnd">>}
Reader == INSTANCE EventReader WITH Published <- PublishedLogs, Limit <- PageLimit

\* Two backends on a host and one on another, each of which may be a node's or
\* the history server's, and one that is not allowed.
MCAllowed == {<<"n1", 1>>, <<"n1", 2>>, <<"jh", 1>>}
MCBackends == MCAllowed \cup {<<"n1", 3>>}
MCLogs == {<<>>, <<1, 2>>, <<2, 1, 1>>}

\* One failure more than is kept, of every priority.
Overview == INSTANCE InspectOverview
  WITH MaxEvidence <- EvidenceKept, MaxNames <- NamesListed, MaxEvents <- OverviewEvents

\* Two attempts of one stage, one of which is listed.
MCStageAttempts == {<<1, 0>>, <<1, 1>>}
Stages == INSTANCE StageMetrics
  WITH Attempts <- StageAttempts, Limit <- StagesListed, MaxEvents <- StageEvents

Tasks == INSTANCE TaskDistribution WITH Limit <- TasksListed, MaxEvents <- TaskEvents

-----------------------------------------------------------------------------

Unused == "unused"
ReaderUnused == /\ manifest = Unused /\ log = Unused /\ edits = Unused /\ scan = Unused
            /\ walk = Unused
RouteUnused == /\ registered = Unused /\ pc = Unused /\ route = Unused /\ url = Unused
           /\ requested = Unused /\ received = Unused /\ source = Unused /\ stated = Unused
           /\ answer = Unused
OverviewUnused == /\ types = Unused /\ reasons = Unused /\ signals = Unused /\ failures = Unused
              /\ endings = Unused /\ ended = Unused
StagesUnused == request = Unused /\ groups = Unused /\ unassigned = Unused
TasksUnused == orderBy = Unused /\ samples = Unused /\ heap = Unused /\ counts = Unused

ReadersInit ==
  \/ /\ part = "reader" /\ Reader!Init
     /\ RouteUnused /\ events = Unused /\ OverviewUnused /\ StagesUnused /\ TasksUnused
  \/ /\ part = "route" /\ Init
     /\ ReaderUnused /\ events = Unused /\ OverviewUnused /\ StagesUnused /\ TasksUnused
  \/ part = "overview" /\ Overview!Init /\ ReaderUnused /\ RouteUnused /\ StagesUnused /\ TasksUnused
  \/ part = "stages" /\ Stages!Init /\ ReaderUnused /\ RouteUnused /\ OverviewUnused /\ TasksUnused
  \/ part = "tasks" /\ Tasks!Init /\ ReaderUnused /\ RouteUnused /\ OverviewUnused /\ StagesUnused

ReaderStep ==
  /\ part = "reader" /\ UNCHANGED <<part, vars, events, overviewVars, stageVars, taskVars>>
  /\ Reader!Next
RouteStep ==
  /\ part = "route" /\ UNCHANGED <<part, readerVars, events, overviewVars, stageVars, taskVars>>
  /\ Next
OverviewStep ==
  /\ part = "overview" /\ UNCHANGED <<part, readerVars, vars, stageVars, taskVars>>
  /\ Overview!Next
StageStep ==
  /\ part = "stages" /\ UNCHANGED <<part, readerVars, vars, overviewVars, taskVars>>
  /\ Stages!Next
TaskStep ==
  /\ part = "tasks" /\ UNCHANGED <<part, readerVars, vars, overviewVars, stageVars>>
  /\ Tasks!Next

ReadersNext == ReaderStep \/ RouteStep \/ OverviewStep \/ StageStep \/ TaskStep

ReadersSpec == ReadersInit /\ [][ReadersNext]_allVars

-----------------------------------------------------------------------------

\* What a caller is told of a saved log is true of one snapshot of it, page
\* after page, whatever happens to the files, and an untouched log is read
\* (VerifiedEventLogReader.read, SparkInspectionService).
ReaderHonest ==
  part = "reader" => /\ Reader!TypeOK
                     /\ Reader!PagesAreOneSnapshot
                     /\ Reader!MatchedIsConstant
                     /\ Reader!InspectedHasHeader
                     /\ Reader!UntouchedIsReadable

\* Redirects lead nowhere but to the log that was asked for, and the text
\* that is saved is the part of it that its coverage says, as far as the stated
\* length tells (_LogRoute, _receive).
RouteHonest ==
  part = "route" => /\ TypeOK
                    /\ StaysOnRoute
                    /\ RequestsBounded
                    /\ CoverageHonest
                    /\ TailStartsALine

\* Stronger, and broken by a stated length that is too small.
RouteComplete == part = "route" => CompleteIsComplete

\* The overview of a log has its worst failures first, and counts all that it
\* does not show (SparkInspectionAdapter._inspect).
OverviewHonest ==
  part = "overview" => /\ Overview!WorstFirst
                       /\ Overview!OmissionsCounted
                       /\ Overview!CountsCoverLog

\* Stage metrics lose no task, sum what they say they sum, take their times
\* from one event and list the longest attempts (scan_stage_metrics).
StagesHonest ==
  part = "stages" => /\ Stages!TasksAccounted
                     /\ Stages!TotalsHonest
                     /\ Stages!TimesOfOneEvent
                     /\ Stages!LongestListed

\* The top tasks are the top ones, percentiles are nearest ranks and missing
\* values are counted (scan_task_distribution).
DistributionHonest ==
  part = "tasks" => /\ Tasks!TopTasksAreTop
                    /\ Tasks!PercentilesAreNearestRank
                    /\ Tasks!MissingIsCounted

\* Both scans for metrics.
MetricsHonest == StagesHonest /\ DistributionHonest
=============================================================================
