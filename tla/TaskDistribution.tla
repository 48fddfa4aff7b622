-------------------------- MODULE TaskDistribution --------------------------
(***************************************************************************)
(* scan_task_distribution: one pass over an event log that keeps, for the  *)
(* successful tasks of one attempt of a stage, every value of every metric *)
(* and a heap of the highest tasks by one of them; afterwards the values   *)
(* are summarized by nearest rank.                                         *)
(*                                                                         *)
(* Two of the six metrics stand for all: the duration and the bytes read   *)
(* by shuffles, which are computed from two fields each.  `events' is the  *)
(* log so far: the properties compare with it.                             *)
(***************************************************************************)
EXTENDS Integers, Sequences, FiniteSets, Orders

CONSTANTS
  Limit,         \* tasks listed
  MaxEvents      \* bound: TaskEnds of the log

VARIABLES
  orderBy,       \* the metric the request ranks by
  events,        \* the log so far
  samples,       \* for every metric its values, in the order of the log
  heap,          \* the tasks kept: pairs of a score and a line
  counts         \* tasks by outcome, and those with a score

vars == <<orderBy, events, samples, heap, counts>>

None == -1
Metrics == {"duration_ms", "shuffle_read_bytes"}

\* TaskEnds of the attempt and of another; a Finish Time of 0 is a task that
\* was not finished.
TaskEndsOf(ours, outcomes, launches, finishes, remotes) ==
  [ours : {ours}, outcome : outcomes, launch : launches, finish : finishes,
   remote : remotes, local : {1}]
TaskEnds == TaskEndsOf(TRUE, {"success"}, {0, 2}, {0, 2, 3}, {None, 0, 1})
              \union TaskEndsOf(TRUE, {"non_success", "unknown"}, {0}, {3}, {1})
              \union TaskEndsOf(FALSE, {"success"}, {0}, {3}, {1})

Init ==
  /\ orderBy \in Metrics
  /\ events = <<>>
  /\ samples = [metric \in Metrics |-> <<>>]
  /\ heap = {}
  /\ counts = [successful |-> 0, nonSuccess |-> 0, unknown |-> 0, ranked |-> 0]

-----------------------------------------------------------------------------
(* One TaskEnd. *)

\* task_metric_values.
Value(e, metric) ==
  IF metric = "duration_ms"
  THEN IF e.finish > 0 /\ e.finish >= e.launch THEN e.finish - e.launch ELSE None
  ELSE IF e.remote # None /\ e.local # None THEN e.remote + e.local ELSE None

\* What heapq compares: the score, then the earlier line.
Below(a, b) == a[1] < b[1] \/ (a[1] = b[1] /\ a[2] > b[2])
Least(tasks) == CHOOSE a \in tasks : \A b \in tasks : a = b \/ Below(a, b)

\* Variant: a task as high as the lowest kept one replaces it.
KeptLatest(task) ==
  IF Cardinality(heap) < Limit THEN heap \union {task}
  ELSE IF task[1] >= Least(heap)[1] THEN (heap \ {Least(heap)}) \union {task} ELSE heap

Kept(task) ==
  IF Cardinality(heap) < Limit THEN heap \union {task}
  ELSE IF Below(Least(heap), task) THEN (heap \ {Least(heap)}) \union {task} ELSE heap

Elsewhere(e) == ~e.ours /\ UNCHANGED <<samples, heap, counts>>

NotSuccessful(e) ==
  /\ e.ours /\ e.outcome # "success"
  /\ counts' = IF e.outcome = "unknown" THEN [counts EXCEPT !.unknown = @ + 1]
               ELSE [counts EXCEPT !.nonSuccess = @ + 1]
  /\ UNCHANGED <<samples, heap>>

Successful(e, line) ==
  LET score == Value(e, orderBy)
  IN  /\ e.ours /\ e.outcome = "success"
      /\ samples' = [metric \in Metrics |->
           IF Value(e, metric) = None THEN samples[metric]
           ELSE Append(samples[metric], Value(e, metric))]
      /\ heap' = IF score = None THEN heap ELSE Kept(<<score, line>>)
      /\ counts' = [counts EXCEPT !.successful = @ + 1,
                                  !.ranked = IF score = None THEN @ ELSE @ + 1]

Visit(e) ==
  /\ Len(events) < MaxEvents
  /\ events' = Append(events, e)
  /\ Elsewhere(e) \/ NotSuccessful(e) \/ Successful(e, Len(events) + 1)
  /\ UNCHANGED orderBy

Next == \E e \in TaskEnds : Visit(e)

Spec == Init /\ [][Next]_vars

-----------------------------------------------------------------------------
(* The answer. *)

TopTasks == OrderedBy(heap, LAMBDA a, b : Below(b, a))
TasksOmitted == counts.ranked - Len(TopTasks)

\* The rank, from 1, of the q-th percentile of n values.
Rank(q, n) == (q * n + 99) \div 100

Percentile(q, metric) ==
  LET ordered == Ascending(samples[metric])
      rank == Rank(q, Len(ordered))
  IN  IF rank \in DOMAIN ordered THEN ordered[rank] ELSE None

-----------------------------------------------------------------------------
(* Properties. *)

Successes == {i \in DOMAIN events : events[i].ours /\ events[i].outcome = "success"}
Scored(metric) == {i \in Successes : Value(events[i], metric) # None}

\* The listed tasks are the highest of the log, the earliest among equals,
\* the highest first, and what is not listed is counted.
TopTasksAreTop ==
  LET score(i) == Value(events[i], orderBy)
      listed == {TopTasks[i][2] : i \in DOMAIN TopTasks}
  IN  /\ listed \subseteq Scored(orderBy)
      /\ \A i \in listed, j \in Scored(orderBy) \ listed :
           score(i) > score(j) \/ (score(i) = score(j) /\ i < j)
      /\ \A i \in 1..Len(TopTasks) - 1 : Below(TopTasks[i + 1], TopTasks[i])
      /\ Cardinality(listed) + TasksOmitted = Cardinality(Scored(orderBy))

\* A percentile is the least value that at least q of every hundred values do
\* not exceed; without values there is none.
PercentilesAreNearestRank ==
  \A metric \in Metrics, q \in {50, 95} :
    LET values == samples[metric]
        atMost(v) == {i \in DOMAIN values : values[i] <= v}
        enough(v) == 100 * Cardinality(atMost(v)) >= q * Len(values)
        p == Percentile(q, metric)
    IN  IF values = <<>> THEN p = None
        ELSE /\ \E i \in DOMAIN values : values[i] = p
             /\ enough(p) /\ \A i \in DOMAIN values : values[i] < p => ~enough(values[i])

\* A task counts as successful without its values; each metric says how many
\* values are missing, and a task that did not finish has no duration.
MissingIsCounted ==
  /\ counts.successful = Cardinality(Successes)
  /\ \A metric \in Metrics :
       counts.successful - Len(samples[metric])
         = Cardinality({i \in Successes : IF metric = "duration_ms"
                          THEN events[i].finish = 0 \/ events[i].finish < events[i].launch
                          ELSE None \in {events[i].remote, events[i].local}})
=============================================================================
