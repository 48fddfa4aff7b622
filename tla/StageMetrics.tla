---------------------------- MODULE StageMetrics ----------------------------
(***************************************************************************)
(* scan_stage_metrics: one pass over an event log that keeps, for every    *)
(* attempt of a stage, counts and totals of its tasks and the times of its *)
(* last submission and completion, and lists the longest attempts.         *)
(*                                                                         *)
(* Events are those of the three names the visitor looks at, with the      *)
(* fields it takes from them; None is a field that is missing or no        *)
(* integer.  `events' is the log so far: the properties compare with it.   *)
(***************************************************************************)
EXTENDS Integers, Sequences, SequencesExt, FiniteSets, Functions, Orders

CONSTANTS
  Attempts,      \* pairs of a stage and an attempt of it
  Limit,         \* attempts listed
  MaxEvents      \* bound: events of the three names

VARIABLES
  request,       \* the attempt asked for, or All
  events,        \* the log so far
  groups,        \* what is kept, for every attempt seen
  unassigned     \* TaskEnds of no attempt

vars == <<request, events, groups, unassigned>>

None == -1
All == <<>>
NoIds == <<None, None>>     \* ids that are no integers

Empty ==
  [submitted |-> 0, completed |-> 0,    \* lines, 0: none
   submittedTimes |-> <<None, None>>, completedTimes |-> <<None, None>>,
   successful |-> 0, nonSuccess |-> 0, unknown |-> 0,
   inputs |-> [value |-> 0, valid |-> 0], shuffle |-> [value |-> 0, valid |-> 0]]

TasksOf(ids, outcomes, inputs, remotes) ==
  [name : {"TaskEnd"}, ids : {ids}, outcome : outcomes, input : inputs, remote : remotes,
   local : {1}]
StagesOf(ids, name, times) == [name : {name}, ids : {ids}, times : times]

\* Events of an attempt, and of none: without integer ids.
EventsOf(ids) ==
  TasksOf(ids, {"success"}, {None, 2}, {None, 0})
    \union TasksOf(ids, {"non_success", "unknown"}, {2}, {0})
    \union StagesOf(ids, "StageSubmitted", {<<1, None>>, <<1, 2>>})
    \union StagesOf(ids, "StageCompleted", {<<1, 4>>, <<2, 2>>, <<None, 4>>, <<4, 1>>})
Unassignable ==
  TasksOf(NoIds, {"success"}, {2}, {0}) \union StagesOf(NoIds, "StageCompleted", {<<1, 4>>})
Events == (UNION {EventsOf(ids) : ids \in Attempts}) \union Unassignable

Init ==
  /\ request \in Attempts \union {All}
  /\ events = <<>>
  /\ groups = [ids \in {} |-> Empty]
  /\ unassigned = 0

-----------------------------------------------------------------------------
(* One event. *)

ShuffleRead(e) == IF e.remote = None \/ e.local = None THEN None ELSE e.remote + e.local

Add(total, value) ==
  IF value = None THEN total
  ELSE [value |-> total.value + value, valid |-> total.valid + 1]

WithTask(group, e) ==
  CASE e.outcome = "success" ->
         [group EXCEPT !.successful = @ + 1, !.inputs = Add(@, e.input),
                       !.shuffle = Add(@, ShuffleRead(e))]
    [] e.outcome = "non_success" -> [group EXCEPT !.nonSuccess = @ + 1]
    [] e.outcome = "unknown" -> [group EXCEPT !.unknown = @ + 1]

WithStage(group, e, line) ==
  IF e.name = "StageSubmitted"
  THEN [group EXCEPT !.submitted = line, !.submittedTimes = e.times]
  ELSE [group EXCEPT !.completed = line, !.completedTimes = e.times]

\* The attempts an event is counted for.
Grouped(e) == IF request \in {All, e.ids} THEN {e.ids} ELSE {}

Visit(e) ==
  LET line == Len(events) + 1
      old == IF e.ids \in DOMAIN groups THEN groups[e.ids] ELSE Empty
      new == IF e.name = "TaskEnd" THEN WithTask(old, e) ELSE WithStage(old, e, line)
  IN  /\ Len(events) < MaxEvents
      /\ events' = Append(events, e)
      /\ IF e.ids = NoIds
         THEN /\ unassigned' = IF e.name = "TaskEnd" THEN unassigned + 1 ELSE unassigned
              /\ UNCHANGED groups
         ELSE /\ groups' = [ids \in Grouped(e) \union DOMAIN groups |->
                        IF ids \in Grouped(e) THEN new ELSE groups[ids]]
              /\ UNCHANGED unassigned
      /\ UNCHANGED request

Next == \E e \in Events : Visit(e)

Spec == Init /\ [][Next]_vars

-----------------------------------------------------------------------------
(* The answer. *)

\* Variant: each time is taken from the event that has it.
TimesOfBoth(group) ==
  <<group.submittedTimes[1],
    IF group.completed # 0 THEN group.completedTimes[2] ELSE group.submittedTimes[2]>>

Times(group) == IF group.completed # 0 THEN group.completedTimes ELSE group.submittedTimes

Duration(group) ==
  LET times == Times(group)
  IN  IF times[1] = None \/ times[2] = None \/ times[2] < times[1] THEN None
      ELSE times[2] - times[1]

\* The longest first, those of unknown duration (-1) last, then by ids.
StageOrder(a, b) ==
  IF Duration(groups[a]) # Duration(groups[b]) THEN Duration(groups[a]) > Duration(groups[b])
  ELSE a[1] < b[1] \/ (a[1] = b[1] /\ a[2] < b[2])

Listed ==
  LET ordered == OrderedBy(DOMAIN groups, StageOrder)
  IN  SubSeq(ordered, 1, IF Limit < Len(ordered) THEN Limit ELSE Len(ordered))

TaskEnds(group) == group.successful + group.nonSuccess + group.unknown

MetricTotal(total, successes) ==
  [total |-> IF total.valid > 0 THEN total.value ELSE None, valid |-> total.valid,
   missing |-> successes - total.valid]

-----------------------------------------------------------------------------
(* Properties. *)

Indexes(Test(_)) == {i \in DOMAIN events : Test(events[i])}
Tasks(ids) == Indexes(LAMBDA e : e.name = "TaskEnd" /\ e.ids = ids)
Successes(ids) == {i \in Tasks(ids) : events[i].outcome = "success"}

\* No task is lost: the task ends of all attempts and the unassigned ones are
\* those of the log, whether or not a stage event of the attempt was seen.
TasksAccounted ==
  /\ unassigned = Cardinality(Tasks(NoIds))
  /\ \A ids \in Attempts :
       request \in {All, ids} =>
         (IF ids \in DOMAIN groups THEN TaskEnds(groups[ids]) ELSE 0) = Cardinality(Tasks(ids))

\* A total says what it stands for: it is the sum over the successful tasks
\* that have the value, the others are counted as missing, and a total of
\* nothing is no zero.
TotalsHonest ==
  \A ids \in DOMAIN groups :
    LET honest(total, Value(_)) ==
          LET has == {i \in Successes(ids) : Value(events[i]) # None}
          IN  /\ total.valid = Cardinality(has)
              /\ total.missing = Cardinality(Successes(ids)) - Cardinality(has)
              /\ total.total = IF has = {} THEN None
                               ELSE SumFunctionOnSet([i \in has |-> Value(events[i])], has)
    IN  /\ honest(MetricTotal(groups[ids].inputs, groups[ids].successful), LAMBDA e : e.input)
        /\ honest(MetricTotal(groups[ids].shuffle, groups[ids].successful),
                  LAMBDA e : IF None \in {e.remote, e.local} THEN None ELSE e.remote + e.local)

\* The times of an attempt are those of one event, the last completion or,
\* without one, the last submission: a duration never mixes two runs.
TimesOfOneEvent ==
  \A ids \in DOMAIN groups :
    LET stages == Indexes(LAMBDA e : e.ids = ids /\ e.name # "TaskEnd")
        done == {i \in stages : events[i].name = "StageCompleted"}
        from == IF done = {} THEN stages ELSE done
    IN  IF from = {} THEN Times(groups[ids]) = <<None, None>>
        ELSE \E last \in from :
               /\ \A i \in from : i <= last
               /\ Times(groups[ids]) = events[last].times

\* An attempt is left out only for ones that took at least as long; unknown
\* durations are left out first.
LongestListed ==
  LET listed == {Listed[i] : i \in DOMAIN Listed}
  IN  \A shown \in listed, omitted \in DOMAIN groups \ listed :
        Duration(groups[shown]) >= Duration(groups[omitted])
=============================================================================
