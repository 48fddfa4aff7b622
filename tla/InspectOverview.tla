-------------------------- MODULE InspectOverview --------------------------
(***************************************************************************)
(* The visitor of inspect_spark_event_log: what SparkInspectionAdapter     *)
(* _inspect keeps of an event log it reads line by line, in bounded        *)
(* memory, and the overview it answers.                                    *)
(*                                                                         *)
(* An event is its kind: what tells apart the branches of the visitor.     *)
(* Evidence is the line it was taken from.  `events' is the log so far; it *)
(* is not state of the code, the properties compare with it.               *)
(***************************************************************************)
EXTENDS Integers, Sequences, SequencesExt, FiniteSets, Orders

CONSTANTS
  MaxEvidence,    \* failures and endings kept (20)
  MaxNames,       \* event types and task end reasons listed (32)
  MaxEvents       \* bound: lines of the log

VARIABLES
  events,      \* the log read so far
  types,       \* Counter of event names
  reasons,     \* Counter of task end reasons
  signals,     \* failures of each priority
  failures,    \* kept failures: <<priority, line>>, in order
  endings,     \* lines of the kept endings, in order
  ended        \* endings seen

vars == <<events, types, reasons, signals, failures, endings, ended>>

Before(a, b) == a[1] < b[1] \/ (a[1] = b[1] /\ a[2] < b[2])
First(n, s) == SubSeq(s, 1, IF n < Len(s) THEN n ELSE Len(s))

\* What a kind of event is called, how a task ended, how bad it is.
NoFailure == 4
KindsOf(names, reasonsGiven, priorities) ==
  [name : names, reason : reasonsGiven, priority : priorities]
Kinds == KindsOf({"JobEnd"}, {""}, {0, NoFailure})
           \union KindsOf({"StageCompleted"}, {""}, {1, NoFailure})
           \union KindsOf({"TaskEnd"}, {"Killed"}, {2})
           \union KindsOf({"TaskEnd"}, {"Success", "UNKNOWN"}, {NoFailure})
           \union KindsOf({"ExecutorRemoved"}, {""}, {3})
           \union KindsOf({"SQLExecutionEnd", "ApplicationEnd"}, {""}, {NoFailure})
Names == {e.name : e \in Kinds}
Reasons == {e.reason : e \in Kinds} \ {""}
Endings == {"JobEnd", "SQLExecutionEnd", "ApplicationEnd"}

Init ==
  /\ events = <<>>
  /\ types = [name \in Names |-> 0]
  /\ reasons = [reason \in Reasons |-> 0]
  /\ signals = [priority \in 0..3 |-> 0]
  /\ failures = <<>>
  /\ endings = <<>>
  /\ ended = 0

-----------------------------------------------------------------------------
(* One event. *)

\* Variant: the failures of a full list are never replaced.
KeptFirst(kept, failure) ==
  IF Len(kept) < MaxEvidence THEN OrderedBy(ToSet(kept) \union {failure}, Before) ELSE kept

\* The failures kept when another one is seen.
Kept(kept, failure) ==
  IF Len(kept) < MaxEvidence \/ Before(failure, Last(kept))
  THEN First(MaxEvidence, OrderedBy(ToSet(kept) \union {failure}, Before)) ELSE kept

Counted(counts, key) == [counts EXCEPT ![key] = @ + 1]

Failure(e, line) ==
  /\ e.priority # NoFailure
  /\ signals' = Counted(signals, e.priority)
  /\ failures' = Kept(failures, <<e.priority, line>>)
  /\ UNCHANGED <<endings, ended>>

Ending(e, line) ==
  /\ e.priority = NoFailure /\ e.name \in Endings
  /\ ended' = ended + 1
  /\ endings' = IF Len(endings) < MaxEvidence THEN Append(endings, line) ELSE endings
  /\ UNCHANGED <<signals, failures>>

Ordinary(e) ==
  /\ e.priority = NoFailure /\ e.name \notin Endings
  /\ UNCHANGED <<signals, failures, endings, ended>>

ReasonsWith(e) == IF e.name = "TaskEnd" THEN Counted(reasons, e.reason) ELSE reasons

Visit(e) ==
  LET line == Len(events) + 1
  IN  /\ line <= MaxEvents
      /\ events' = Append(events, e)
      /\ types' = Counted(types, e.name)
      /\ reasons' = ReasonsWith(e)
      /\ Failure(e, line) \/ Ending(e, line) \/ Ordinary(e)

Next == \E e \in Kinds : Visit(e)

Spec == Init /\ [][Next]_vars

-----------------------------------------------------------------------------
(* The answer. *)

Sum4(counts) == counts[0] + counts[1] + counts[2] + counts[3]
FailureCount == Sum4(signals)

Evidence == IF FailureCount > 0 THEN [i \in DOMAIN failures |-> failures[i][2]] ELSE endings

\* evidence_omitted.
Omitted == (IF FailureCount > 0 THEN FailureCount ELSE ended) - Len(Evidence)

\* Where a name stands in the alphabet.
Place ==
  [Killed |-> 1, ApplicationEnd |-> 2, ExecutorRemoved |-> 3, JobEnd |-> 4,
   StageCompleted |-> 5, TaskEnd |-> 6, Success |-> 7, UNKNOWN |-> 8, SQLExecutionEnd |-> 9]

\* The names a Counter lists: the most frequent first, then by name.
Seen(counts) == {key \in DOMAIN counts : counts[key] > 0}
Listed(counts) ==
  First(MaxNames, OrderedBy(Seen(counts),
    LAMBDA a, b : counts[a] > counts[b] \/ (counts[a] = counts[b] /\ Place[a] < Place[b])))
NamesOmitted(counts) ==
  LET seen == Cardinality(Seen(counts)) IN IF seen > MaxNames THEN seen - MaxNames ELSE 0

-----------------------------------------------------------------------------
(* Properties. *)

Failed == {i \in DOMAIN events : events[i].priority # NoFailure}
Ended == {i \in DOMAIN events : events[i].priority = NoFailure /\ events[i].name \in Endings}
Found == IF Failed # {} THEN Failed ELSE Ended

Worse(i, j) == Before(<<events[i].priority, i>>, <<events[j].priority, j>>)

\* However many tasks fail before it, a failed job or stage is in the
\* overview: the evidence is the worst failures of the log, the earliest first
\* among equals; without a failure it is the first endings.
WorstFirst ==
  /\ ToSet(Evidence) \subseteq Found
  /\ \A i, j \in DOMAIN Evidence : i < j => Worse(Evidence[i], Evidence[j])
  /\ \A l \in Found \ ToSet(Evidence) :
       Len(Evidence) = MaxEvidence /\ \A i \in DOMAIN Evidence : Worse(Evidence[i], l)

\* What the overview does not show it counts: evidence and omissions are all
\* the failures of the log, or all its endings.
OmissionsCounted == Len(Evidence) + Omitted = Cardinality(Found)

\* A listing leaves out only names at least as rare, and counts them.
ListsMostFrequent(counts) ==
  LET listed == {Listed(counts)[i] : i \in DOMAIN Listed(counts)}
  IN  /\ \A shown \in listed, other \in DOMAIN counts \ listed : counts[shown] >= counts[other]
      /\ Cardinality(listed) + NamesOmitted(counts) = Cardinality(Seen(counts))

\* The counts cover every event, and every TaskEnd with or without a valid
\* reason; what is not listed is rarer than what is.
CountsCoverLog ==
  /\ \A name \in Names :
       types[name] = Cardinality({i \in DOMAIN events : events[i].name = name})
  /\ \A reason \in Reasons :
       reasons[reason] = Cardinality({i \in DOMAIN events : events[i].reason = reason})
  /\ ListsMostFrequent(types) /\ ListsMostFrequent(reasons)
=============================================================================
