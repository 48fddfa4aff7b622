----------------------------- MODULE DolphinLogs -----------------------------
(***************************************************************************)
(* A task's log read through get_task_log, call after call from each       *)
(* answer's line_num, while the task goes on writing it; and the YARN ids  *)
(* extract_log_links finds in the part of it that it keeps.                *)
(*                                                                         *)
(* A line is whether it has text and the application whose id it ends      *)
(* with, if any.  Bytes are counted in halves of a line, and the cut at    *)
(* max_log_bytes may fall inside the serial number that ends an id: what   *)
(* is left of it still has the form of an id.                              *)
(***************************************************************************)
EXTENDS Integers, Sequences, SequencesExt, FiniteSets, FiniteSetsExt, Orders

CONSTANTS
  DefaultPageSize, MaxPageSize,   \* they also bound the lines of one answer
  MaxDetailItems,                 \* max_detail_items
  MaxLogHalves,                   \* max_log_bytes
  Applications,                   \* applications whose ids the log may hold
  NoApplication,                  \* of a line without an id
  Asked,                          \* limits callers give
  NoLimit,                        \* of a caller who gives none
  MaxLines                        \* bound: length of the log, and of what is given again

VARIABLES
  log,        \* the lines written so far
  skip,       \* the skip_line_num of the next read
  limit,      \* the limit the reader gives with each read
  got,        \* the numbers of the lines the reader was given
  told,       \* history: every answer bore the number of its last line
  extracted   \* the last answer of extract_log_links

vars == <<log, skip, limit, got, told, extracted>>

Smaller(m, n) == IF m < n THEN m ELSE n

Lines == [text : BOOLEAN, app : Applications \cup {NoApplication}]
Ids == [app : Applications, whole : BOOLEAN]
Unasked == [ids |-> <<>>, found |-> {}]

Init == log = <<>> /\ skip = 0 /\ limit \in Asked /\ got = <<>> /\ told = TRUE /\ extracted = Unasked

\* The task writes a line; a line with an id has text.
Written(line) ==
  /\ Len(log) < MaxLines
  /\ line.app # NoApplication => line.text
  /\ log' = Append(log, line)
  /\ UNCHANGED <<skip, limit, got, told, extracted>>

-----------------------------------------------------------------------------
(* get_task_log *)

\* The server's answer: at most `most` lines after the first `after`, an entry
\* each.  An entry may bear the number of its line.
Entries(after, most, numbered) ==
  [i \in 1..Smaller(most, Len(log) - after) |->
     [line |-> after + i, text |-> log[after + i].text,
      lineNum |-> IF after + i \in numbered THEN after + i ELSE 0]]

\* The number of the last entry that bears one.
NextLine(entries, from) ==
  LET numbered == {i \in DOMAIN entries : entries[i].lineNum # 0}
  IN  IF numbered = {} THEN from ELSE entries[Max(numbered)].lineNum

\* The lines whose text is joined into the message.
Messages(entries) ==
  LET full == {i \in DOMAIN entries : entries[i].text}
  IN  Picked([i \in DOMAIN entries |-> entries[i].line], {entries[i].line : i \in full})

\* Variant: A limit below 1 is passed on.
CapAsGiven(given) == IF given = NoLimit THEN DefaultPageSize ELSE Smaller(given, MaxPageSize)

Cap(given) ==
  LET asked == IF given = NoLimit THEN DefaultPageSize ELSE Smaller(given, MaxPageSize)
  IN  IF asked < 1 THEN DefaultPageSize ELSE asked

ReadLog(numbered) ==
  LET last == Smaller(skip + Cap(limit), Len(log))
      entries == Entries(skip, Cap(limit), numbered)
  IN  /\ numbered \subseteq (skip + 1)..last
      /\ Len(got) <= MaxLines
      /\ told' = (told /\ (last > skip => last \in numbered))
      /\ skip' = NextLine(entries, skip)
      /\ got' = got \o Messages(entries)
      /\ UNCHANGED <<log, limit, extracted>>

-----------------------------------------------------------------------------
(* extract_log_links *)

\* The ids in the first `halves` halves of lines, in order; the id at the end
\* of a line that is cut in the middle has lost digits.
IdsIn(halves) ==
  LET kept == SubSeq(log, 1, Smaller((halves + 1) \div 2, Len(log)))
      ids == [i \in DOMAIN kept |-> [app |-> kept[i].app, whole |-> 2 * i <= halves]]
  IN  Picked(ids, Ids)

Bounded(ids) == SubSeq(ids, 1, Smaller(MaxDetailItems, Len(ids)))

\* The ids that are not seen before.
Dedupe(ids) ==
  LET firsts == {i \in DOMAIN ids : \A j \in 1..(i - 1) : ids[j] # ids[i]}
      places == Picked([i \in DOMAIN ids |-> i], firsts)
  IN  [r \in DOMAIN places |-> ids[places[r]]]

ExtractLinks ==
  /\ extracted' = [ids |-> Bounded(Dedupe(IdsIn(MaxLogHalves))),
                   found |-> ToSet(IdsIn(MaxLogHalves))]
  /\ UNCHANGED <<log, skip, limit, got, told>>

-----------------------------------------------------------------------------
Reads == \E numbered \in SUBSET (1..MaxLines) : ReadLog(numbered)

Next == (\E line \in Lines : Written(line)) \/ Reads \/ ExtractLinks

Spec == Init /\ [][Next]_vars

(* Following line_num, the reader is given each line that has text once and in
   order, and none is left out or given again, whatever limits were asked for
   and however the log grew between the calls.  That the server numbers the
   last line of an answer is up to it: where it does not, the lines behind the
   last number are given again. *)
LogInOrder == told => got = Picked([i \in 1..skip |-> i], {i \in DOMAIN log : log[i].text})

(* The reader is at the end of the log.  One that goes on asking gets there
   when the log is no longer written, and stays: no answer makes it ask for the
   same lines for ever, if answers bear the number of their last line. *)
AllRead == told => skip = Len(log)

(* The ids of extract_log_links are all there as long as they are no more than
   max_detail_items, and none is there twice. *)
IdsComplete ==
  /\ Cardinality(extracted.found) <= MaxDetailItems => ToSet(extracted.ids) = extracted.found
  /\ Cardinality(ToSet(extracted.ids)) = Len(extracted.ids)

(* Every id that is returned is the id of an application in the log. *)
IdsWhole == \A i \in DOMAIN extracted.ids : extracted.ids[i].whole
=============================================================================
