----------------------------- MODULE EventReader -----------------------------
(***************************************************************************)
(* inspect_spark_event_log and query_spark_events: VerifiedEventLogReader  *)
(* reads a saved event log once, line by line with a checkpoint before     *)
(* each, and hands every line to a visitor before it knows whether the     *)
(* file is the one the manifest describes.  A caller inspects an attempt,  *)
(* keeps the digest it was told and walks through the matches page by page *)
(* with it, while others edit, replace and describe anew what is on disk.  *)
(*                                                                         *)
(* A line is its kind: "hit" is one the query's filters let through.  A    *)
(* digest is the contents digested.  Lines the stream reads ahead are      *)
(* taken one at a time: nobody sees a visit before the end of the scan.    *)
(***************************************************************************)
EXTENDS Integers, Sequences, SequencesExt, FiniteSets

CONSTANTS
  Published,    \* contents of event logs a fetch published
  Limit,        \* limit of the query
  MaxEdits,     \* bound: changes made to the directory
  MaxLines      \* bound: lines of an edited log

VARIABLES
  manifest,    \* the manifest on disk
  log,         \* the event log on disk: contents and fstat times
  edits,       \* how often the directory was changed
  scan,        \* the read under way
  walk         \* what the caller asked for and was told

vars == <<manifest, log, edits, scan, walk>>

Kinds == {"logStart", "otherVersion", "appStart", "otherApp", "hit", "miss", "appEnd", "bad"}
NoScan == [phase |-> "idle"]
NoFile == <<>>
Statuses == {"new", "inspecting", "inspected", "querying", "paused", "done",
             "UNEXPECTED_RESPONSE", "TIMEOUT"}

\* Bytes of lines; "miss" stands for the longer ones, of two bytes.
Bytes(lines) == Len(lines) + Cardinality({i \in DOMAIN lines : lines[i] = "miss"})
Has(lines, kind) == \E i \in DOMAIN lines : lines[i] = kind

\* What a publication writes about the contents of an event log.
Described(lines) ==
  [sha |-> lines, size |-> Bytes(lines), count |-> Len(lines), end |-> Has(lines, "appEnd")]

\* The reading of a file at a byte offset: a line, part of one, or nothing.
LineAt(lines, offset) ==
  LET starts == {i \in DOMAIN lines : Bytes(SubSeq(lines, 1, i - 1)) = offset}
  IN  IF offset >= Bytes(lines) THEN "eof"
      ELSE IF starts = {} THEN "bad" ELSE lines[CHOOSE i \in starts : TRUE]

Init ==
  \E lines \in Published :
    /\ manifest = Described(lines)
    /\ log = [lines |-> lines, stamp |-> 0]
    /\ edits = 0
    /\ scan = NoScan
    /\ walk = [status |-> "new", sha |-> <<>>, after |-> 0, shown |-> <<>>, matched |-> {}]

-----------------------------------------------------------------------------
(* The directory, changed by others. *)

\* The file the scan has open: the one at the path unless that was replaced.
Opened == IF scan.replaced # NoFile THEN scan.replaced[1] ELSE log

\* What one change of the file can make of its lines.
Edits(lines) ==
  {[lines EXCEPT ![i] = kind] : i \in DOMAIN lines, kind \in Kinds}
    \union (IF Len(lines) < MaxLines THEN {Append(lines, kind) : kind \in Kinds} ELSE {})
    \union (IF lines = <<>> THEN {} ELSE {Front(lines)})

\* The file is changed in place; two changes in one clock tick share a time.
EditLog ==
  /\ edits < MaxEdits /\ edits' = edits + 1
  /\ \E lines \in Edits(log.lines), stamp \in {log.stamp, edits + 1} :
       log' = [lines |-> lines, stamp |-> stamp]
  /\ UNCHANGED <<manifest, scan, walk>>

\* Another file takes its place; an open scan keeps the one it has.
ReplaceLog ==
  /\ edits < MaxEdits /\ edits' = edits + 1
  /\ \E lines \in Published : log' = [lines |-> lines, stamp |-> edits + 1]
  /\ scan' = IF scan.phase = "reading" /\ scan.replaced = NoFile
             THEN [scan EXCEPT !.replaced = <<log>>] ELSE scan
  /\ UNCHANGED <<manifest, walk>>

\* The manifest is written to describe what is there now.
RewriteManifest ==
  /\ edits < MaxEdits /\ edits' = edits + 1
  /\ manifest' = Described(log.lines)
  /\ UNCHANGED <<log, scan, walk>>

-----------------------------------------------------------------------------
(* The visitor of a query. *)

NoPage == [matched |-> 0, eligible |-> 0, lines |-> <<>>]

\* Variant: the line a page ended at is shown again on the next.
VisitedAgain(page, line, kind, after) ==
  IF kind # "hit" THEN page
  ELSE LET counted == [page EXCEPT !.matched = @ + 1]
       IN  IF line < after THEN counted
           ELSE [counted EXCEPT !.eligible = @ + 1,
                                !.lines = IF Len(@) >= Limit THEN @ ELSE Append(@, line)]

Visited(page, line, kind, after) ==
  IF kind # "hit" THEN page
  ELSE LET counted == [page EXCEPT !.matched = @ + 1]
       IN  IF line <= after THEN counted
           ELSE [counted EXCEPT !.eligible = @ + 1,
                                !.lines = IF Len(@) >= Limit THEN @ ELSE Append(@, line)]

\* next_after_line, 0 when there is none.
NextAfter(page) ==
  IF page.eligible > Len(page.lines) /\ page.lines # <<>> THEN Last(page.lines) ELSE 0

-----------------------------------------------------------------------------
(* One read. *)

Fails(category) ==
  /\ scan' = NoScan
  /\ walk' = [walk EXCEPT !.status = category]
  /\ UNCHANGED <<manifest, log, edits>>

\* The caller asks; the manifest is read.
Ask(status) ==
  /\ scan.phase = "idle"
  /\ walk' = [walk EXCEPT !.status = status]
  /\ scan' = [phase |-> "manifest", selected |-> manifest]
  /\ UNCHANGED <<manifest, log, edits>>

Inspect == walk.status = "new" /\ Ask("inspecting")
Query == walk.status \in {"inspected", "paused"} /\ Ask("querying")

Conflicts(selected) == walk.status = "querying" /\ walk.sha # selected.sha

\* The event log is opened and measured.
Open ==
  /\ scan.phase = "manifest"
  /\ IF Conflicts(scan.selected) \/ Bytes(log.lines) # scan.selected.size
     THEN Fails("UNEXPECTED_RESPONSE")
     ELSE /\ scan' = [phase |-> "reading", selected |-> scan.selected, replaced |-> NoFile,
                      stamp |-> log.stamp, read |-> <<>>, page |-> NoPage]
          /\ UNCHANGED <<manifest, log, edits, walk>>

\* A line that passes the checks of the reader.
Readable(kind) ==
  /\ Len(scan.read) < scan.selected.count
  /\ kind \notin {"bad", "otherVersion", "otherApp"}

\* A line is digested, checked and visited.
ReadLine ==
  /\ scan.phase = "reading"
  /\ LET kind == LineAt(Opened.lines, Bytes(scan.read))
     IN  /\ kind # "eof"
         /\ IF ~Readable(kind) THEN Fails("UNEXPECTED_RESPONSE")
            ELSE /\ scan' = [scan EXCEPT
                       !.read = Append(@, kind),
                       !.page = Visited(@, Len(scan.read) + 1, kind, walk.after)]
                 /\ UNCHANGED <<manifest, log, edits, walk>>

\* What has to hold at the end of the file before anything is answered.
Verified(read) ==
  /\ Bytes(read) = scan.selected.size /\ Len(read) = scan.selected.count
  /\ read = scan.selected.sha
  /\ Has(read, "appStart") /\ Has(read, "logStart")
  /\ Has(read, "appEnd") = scan.selected.end
  /\ Bytes(Opened.lines) = scan.selected.size /\ Opened.stamp = scan.stamp

Inspected == walk' = [walk EXCEPT !.status = "inspected", !.sha = scan.selected.sha]

Paged ==
  LET page == scan.page
      next == NextAfter(page)
  IN  walk' = [walk EXCEPT !.status = IF next = 0 THEN "done" ELSE "paused",
                           !.after = next,
                           !.shown = @ \o page.lines,
                           !.matched = @ \union {page.matched}]

Finish ==
  /\ scan.phase = "reading"
  /\ LineAt(Opened.lines, Bytes(scan.read)) = "eof"
  /\ IF ~Verified(scan.read) THEN Fails("UNEXPECTED_RESPONSE")
     ELSE /\ IF walk.status = "inspecting" THEN Inspected ELSE Paged
          /\ scan' = NoScan
          /\ UNCHANGED <<manifest, log, edits>>

\* A checkpoint finds the deadline passed, or wait_for's timer fires.
DeadlinePasses == scan.phase # "idle" /\ Fails("TIMEOUT")

Reader == Open \/ ReadLine \/ Finish
Caller == Inspect \/ Query
Next == Reader \/ Caller \/ DeadlinePasses \/ EditLog \/ ReplaceLog \/ RewriteManifest

Spec == Init /\ [][Next]_vars

-----------------------------------------------------------------------------
(* Properties. *)

\* The lines of the matches of a snapshot.
Hits(lines) == {i \in DOMAIN lines : lines[i] = "hit"}

InOrder(numbers) == \A i, j \in DOMAIN numbers : i < j => numbers[i] < numbers[j]

TypeOK ==
  /\ log.lines \in Seq(Kinds) /\ log.stamp \in 0..MaxEdits
  /\ manifest = Described(manifest.sha)
  /\ edits \in 0..MaxEdits
  /\ scan.phase \in {"idle", "manifest", "reading"}
  /\ scan.phase = "reading" => Len(scan.read) <= scan.selected.count
  /\ walk.status \in Statuses

\* What a caller was shown is the head of the matches of the one snapshot it
\* inspected, each once and in order, and all of them when no page is left:
\* neither edits during a read nor a new publication between two pages mix.
\* A page that is not the last is full, so that a walk comes to its end.
PagesAreOneSnapshot ==
  /\ InOrder(walk.shown) /\ ToSet(walk.shown) \subseteq Hits(walk.sha)
  /\ \A h \in Hits(walk.sha), i \in DOMAIN walk.shown :
       h < walk.shown[i] => h \in ToSet(walk.shown)
  /\ walk.status = "paused" => walk.shown # <<>> /\ Len(walk.shown) % Limit = 0
  /\ walk.status = "done" => ToSet(walk.shown) = Hits(walk.sha)

\* Every page of a walk counts the same matches, those of the whole snapshot.
MatchedIsConstant == walk.matched \subseteq {Cardinality(Hits(walk.sha))}

\* A digest is only given out for a log with its header: the version and the
\* identity that were checked are those of that log.
InspectedHasHeader ==
  walk.status = "inspected" =>
    /\ Has(walk.sha, "logStart") /\ Has(walk.sha, "appStart")
    /\ ~Has(walk.sha, "otherVersion") /\ ~Has(walk.sha, "otherApp") /\ ~Has(walk.sha, "bad")

\* A snapshot nobody touched is never refused.
UntouchedIsReadable == edits = 0 => walk.status # "UNEXPECTED_RESPONSE"
==============================================================================
