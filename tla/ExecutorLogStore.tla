-------------------------- MODULE ExecutorLogStore --------------------------
(***************************************************************************)
(* The Spark runtime as one composition: executor-log fetches               *)
(* (SparkExecutorLogAdapter), inspections of saved event logs               *)
(* (SparkInspectionAdapter) and downloads of event logs, whose own steps    *)
(* SparkEventLogStore details, under SparkRuntime.close, which closes the   *)
(* three in that order and releases the directory lock last.                *)
(*                                                                          *)
(* A log fetch holds the adapter's lock while its worker may wait for a     *)
(* download, a task of the event-log store that queues for another lock.    *)
(* fetch_spark_event_log looks for a saved snapshot in the task of its      *)
(* caller, which no adapter owns and close() does not join.                 *)
(***************************************************************************)
EXTENDS Naturals, FiniteSets

CONSTANTS Logs, Scans, Events,  \* calls: fetch_spark_executor_log, the four
                                \* readers of a snapshot, fetch_spark_event_log
          NoCall,
          PatientWaits          \* wait_for of Python 3.12 and later

Calls == Logs \cup Scans \cup Events

ASSUME RuntimeAssumption ==
  /\ Logs \cap Scans = {} /\ Scans \cap Events = {} /\ Events \cap Logs = {}
  /\ NoCall \notin Calls
  /\ PatientWaits \in BOOLEAN

VARIABLES
  closing,    \* where SparkRuntime.close is; the flock is held until "exited"
  awaited,    \* calls whose tasks the adapter that is closing has taken to join
  lock,       \* the log fetch inside SparkExecutorLogAdapter._lock
  dlock,      \* the call inside SparkEventLogAdapter._download_lock
  pc,         \* where the worker of each call is (for Events: the call itself)
  stop,       \* cancel() of it requested, not yet delivered
  ending,     \* how it ended
  fetch,      \* where the download it started is
  dstop,      \* cancel() of that download requested
  dending,    \* how that download ended
  dstaging,   \* calls whose download has its ".part-" directory
  saved,      \* calls whose download published a snapshot
  staging,    \* log fetches with a ".part-" directory under executor-logs
  final,      \* log fetches whose directory has its final name
  files,      \* what is written in the directory of each log fetch
  expired,    \* the deadline passed
  gaveUp,     \* the caller was cancelled
  forgotten,  \* log fetches whose worker left _acquisitions before its end
  dforgotten, \* calls whose download did
  outcome     \* what the caller got

runVars == <<pc, stop, ending>>
downVars == <<dlock, fetch, dstop, dending, dstaging, saved, dforgotten>>
logVars == <<staging, final, files>>
callVars == <<expired, gaveUp, forgotten, outcome>>
vars == <<closing, awaited, lock, runVars, downVars, logVars, callVars>>

Fragments == {"log", "manifest"}
Publishing == {"staged", "written", "verified"}
Inside == {"resolving", "downloading", "draining", "reading", "receiving", "unwinding",
           "received"} \cup Publishing
Working == Inside \cup {"queued", "looking"}
Live == Working \cup {"ended"}
Downloading == {"queued", "inside"}

TypeOK ==
  /\ closing \in {"open", "logs", "scans", "store", "exited"} /\ awaited \subseteq Calls
  /\ lock \in Logs \cup {NoCall} /\ dlock \in Calls \cup {NoCall}
  /\ pc \in [Calls -> Live \cup {"idle", "done"}]
  /\ \A c \in Calls : pc[c] \in {"queued", "receiving", "received"} \cup Publishing => c \in Logs
  /\ \A c \in Calls : pc[c] = "looking" => c \in Events
  /\ stop \in [Calls -> BOOLEAN] /\ dstop \in [Calls -> BOOLEAN]
  /\ ending \in [Calls -> {"none", "answered", "error", "cancelled"}]
  /\ fetch \in [Calls -> Downloading \cup {"none", "over"}]
  /\ dending \in [Calls -> {"none", "saved", "error", "cancelled"}]
  /\ dstaging \subseteq Calls /\ saved \subseteq Calls
  /\ staging \subseteq Logs /\ final \subseteq Logs
  /\ files \in [Logs -> SUBSET Fragments]
  /\ expired \in [Calls -> BOOLEAN] /\ gaveUp \in [Calls -> BOOLEAN]
  /\ forgotten \subseteq Logs /\ dforgotten \subseteq Calls
  /\ outcome \in [Calls -> {"none", "answered", "error", "timeout", "cancelled"}]

Init ==
  /\ closing = "open" /\ awaited = {}
  /\ lock = NoCall /\ dlock = NoCall
  /\ pc = [c \in Calls |-> "idle"]
  /\ stop = [c \in Calls |-> FALSE] /\ dstop = [c \in Calls |-> FALSE]
  /\ ending = [c \in Calls |-> "none"]
  /\ fetch = [c \in Calls |-> "none"]
  /\ dending = [c \in Calls |-> "none"]
  /\ dstaging = {} /\ saved = {} /\ staging = {} /\ final = {}
  /\ files = [c \in Logs |-> {}]
  /\ expired = [c \in Calls |-> FALSE] /\ gaveUp = [c \in Calls |-> FALSE]
  /\ forgotten = {} /\ dforgotten = {}
  /\ outcome = [c \in Calls |-> "none"]

------------------------------------------------------------------------------
(* SparkRuntime.close.                                                      *)

\* The tasks each adapter knows of when its turn comes: it takes them once,
\* cancels them and joins them.
LogWorkers == {c \in Logs \ forgotten : pc[c] \in Working}
ScanWorkers == {c \in Scans : pc[c] \in Working}
Downloads == {c \in Calls \ dforgotten : fetch[c] \in Downloading}

\* Those it has taken that still run, forgotten meanwhile or not; gather() is
\* over when there is none.  The variant goes on once they are cancelled.
Joined == {c \in awaited : IF closing = "store" THEN fetch[c] \in Downloading
                                               ELSE pc[c] \in Working}
GatheredCancelled == TRUE
Gathered == Joined = {}

\* The variant only sets _closed.
CancelsNone(S) == UNCHANGED stop
Cancels(S) == stop' = [c \in Calls |-> stop[c] \/ c \in S]
CancelsDownloads(S) == dstop' = [c \in Calls |-> dstop[c] \/ c \in S]

CloseStarts ==
  /\ closing = "open"
  /\ closing' = "logs"
  /\ awaited' = LogWorkers /\ Cancels(LogWorkers)
  /\ UNCHANGED <<lock, pc, ending, downVars, logVars, callVars>>

LogsClosed ==
  /\ closing = "logs" /\ Gathered
  /\ closing' = "scans"
  /\ awaited' = ScanWorkers /\ Cancels(ScanWorkers)
  /\ UNCHANGED <<lock, pc, ending, downVars, logVars, callVars>>

ScansClosed ==
  /\ closing = "scans" /\ Gathered
  /\ closing' = "store"
  /\ awaited' = Downloads /\ CancelsDownloads(Downloads)
  /\ UNCHANGED <<lock, runVars, dlock, fetch, dending, dstaging, saved, dforgotten,
                 logVars, callVars>>

\* The event-log store has joined its downloads and closes root/.lock.
StoreClosed ==
  /\ closing = "store" /\ Gathered
  /\ closing' = "exited"
  /\ UNCHANGED <<awaited, lock, runVars, downVars, logVars, callVars>>

\* close() is cancelled while it gathers: gather(return_exceptions=True)
\* cancels its tasks once more and still waits for them.
CloseInterrupted ==
  /\ \/ closing \in {"logs", "scans"} /\ Cancels(Joined) /\ UNCHANGED dstop
     \/ closing = "store" /\ CancelsDownloads(Joined) /\ UNCHANGED stop
  /\ UNCHANGED <<closing, awaited, lock, pc, ending, dlock, fetch, dending, dstaging, saved,
                 dforgotten, logVars, callVars>>

------------------------------------------------------------------------------
(* Starting a call, and how a worker ends.                                  *)

Answer(c, o) == /\ pc' = [pc EXCEPT ![c] = "done"]
                /\ outcome' = [outcome EXCEPT ![c] = IF @ = "none" THEN o ELSE @]

\* download(): refused once the store is closing, else a task of its own.
StartsDownload(c) == /\ fetch' = [fetch EXCEPT ![c] = "queued"]
                     /\ UNCHANGED <<dlock, dstop, dending, dstaging, saved, dforgotten>>

\* Each adapter refuses calls from its own close() on.
BeginLog(c) ==
  /\ pc[c] = "idle"
  /\ \/ closing = "open" /\ pc' = [pc EXCEPT ![c] = "queued"] /\ UNCHANGED outcome
     \/ closing # "open" /\ Answer(c, "error")
  /\ UNCHANGED <<closing, awaited, lock, stop, ending, downVars, logVars, expired, gaveUp, forgotten>>

BeginScan(c) ==
  /\ pc[c] = "idle"
  /\ \/ closing \in {"open", "logs"} /\ pc' = [pc EXCEPT ![c] = "reading"] /\ UNCHANGED outcome
     \/ closing \notin {"open", "logs"} /\ Answer(c, "cancelled")
  /\ UNCHANGED <<closing, awaited, lock, stop, ending, downVars, logVars, expired, gaveUp, forgotten>>

\* SparkEventLogService: a lookup in the task of the caller, or with refresh a
\* download at once.
BeginEvents(c) ==
  /\ pc[c] = "idle"
  /\ \/ /\ closing \in {"open", "logs", "scans"}
        /\ pc' = [pc EXCEPT ![c] = "looking"]
        /\ UNCHANGED <<outcome, downVars>>
     \/ /\ closing \in {"open", "logs", "scans"}
        /\ pc' = [pc EXCEPT ![c] = "downloading"]
        /\ StartsDownload(c)
        /\ UNCHANGED outcome
     \/ closing \in {"store", "exited"} /\ Answer(c, "error") /\ UNCHANGED downVars
  /\ UNCHANGED <<closing, awaited, lock, stop, ending, logVars, expired, gaveUp, forgotten>>

\* async with self._lock is left.
Unlocked(c) == IF lock = c THEN NoCall ELSE lock

\* The end of a worker, other than in _publish.
Ends(c, how) == /\ pc' = [pc EXCEPT ![c] = "ended"]
                /\ ending' = [ending EXCEPT ![c] = how]
                /\ stop' = [stop EXCEPT ![c] = FALSE]
                /\ lock' = Unlocked(c)

Goes(c, from, to) == pc[c] = from /\ pc' = [pc EXCEPT ![c] = to]

------------------------------------------------------------------------------
(* _fetch and _resolve.                                                     *)

LockTaken(c) ==
  /\ c \in Logs /\ lock = NoCall
  /\ Goes(c, "queued", "resolving")
  /\ lock' = c
  /\ UNCHANGED <<closing, awaited, stop, ending, downVars, logVars, callVars>>

\* The lookup has a snapshot, or has none and a download is started, or fails;
\* a call for the snapshot itself has its answer with it.
LookedUp(c) ==
  /\ pc[c] \in {"resolving", "looking"} /\ ~stop[c]
  /\ \/ /\ c \in Logs /\ pc' = [pc EXCEPT ![c] = "reading"]
        /\ UNCHANGED <<lock, stop, ending, downVars>>
     \/ c \in Events /\ Ends(c, "answered") /\ UNCHANGED downVars
     \/ /\ closing \notin {"store", "exited"}
        /\ pc' = [pc EXCEPT ![c] = "downloading"]
        /\ StartsDownload(c)
        /\ UNCHANGED <<lock, stop, ending>>
     \/ Ends(c, "error") /\ UNCHANGED downVars
  /\ UNCHANGED <<closing, awaited, logVars, callVars>>

\* The snapshot is verified and read, for a log or for a call that reads it;
\* a log needs its address in there and goes on to ask for it.
Read(c) ==
  /\ pc[c] = "reading" /\ ~stop[c]
  /\ \/ c \in Logs /\ Goes(c, "reading", "receiving") /\ UNCHANGED <<lock, stop, ending>>
     \/ c \in Scans /\ Ends(c, "answered")
     \/ Ends(c, "error")
  /\ UNCHANGED <<closing, awaited, downVars, logVars, callVars>>

\* A page arrives and the client is closed, or the request fails.
Received(c) ==
  /\ pc[c] = "receiving"
  /\ \/ Goes(c, "receiving", "received") /\ UNCHANGED <<lock, stop, ending>>
     \/ Ends(c, "error")
  /\ UNCHANGED <<closing, awaited, downVars, logVars, callVars>>

\* Cancelled, or out of time, while receiving: the client is being closed.
ReceiveStops(c) ==
  /\ stop[c]
  /\ Goes(c, "receiving", "unwinding")
  /\ stop' = [stop EXCEPT ![c] = FALSE]
  /\ ending' = [ending EXCEPT ![c] = "cancelled"]
  /\ UNCHANGED <<closing, awaited, lock, downVars, logVars, callVars>>

Unwound(c) ==
  /\ pc[c] = "unwinding"
  /\ Ends(c, ending[c])
  /\ UNCHANGED <<closing, awaited, downVars, logVars, callVars>>

\* CancelledError, or a deadline seen at a checkpoint, where nothing is
\* staged and nothing awaited.
Stops(c) ==
  /\ pc[c] \in {"queued", "resolving", "looking", "reading", "received"}
  /\ \/ stop[c] /\ Ends(c, "cancelled")
     \/ expired[c] /\ pc[c] # "queued" /\ Ends(c, "error")
  /\ UNCHANGED <<closing, awaited, downVars, logVars, callVars>>

------------------------------------------------------------------------------
(* Waiting for a download.                                                  *)

DownloadDelivered(c) ==
  /\ pc[c] = "downloading" /\ fetch[c] = "over" /\ ~stop[c]
  /\ \/ /\ dending[c] = "saved" /\ c \in Logs
        /\ Goes(c, "downloading", "reading")
        /\ UNCHANGED <<lock, stop, ending>>
     \/ dending[c] = "saved" /\ c \in Events /\ Ends(c, "answered")
     \/ dending[c] # "saved" /\ Ends(c, dending[c])
  /\ UNCHANGED <<closing, awaited, downVars, logVars, callVars>>

\* wait_for in download is cancelled or times out: it cancels the download
\* and waits for its end.
DownloadStopped(c) ==
  /\ pc[c] = "downloading"
  /\ \/ stop[c] /\ ending' = [ending EXCEPT ![c] = "cancelled"]
               /\ stop' = [stop EXCEPT ![c] = FALSE]
     \/ expired[c] /\ ending' = [ending EXCEPT ![c] = "error"] /\ UNCHANGED stop
  /\ pc' = [pc EXCEPT ![c] = "draining"]
  /\ CancelsDownloads({c} \cap Downloads)
  /\ UNCHANGED <<closing, awaited, lock, dlock, fetch, dending, dstaging, saved, dforgotten,
                 logVars, callVars>>

\* The download is over; up to Python 3.11 a further cancellation makes
\* download leave, and its finally drops the task from _acquisitions.
Drained(c) ==
  /\ pc[c] = "draining"
  /\ \/ fetch[c] = "over" /\ Ends(c, ending[c]) /\ UNCHANGED dforgotten
     \/ /\ ~PatientWaits /\ stop[c] /\ fetch[c] # "over"
        /\ Ends(c, "cancelled")
        /\ dforgotten' = dforgotten \cup {c}
  /\ UNCHANGED <<closing, awaited, dlock, fetch, dstop, dending, dstaging, saved, logVars, callVars>>

\* _download, from lock to publication.
DownloadLocked(c) ==
  /\ fetch[c] = "queued" /\ dlock = NoCall /\ ~dstop[c]
  /\ fetch' = [fetch EXCEPT ![c] = "inside"]
  /\ dlock' = c
  /\ dstaging' = dstaging \cup {c}
  /\ UNCHANGED <<closing, awaited, lock, runVars, dstop, dending, saved, dforgotten, logVars, callVars>>

DownloadOver(c, how) ==
  /\ fetch' = [fetch EXCEPT ![c] = "over"]
  /\ dending' = [dending EXCEPT ![c] = how]
  /\ dlock' = IF dlock = c THEN NoCall ELSE dlock
  /\ dstaging' = dstaging \ {c}
  /\ saved' = IF how = "saved" THEN saved \cup {c} ELSE saved
  /\ UNCHANGED <<closing, awaited, lock, runVars, dstop, dforgotten, logVars, callVars>>

DownloadEnds(c) ==
  \/ fetch[c] = "inside" /\ ~dstop[c] /\ \E how \in {"saved", "error"} : DownloadOver(c, how)
  \/ fetch[c] \in Downloading /\ dstop[c] /\ DownloadOver(c, "cancelled")

------------------------------------------------------------------------------
(* _publish.                                                                *)

\* What is left of the directory of an unpublished log when its finally is
\* done: rmdir fails while there is a file in it.
Leftover(c) == files[c] \ Fragments

\* The end of a worker in _publish: its finally removes what it did not
\* publish.
Abandons(c, how) ==
  /\ files' = [files EXCEPT ![c] = Leftover(c)]
  /\ staging' = IF Leftover(c) = {} THEN staging \ {c} ELSE staging
  /\ Ends(c, how)
  /\ UNCHANGED <<closing, awaited, downVars, final, callVars>>

\* Past the checkpoint in _fetch: the directories are made, up to the first
\* checkpoint; or one is not private, or the manifest would hold a secret.
Staged(c) ==
  /\ pc[c] = "received" /\ ~stop[c]
  /\ \/ /\ Goes(c, "received", "staged")
        /\ staging' = staging \cup {c}
        /\ UNCHANGED <<closing, awaited, lock, stop, ending, downVars, final, files, callVars>>
     \/ Ends(c, "error") /\ UNCHANGED <<closing, awaited, downVars, logVars, callVars>>

Wrote(c, from, file, to) ==
  /\ Goes(c, from, to) /\ ~stop[c]
  /\ files' = [files EXCEPT ![c] = @ \cup {file}]
  /\ UNCHANGED <<closing, awaited, lock, stop, ending, downVars, staging, final, callVars>>

\* Each file is written and synced behind a checkpoint of its own.
LogWritten(c) == Wrote(c, "staged", "log", "written")
ManifestWritten(c) == Wrote(c, "written", "manifest", "verified")

\* A write, the digest or the rename fails; a file may have been created.
PublishFails(c) ==
  /\ pc[c] \in Publishing /\ ~stop[c]
  /\ Abandons(c, "error")

PublishStops(c) ==
  /\ pc[c] \in Publishing
  /\ \/ stop[c] /\ Abandons(c, "cancelled")
     \/ expired[c] /\ Abandons(c, "error")

\* Past the last checkpoint: rename, and the lock is released.  The variant
\* renames before the manifest is there.
RenamedEarly(c) == pc[c] = "written"
Complete(c) == pc[c] = "verified"

Published(c) ==
  /\ Complete(c) /\ ~stop[c] /\ ~expired[c]
  /\ staging' = staging \ {c}
  /\ final' = final \cup {c}
  /\ Ends(c, "answered")
  /\ UNCHANGED <<closing, awaited, downVars, files, callVars>>

------------------------------------------------------------------------------
(* The caller.                                                              *)

\* wait_for cancels the worker; the variant shields it.
Shielded(c) == UNCHANGED stop
StopsWorker(c) == stop' = [stop EXCEPT ![c] = @ \/ pc[c] \in Working]

CallerCancelled(c) ==
  /\ pc[c] \in Live /\ ~gaveUp[c]
  /\ gaveUp' = [gaveUp EXCEPT ![c] = TRUE]
  /\ StopsWorker(c)
  /\ UNCHANGED <<closing, awaited, lock, pc, ending, downVars, logVars, expired, forgotten, outcome>>

DeadlinePasses(c) ==
  /\ pc[c] \in Live /\ ~expired[c]
  /\ expired' = [expired EXCEPT ![c] = TRUE]
  /\ StopsWorker(c)
  /\ UNCHANGED <<closing, awaited, lock, pc, ending, downVars, logVars, gaveUp, forgotten, outcome>>

\* Up to Python 3.11 the adapter's timer fires just before the service's:
\* fetch is cancelled while it waits for its worker, which has been cancelled
\* the step before and is closing what it has open; fetch drops it from
\* _acquisitions and leaves.
FetchLeaves(c) ==
  /\ ~PatientWaits
  /\ c \in Logs \ forgotten
  /\ pc[c] \in Working /\ expired[c] /\ ~stop[c] /\ ~gaveUp[c]
  /\ forgotten' = forgotten \cup {c}
  /\ outcome' = [outcome EXCEPT ![c] = "timeout"]
  /\ UNCHANGED <<closing, awaited, lock, runVars, downVars, logVars, expired, gaveUp>>

\* The worker is done; the timer and the task of the call are gone with it.
CallerReturns(c) ==
  /\ pc[c] = "ended"
  /\ \/ gaveUp[c] /\ Answer(c, "cancelled")
     \/ ~gaveUp[c] /\ expired[c] /\ Answer(c, "timeout")
     \/ ending[c] \in {"answered", "error"} /\ Answer(c, ending[c])
     \/ ending[c] = "cancelled" /\ ~gaveUp[c] /\ ~expired[c] /\ Answer(c, "cancelled")
  /\ ending' = [ending EXCEPT ![c] = "none"]
  /\ expired' = [expired EXCEPT ![c] = FALSE]
  /\ gaveUp' = [gaveUp EXCEPT ![c] = FALSE]
  /\ UNCHANGED <<closing, awaited, lock, stop, downVars, logVars, forgotten>>

------------------------------------------------------------------------------

LoopStep(c) ==
  \/ LockTaken(c) \/ LookedUp(c) \/ Read(c) \/ Stops(c) \/ ReceiveStops(c) \/ Unwound(c)
  \/ DownloadDelivered(c) \/ DownloadStopped(c) \/ Drained(c) \/ DownloadLocked(c)
  \/ fetch[c] \in Downloading /\ dstop[c] /\ DownloadOver(c, "cancelled")
  \/ Staged(c) \/ LogWritten(c) \/ ManifestWritten(c) \/ PublishStops(c) \/ Published(c)
  \/ CallerReturns(c)

CloseStep == LogsClosed \/ ScansClosed \/ StoreClosed

Finished == /\ closing = "exited"
            /\ \A c \in Calls : pc[c] \in {"idle", "done"} /\ fetch[c] \notin Downloading
            /\ UNCHANGED vars

Next ==
  \/ CloseStarts \/ CloseStep \/ CloseInterrupted
  \/ \E c \in Logs : BeginLog(c) \/ FetchLeaves(c) \/ PublishFails(c)
  \/ \E c \in Scans : BeginScan(c)
  \/ \E c \in Events : BeginEvents(c)
  \/ \E c \in Calls : \/ LoopStep(c) \/ Received(c) \/ DownloadEnds(c)
                      \/ CallerCancelled(c) \/ DeadlinePasses(c)
  \/ Finished

Spec == Init /\ [][Next]_vars

(***************************************************************************)
(* The loop runs what is ready, a cancelled download ends and a client      *)
(* closes; no server has to answer, and nobody has to call close.  Timers   *)
(* says that deadlines pass as well.                                        *)
(***************************************************************************)
FairSpec == Spec /\ (\A c \in Calls : WF_vars(LoopStep(c))) /\ WF_vars(CloseStep)

Timers == \A c \in Calls : WF_vars(DeadlinePasses(c))

------------------------------------------------------------------------------
(* Properties.                                                              *)

\* Once the directory lock is released no task that an adapter owns reads or
\* changes the directory, and there is no unpublished directory in it: whichever
\* adapter owns the task, and whoever cancelled close() meanwhile.
OwnedUntilRelease ==
  closing = "exited" =>
    /\ \A c \in Logs \cup Scans : pc[c] \notin Working
    /\ \A c \in Calls : fetch[c] \notin Downloading
    /\ staging = {} /\ dstaging = {}

\* More than the code promises: that nobody reads it either.  A caller of
\* fetch_spark_event_log looks a snapshot up in its own task, which may go on.
ReadUntilRelease == closing = "exited" => \A c \in Calls : pc[c] \notin Working

\* A log has its final name only when log and manifest are both written, and
\* a call that reports an error leaves no directory.  One that is unpublished
\* belongs to the worker that publishes it, and the caller of that worker has
\* not been answered, unless fetch has left it.
PublishedWhole ==
  /\ \A c \in final : files[c] = Fragments
  /\ \A c \in Logs : outcome[c] = "error" => c \notin final \cup staging
  /\ \A c \in staging : /\ pc[c] \in Publishing /\ lock = c /\ c \notin final
                        /\ outcome[c] = "none" \/ c \in forgotten

\* Every call ends by its deadline, also with a log fetch that holds one lock
\* and waits in the queue of the other.
CallsEnd == Timers => \A c \in Calls : pc[c] \in Live ~> pc[c] = "done"

\* Shutdown needs no deadline to pass: it ends what it joins.
CloseEnds == closing = "logs" ~> closing = "exited"
=============================================================================
