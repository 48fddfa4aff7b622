----------------------- MODULE ExecutorLogStore_proofs -----------------------
(***************************************************************************)
(* Proofs about ExecutorLogStore, for any number of calls of each kind:     *)
(* what is left when SparkRuntime.close has released the directory lock,    *)
(* and what the publication of an executor log leaves behind.               *)
(*                                                                          *)
(* The inductive invariant holds whatever wait_for does.  Up to Python 3.11 *)
(* tasks may be forgotten and outlive the lock; that none does is stated    *)
(* under PatientWaits.                                                      *)
(***************************************************************************)
EXTENDS ExecutorLogStore, TLAPS

------------------------------------------------------------------------------
(* The inductive invariant, in named parts.                                  *)

\* A log worker past the queue holds the lock of its adapter, forgotten or not.
LockInv == \A c \in Logs : pc[c] \in Inside => lock = c

\* The directory of a log goes with the place of its worker, and what is
\* neither published nor in publication holds no file.
FilesInv == \A c \in Logs :
  /\ pc[c] = "staged" => files[c] = {}
  /\ pc[c] = "written" => files[c] = {"log"}
  /\ pc[c] = "verified" => files[c] = Fragments
  /\ pc[c] \notin Publishing /\ c \notin final => files[c] = {}
  /\ c \in staging <=> pc[c] \in Publishing
  /\ c \in final => pc[c] \in {"ended", "done"} /\ files[c] = Fragments
  /\ c \in final /\ pc[c] = "ended" => ending[c] = "answered"

\* Who is not done has been told nothing, unless fetch left its worker.
OutcomeInv ==
  /\ \A c \in Calls :
       pc[c] # "done" => outcome[c] = "none" \/ (c \in forgotten /\ outcome[c] = "timeout")
  /\ \A c \in Logs : outcome[c] = "error" => pc[c] = "done" /\ c \notin final
  /\ PatientWaits => forgotten = {} /\ dforgotten = {}

\* A download is started once, and stages while it holds the download lock.
DownInv == \A c \in Calls :
  /\ pc[c] \in {"idle", "queued", "resolving", "looking"} => fetch[c] = "none"
  /\ c \in dstaging => fetch[c] = "inside"

\* An adapter has taken all the tasks it has to join, and what close() has
\* joined does not come back.
CloseInv ==
  /\ closing = "logs" => LogWorkers \subseteq awaited
  /\ closing = "scans" => ScanWorkers \subseteq awaited
  /\ closing = "store" => Downloads \subseteq awaited
  /\ closing \in {"scans", "store", "exited"} => LogWorkers = {}
  /\ closing \in {"store", "exited"} => ScanWorkers = {}
  /\ closing = "exited" => Downloads = {}

IInv == TypeOK /\ LockInv /\ FilesInv /\ OutcomeInv /\ DownInv /\ CloseInv

------------------------------------------------------------------------------
(* The steps, grouped by what the invariant sees of them.                    *)

\* A call begins, at the adapter of its kind.
Begins(c) == \/ c \in Logs /\ BeginLog(c)
             \/ c \in Scans /\ BeginScan(c)
             \/ c \in Events /\ BeginEvents(c)

Closes == CloseStarts \/ CloseStep \/ CloseInterrupted

\* A worker that has staged nothing goes on, or ends.
Works(c) == \/ LookedUp(c) \/ Read(c) \/ Received(c) \/ ReceiveStops(c) \/ Unwound(c)
            \/ Stops(c) \/ DownloadDelivered(c) \/ DownloadStopped(c) \/ Drained(c)

\* A worker ends in _publish with nothing published.
GivesUp(c) == PublishFails(c) \/ PublishStops(c)

\* A download takes the lock of its store, or ends.
DownloadMoves(c) == DownloadLocked(c) \/ DownloadEnds(c)

\* Timers and cancellations: signs that are read later.
Signals(c) == CallerCancelled(c) \/ DeadlinePasses(c)

LEMMA StepCases ==
  ASSUME [Next]_vars
  PROVE  \/ Closes
         \/ \E c \in Calls : \/ Begins(c) \/ LockTaken(c) \/ Works(c) \/ DownloadMoves(c)
                             \/ Staged(c) \/ LogWritten(c) \/ ManifestWritten(c) \/ GivesUp(c)
                             \/ Published(c) \/ Signals(c) \/ CallerReturns(c)
         \/ \E c \in Logs : FetchLeaves(c)
         \/ UNCHANGED vars
<1>1. \A c \in Calls : LoopStep(c) \/ DownloadEnds(c) =>
        \/ LockTaken(c) \/ Works(c) \/ DownloadMoves(c) \/ Staged(c) \/ LogWritten(c)
        \/ ManifestWritten(c) \/ GivesUp(c) \/ Published(c) \/ CallerReturns(c)
  BY DEF LoopStep, Works, DownloadMoves, DownloadEnds, GivesUp
<1>2. \A c \in Calls : /\ Received(c) => Works(c)
                       /\ CallerCancelled(c) \/ DeadlinePasses(c) => Signals(c)
  BY DEF Works, Signals
<1>3. /\ \A c \in Logs : c \in Calls /\ (BeginLog(c) => Begins(c)) /\ (PublishFails(c) => GivesUp(c))
      /\ \A c \in Scans : c \in Calls /\ (BeginScan(c) => Begins(c))
      /\ \A c \in Events : c \in Calls /\ (BeginEvents(c) => Begins(c))
  BY DEF Begins, GivesUp, Calls
<1>4. QED
  BY <1>1, <1>2, <1>3 DEF Next, Closes, Finished

LEMMA Closing ==
  ASSUME Closes
  PROVE  /\ UNCHANGED <<lock, pc, ending, dlock, fetch, dending, dstaging, saved, dforgotten,
                        logVars, callVars>>
         /\ stop' = stop \/ \E S \in {LogWorkers, ScanWorkers, Joined} : Cancels(S)
         /\ dstop' = dstop \/ \E S \in {Downloads, Joined} : CancelsDownloads(S)
         /\ \/ UNCHANGED <<closing, awaited>>
            \/ closing = "open" /\ closing' = "logs" /\ awaited' = LogWorkers
            \/ closing = "logs" /\ Joined = {} /\ closing' = "scans" /\ awaited' = ScanWorkers
            \/ closing = "scans" /\ Joined = {} /\ closing' = "store" /\ awaited' = Downloads
            \/ closing = "store" /\ Joined = {} /\ closing' = "exited" /\ UNCHANGED awaited
  BY DEF Closes, CloseStarts, CloseStep, CloseInterrupted, LogsClosed, ScansClosed, StoreClosed,
     Gathered, runVars, downVars

\* A call that begins is answered, waits for the lock, reads, looks up or
\* downloads.
LEMMA Beginning ==
  ASSUME NEW c \in Calls, Begins(c)
  PROVE  /\ pc[c] = "idle"
         /\ UNCHANGED <<closing, awaited, lock, stop, ending, dlock, dstop, dending, dstaging, saved,
                        dforgotten, logVars, expired, gaveUp, forgotten>>
         /\ \/ /\ pc' = [pc EXCEPT ![c] = "done"] /\ UNCHANGED fetch
               /\ \E o \in {"error", "cancelled"} :
                    outcome' = [outcome EXCEPT ![c] = IF outcome[c] = "none" THEN o ELSE outcome[c]]
            \/ /\ c \in Logs /\ closing = "open"
               /\ pc' = [pc EXCEPT ![c] = "queued"] /\ UNCHANGED <<fetch, outcome>>
            \/ /\ c \in Scans /\ closing \in {"open", "logs"}
               /\ pc' = [pc EXCEPT ![c] = "reading"] /\ UNCHANGED <<fetch, outcome>>
            \/ /\ c \in Events
               /\ pc' = [pc EXCEPT ![c] = "looking"] /\ UNCHANGED <<fetch, outcome>>
            \/ /\ c \in Events /\ closing \in {"open", "logs", "scans"}
               /\ pc' = [pc EXCEPT ![c] = "downloading"] /\ UNCHANGED outcome
               /\ fetch' = [fetch EXCEPT ![c] = "queued"]
<1>1. CASE c \in Logs /\ BeginLog(c)
  BY <1>1 DEF BeginLog, Answer, downVars
<1>2. CASE c \in Scans /\ BeginScan(c)
  BY <1>2 DEF BeginScan, Answer, downVars
<1>3. CASE c \in Events /\ BeginEvents(c)
  BY <1>3 DEF BeginEvents, Answer, StartsDownload, downVars
<1>4. QED
  BY <1>1, <1>2, <1>3 DEF Begins

\* A worker that has staged nothing stays where it holds the lock, or ends and
\* lets it go; nothing of a log is written.
LEMMA WorkerMoves ==
  ASSUME TypeOK, NEW c \in Calls, Works(c)
  PROVE  /\ pc[c] \in Working \ Publishing
         /\ UNCHANGED <<closing, awaited, logVars, callVars, dlock, dending, dstaging, saved>>
         /\ \/ /\ \E to \in Inside \ ({"resolving"} \cup Publishing) :
                    /\ pc' = [pc EXCEPT ![c] = to]
                    /\ to \in {"receiving", "received"} => c \in Logs
               /\ pc[c] # "queued" /\ UNCHANGED <<lock, dforgotten>>
            \/ /\ pc' = [pc EXCEPT ![c] = "ended"] /\ lock' = Unlocked(c)
               /\ dforgotten' = dforgotten \/ (~PatientWaits /\ dforgotten' = dforgotten \cup {c})
         /\ \/ UNCHANGED fetch
            \/ /\ pc[c] \in {"resolving", "looking"} /\ closing \notin {"store", "exited"}
               /\ pc' = [pc EXCEPT ![c] = "downloading"] /\ fetch' = [fetch EXCEPT ![c] = "queued"]
         /\ \/ UNCHANGED ending
            \/ \E how \in {"none", "answered", "error", "cancelled"} :
                 ending' = [ending EXCEPT ![c] = how]
         /\ UNCHANGED stop \/ stop' = [stop EXCEPT ![c] = FALSE]
         /\ UNCHANGED dstop \/ CancelsDownloads({c} \cap Downloads)
<1> USE DEF Ends, Goes, Working, Inside, Publishing, runVars, downVars
<1>1. CASE LookedUp(c)
  <2>1. pc[c] = "looking" => c \in Events
    BY DEF TypeOK
  <2>2. QED
    BY <1>1, <2>1 DEF LookedUp, StartsDownload
<1>2. CASE Read(c)
  BY <1>2 DEF Read
<1>3. CASE Received(c)
  BY <1>3 DEF Received, TypeOK
<1>4. CASE ReceiveStops(c)
  <2>1. /\ pc[c] = "receiving" /\ pc' = [pc EXCEPT ![c] = "unwinding"]
        /\ stop' = [stop EXCEPT ![c] = FALSE]
        /\ ending' = [ending EXCEPT ![c] = "cancelled"]
        /\ UNCHANGED <<closing, awaited, lock, downVars, logVars, callVars>>
    BY <1>4 DEF ReceiveStops
  <2>2. \E to \in Inside \ ({"resolving"} \cup Publishing) :
          pc' = [pc EXCEPT ![c] = to] /\ (to \in {"receiving", "received"} => c \in Logs)
    <3>1. "unwinding" \in Inside \ ({"resolving"} \cup Publishing)
      OBVIOUS
    <3>2. QED
      BY <2>1, <3>1
  <2>3. QED
    BY <2>1, <2>2
<1>5. CASE Unwound(c)
  BY <1>5 DEF Unwound, TypeOK
<1>6. CASE Stops(c)
  BY <1>6 DEF Stops
<1>7. CASE DownloadDelivered(c)
  BY <1>7 DEF DownloadDelivered, TypeOK
<1>8. CASE DownloadStopped(c)
  <2>1. /\ pc[c] = "downloading" /\ pc' = [pc EXCEPT ![c] = "draining"]
        /\ stop' = stop \/ stop' = [stop EXCEPT ![c] = FALSE]
        /\ \E how \in {"error", "cancelled"} : ending' = [ending EXCEPT ![c] = how]
        /\ CancelsDownloads({c} \cap Downloads)
        /\ UNCHANGED <<closing, awaited, lock, dlock, fetch, dending, dstaging, saved, dforgotten,
                       logVars, callVars>>
    BY <1>8 DEF DownloadStopped
  <2>2. \E to \in Inside \ ({"resolving"} \cup Publishing) :
          pc' = [pc EXCEPT ![c] = to] /\ (to \in {"receiving", "received"} => c \in Logs)
    <3>1. "draining" \in Inside \ ({"resolving"} \cup Publishing)
      OBVIOUS
    <3>2. QED
      BY <2>1, <3>1
  <2>3. QED
    BY <2>1, <2>2
<1>9. CASE Drained(c)
  BY <1>9 DEF Drained, TypeOK
<1>10. QED
  BY <1>1, <1>2, <1>3, <1>4, <1>5, <1>6, <1>7, <1>8, <1>9 DEF Works

\* What the finally of _publish can remove is all there is.
LEMMA GivingUp ==
  ASSUME TypeOK, NEW c \in Calls, GivesUp(c)
  PROVE  /\ c \in Logs /\ pc[c] \in Publishing
         /\ files' = [files EXCEPT ![c] = {}]
         /\ staging' = staging \ {c}
         /\ pc' = [pc EXCEPT ![c] = "ended"]
         /\ \E how \in {"error", "cancelled"} : ending' = [ending EXCEPT ![c] = how]
         /\ stop' = [stop EXCEPT ![c] = FALSE]
         /\ lock' = Unlocked(c)
         /\ UNCHANGED <<closing, awaited, downVars, final, callVars>>
<1>1. pc[c] \in Publishing /\ \E how \in {"error", "cancelled"} : Abandons(c, how)
  BY DEF GivesUp, PublishFails, PublishStops
<1>2. c \in Logs
  BY <1>1 DEF TypeOK
<1>3. Leftover(c) = {}
  BY <1>2 DEF TypeOK, Leftover
<1>4. QED
  BY <1>1, <1>2, <1>3 DEF Abandons, Ends

LEMMA DownloadMoving ==
  ASSUME NEW c \in Calls, DownloadMoves(c)
  PROVE  /\ fetch[c] \in Downloading
         /\ UNCHANGED <<closing, awaited, lock, runVars, dstop, dforgotten, logVars, callVars>>
         /\ \/ /\ fetch' = [fetch EXCEPT ![c] = "inside"]
               /\ dlock' = c /\ dstaging' = dstaging \cup {c} /\ UNCHANGED <<dending, saved>>
            \/ /\ fetch' = [fetch EXCEPT ![c] = "over"]
               /\ dlock' \in {dlock, NoCall} /\ dstaging' = dstaging \ {c}
               /\ \E how \in {"saved", "error", "cancelled"} : dending' = [dending EXCEPT ![c] = how]
               /\ saved' \in {saved, saved \cup {c}}
  BY DEF DownloadMoves, DownloadLocked, DownloadEnds, DownloadOver, Downloading

LEMMA Returning ==
  ASSUME NEW c \in Calls, CallerReturns(c)
  PROVE  /\ pc[c] = "ended"
         /\ pc' = [pc EXCEPT ![c] = "done"]
         /\ \E o \in {"answered", "error", "timeout", "cancelled"} :
              /\ outcome' = [outcome EXCEPT ![c] = IF outcome[c] = "none" THEN o ELSE outcome[c]]
              /\ o = "error" => ending[c] = "error"
         /\ ending' = [ending EXCEPT ![c] = "none"]
         /\ expired' = [expired EXCEPT ![c] = FALSE]
         /\ gaveUp' = [gaveUp EXCEPT ![c] = FALSE]
         /\ UNCHANGED <<closing, awaited, lock, stop, downVars, logVars, forgotten>>
<1>1. /\ pc[c] = "ended"
      /\ \E o \in {"answered", "error", "timeout", "cancelled"} :
           Answer(c, o) /\ (o = "error" => ending[c] = "error")
  BY DEF CallerReturns
<1>2. QED
  BY <1>1 DEF CallerReturns, Answer

LEMMA Signalling ==
  ASSUME NEW c \in Calls, Signals(c)
  PROVE  /\ UNCHANGED <<closing, awaited, lock, pc, ending, downVars, logVars, forgotten, outcome>>
         /\ StopsWorker(c)
         /\ expired' = expired \/ expired' = [expired EXCEPT ![c] = TRUE]
         /\ gaveUp' = gaveUp \/ gaveUp' = [gaveUp EXCEPT ![c] = TRUE]
  BY DEF Signals, CallerCancelled, DeadlinePasses

------------------------------------------------------------------------------
(* Each part of the invariant is preserved by every step.                    *)

\* A flag of a call takes a new value, whatever formula gives it.
LEMMA FlagType ==
  ASSUME NEW flag \in [Calls -> BOOLEAN], NEW c \in Calls, NEW value \in BOOLEAN
  PROVE  [flag EXCEPT ![c] = value] \in [Calls -> BOOLEAN]
  OBVIOUS

\* Cancelling some tasks sets flags.
LEMMA CancelTypes ==
  ASSUME TypeOK, NEW S
  PROVE  /\ Cancels(S) => stop' \in [Calls -> BOOLEAN]
         /\ CancelsDownloads(S) => dstop' \in [Calls -> BOOLEAN]
<1>1. \A c \in Calls : (stop[c] \/ c \in S) \in BOOLEAN /\ (dstop[c] \/ c \in S) \in BOOLEAN
  OBVIOUS
<1>2. Cancels(S) => stop' \in [Calls -> BOOLEAN]
  BY <1>1 DEF Cancels
<1>3. CancelsDownloads(S) => dstop' \in [Calls -> BOOLEAN]
  BY <1>1 DEF CancelsDownloads
<1>4. QED
  BY <1>2, <1>3

\* Type correctness.
LEMMA TypeKept == TypeOK /\ [Next]_vars => TypeOK'
<1> SUFFICES ASSUME TypeOK, [Next]_vars
             PROVE  TypeOK'
  OBVIOUS
<1> USE DEF Working, Inside, Publishing, Live, Downloading, runVars, downVars, logVars, callVars
<1>1. CASE Closes
  <2>1. stop' \in [Calls -> BOOLEAN] /\ dstop' \in [Calls -> BOOLEAN]
    BY <1>1, Closing, CancelTypes DEF TypeOK
  <2>2. awaited' \subseteq Calls
    BY <1>1, Closing DEF TypeOK, LogWorkers, ScanWorkers, Downloads, Calls
  <2>3. QED
    BY <1>1, <2>1, <2>2, Closing DEF TypeOK
<1>2. ASSUME NEW c \in Calls, Begins(c) PROVE TypeOK'
  <2>1. UNCHANGED <<closing, awaited, lock, stop, ending, dlock, dstop, dending, dstaging, saved,
                    dforgotten, logVars, expired, gaveUp, forgotten>>
    BY <1>2, Beginning
  <2>2. pc' \in [Calls -> Live \cup {"idle", "done"}]
    BY <1>2, Beginning DEF TypeOK
  <2>3. \A d \in Calls :
          /\ pc'[d] \in {"queued", "receiving", "received"} \cup Publishing => d \in Logs
          /\ pc'[d] = "looking" => d \in Events
    BY <1>2, Beginning DEF TypeOK
  <2>4. /\ fetch' \in [Calls -> Downloading \cup {"none", "over"}]
        /\ outcome' \in [Calls -> {"none", "answered", "error", "timeout", "cancelled"}]
    BY <1>2, Beginning DEF TypeOK
  <2>5. QED
    BY <2>1, <2>2, <2>3, <2>4 DEF TypeOK
<1>3. ASSUME NEW c \in Logs, FetchLeaves(c) PROVE TypeOK'
  BY <1>3 DEF FetchLeaves, TypeOK, Calls
<1>4. ASSUME NEW c \in Calls, LockTaken(c) PROVE TypeOK'
  BY <1>4 DEF LockTaken, Goes, TypeOK
<1>5. ASSUME NEW c \in Calls, Works(c) PROVE TypeOK'
  <2>1. UNCHANGED <<closing, awaited, logVars, callVars, dlock, dending, dstaging, saved>>
    BY <1>5, WorkerMoves
  <2>2. \/ \E to \in Inside \ Publishing :
             pc' = [pc EXCEPT ![c] = to] /\ (to \in {"receiving", "received"} => c \in Logs)
        \/ pc' = [pc EXCEPT ![c] = "ended"]
    BY <1>5, WorkerMoves
  <2>3. /\ pc' \in [Calls -> Live \cup {"idle", "done"}]
        /\ \A d \in Calls :
             /\ pc'[d] \in {"queued", "receiving", "received"} \cup Publishing => d \in Logs
             /\ pc'[d] = "looking" => d \in Events
    BY <2>2 DEF TypeOK
  <2>4. lock' \in {lock, NoCall} /\ dforgotten' \in {dforgotten, dforgotten \cup {c}}
    BY <1>5, WorkerMoves DEF Unlocked
  <2>5. /\ UNCHANGED fetch \/ fetch' = [fetch EXCEPT ![c] = "queued"]
        /\ \/ UNCHANGED ending
           \/ \E how \in {"none", "answered", "error", "cancelled"} :
                ending' = [ending EXCEPT ![c] = how]
        /\ UNCHANGED stop \/ stop' = [stop EXCEPT ![c] = FALSE]
    BY <1>5, WorkerMoves
  <2>6. /\ fetch' \in [Calls -> Downloading \cup {"none", "over"}]
        /\ ending' \in [Calls -> {"none", "answered", "error", "cancelled"}]
    BY <2>5 DEF TypeOK
  <2>7. stop' \in [Calls -> BOOLEAN]
    BY <2>5, FlagType DEF TypeOK
  <2>8. dstop' \in [Calls -> BOOLEAN]
    BY <1>5, WorkerMoves, CancelTypes DEF TypeOK
  <2>9. QED
    BY <2>1, <2>3, <2>4, <2>6, <2>7, <2>8 DEF TypeOK
<1>6. ASSUME NEW c \in Calls, DownloadMoves(c) PROVE TypeOK'
  <2>1. /\ fetch' \in [Calls -> Downloading \cup {"none", "over"}]
        /\ dending' \in [Calls -> {"none", "saved", "error", "cancelled"}]
        /\ dlock' \in Calls \cup {NoCall} /\ dstaging' \subseteq Calls /\ saved' \subseteq Calls
    BY <1>6, DownloadMoving DEF TypeOK
  <2>2. UNCHANGED <<closing, awaited, lock, runVars, dstop, dforgotten, logVars, callVars>>
    BY <1>6, DownloadMoving
  <2>3. QED
    BY <2>1, <2>2 DEF TypeOK
<1>7. ASSUME NEW c \in Calls, Staged(c) PROVE TypeOK'
  <2>1. c \in Logs
    BY <1>7 DEF Staged, TypeOK, Goes
  <2>2. QED
    BY <1>7, <2>1 DEF Staged, TypeOK, Goes, Ends, Unlocked
<1>8. ASSUME NEW c \in Calls, LogWritten(c) \/ ManifestWritten(c) PROVE TypeOK'
  <2>1. c \in Logs
    BY <1>8 DEF LogWritten, ManifestWritten, Wrote, TypeOK, Goes
  <2>2. files' \in [Logs -> SUBSET Fragments]
    BY <1>8, <2>1 DEF LogWritten, ManifestWritten, Wrote, TypeOK, Fragments
  <2>3. QED
    BY <1>8, <2>1, <2>2 DEF LogWritten, ManifestWritten, Wrote, TypeOK, Goes
<1>9. ASSUME NEW c \in Calls, GivesUp(c) PROVE TypeOK'
  <2>1. /\ files' = [files EXCEPT ![c] = {}] /\ staging' = staging \ {c}
        /\ pc' = [pc EXCEPT ![c] = "ended"] /\ stop' = [stop EXCEPT ![c] = FALSE]
        /\ lock' \in {lock, NoCall}
        /\ UNCHANGED <<closing, awaited, downVars, final, callVars>>
    BY <1>9, GivingUp DEF Unlocked
  <2>2. ending' \in [Calls -> {"none", "answered", "error", "cancelled"}]
    BY <1>9, GivingUp DEF TypeOK
  <2>3. QED
    BY <2>1, <2>2 DEF TypeOK
<1>10. ASSUME NEW c \in Calls, Published(c) PROVE TypeOK'
  BY <1>10 DEF Published, Complete, TypeOK, Ends, Unlocked
<1>11. ASSUME NEW c \in Calls, Signals(c) PROVE TypeOK'
  <2>1. (stop[c] \/ pc[c] \in Working) \in BOOLEAN
    OBVIOUS
  <2>2. stop' = [stop EXCEPT ![c] = stop[c] \/ pc[c] \in Working]
    BY <1>11, Signalling, Zenon DEF StopsWorker
  <2>3. stop' \in [Calls -> BOOLEAN]
    BY <2>1, <2>2, FlagType, Zenon DEF TypeOK
  <2>4. QED
    BY <1>11, <2>3, Signalling DEF TypeOK
<1>12. ASSUME NEW c \in Calls, CallerReturns(c) PROVE TypeOK'
  <2>1. /\ pc' = [pc EXCEPT ![c] = "done"] /\ ending' = [ending EXCEPT ![c] = "none"]
        /\ expired' = [expired EXCEPT ![c] = FALSE] /\ gaveUp' = [gaveUp EXCEPT ![c] = FALSE]
        /\ UNCHANGED <<closing, awaited, lock, stop, downVars, logVars, forgotten>>
    BY <1>12, Returning
  <2>2. outcome' \in [Calls -> {"none", "answered", "error", "timeout", "cancelled"}]
    BY <1>12, Returning DEF TypeOK
  <2>3. QED
    BY <2>1, <2>2 DEF TypeOK
<1>13. CASE UNCHANGED vars
  BY <1>13 DEF TypeOK, vars
<1>14. QED
  BY <1>1, <1>2, <1>3, <1>4, <1>5, <1>6, <1>7, <1>8, <1>9, <1>10, <1>11, <1>12, <1>13, StepCases

\* The lock of the adapter follows the worker that is past its queue.
LEMMA LockKept ==
  ASSUME TypeOK, LockInv, [Next]_vars
  PROVE  LockInv'
<1> USE DEF Working, Inside, Publishing
<1>1. ASSUME UNCHANGED <<pc, lock>> PROVE LockInv'
  BY <1>1 DEF LockInv
<1>2. ASSUME NEW c \in Calls, pc[c] \in Inside, NEW to, pc' = [pc EXCEPT ![c] = to],
             UNCHANGED lock
      PROVE  LockInv'
  BY <1>2 DEF LockInv, TypeOK
<1>3. ASSUME NEW c \in Calls, NEW to, to \notin Inside, pc' = [pc EXCEPT ![c] = to],
             lock' = lock \/ lock' = Unlocked(c)
      PROVE  LockInv'
  BY <1>3 DEF LockInv, TypeOK, Unlocked
<1>4. ASSUME NEW c \in Calls, Begins(c) PROVE LockInv'
  <2>1. UNCHANGED lock
    BY <1>4, Beginning
  <2>2. \E to \in {"done", "queued", "reading", "looking", "downloading"} :
          /\ pc' = [pc EXCEPT ![c] = to]
          /\ to \in {"reading", "looking", "downloading"} => c \in Scans \cup Events
    BY <1>4, Beginning
  <2>3. QED
    BY <2>1, <2>2, RuntimeAssumption DEF LockInv, TypeOK, Calls
<1>5. ASSUME NEW c \in Calls, LockTaken(c) PROVE LockInv'
  BY <1>5, RuntimeAssumption DEF LockInv, TypeOK, LockTaken, Goes, Calls
<1>6. ASSUME NEW c \in Calls, Works(c) PROVE LockInv'
  <2>1. \/ /\ \E to \in Inside : pc' = [pc EXCEPT ![c] = to]
           /\ pc[c] \in Working \ {"queued"} /\ UNCHANGED lock
        \/ pc' = [pc EXCEPT ![c] = "ended"] /\ lock' = Unlocked(c)
    BY <1>6, WorkerMoves
  <2>2. ASSUME c \in Events, NEW to, pc' = [pc EXCEPT ![c] = to], UNCHANGED lock
        PROVE  LockInv'
    BY <2>2, RuntimeAssumption DEF LockInv, TypeOK, Calls
  <2>3. pc[c] \in Working \ {"queued"} => pc[c] \in Inside \/ c \in Events
    BY DEF TypeOK
  <2>4. QED
    BY <1>2, <1>3, <2>1, <2>2, <2>3
<1>7. ASSUME NEW c \in Calls, DownloadMoves(c) \/ Signals(c) \/ FetchLeaves(c) PROVE LockInv'
  BY <1>1, <1>7, DownloadMoving, Signalling DEF FetchLeaves, runVars
<1>8. ASSUME NEW c \in Calls, Staged(c) \/ Published(c) PROVE LockInv'
  <2>1. \/ pc' = [pc EXCEPT ![c] = "ended"] /\ lock' = Unlocked(c)
        \/ pc[c] = "received" /\ pc' = [pc EXCEPT ![c] = "staged"] /\ UNCHANGED lock
    <3>1. CASE Published(c)
      BY <3>1 DEF Published, Ends
    <3>2. CASE Staged(c)
      BY <3>2 DEF Staged, Goes, Ends
    <3>3. QED
      BY <1>8, <3>1, <3>2
  <2>2. QED
    BY <1>2, <1>3, <2>1
<1>9. ASSUME NEW c \in Calls, LogWritten(c) \/ ManifestWritten(c) PROVE LockInv'
  BY <1>2, <1>9 DEF LogWritten, ManifestWritten, Wrote, Goes
<1>10. ASSUME NEW c \in Calls, GivesUp(c) \/ CallerReturns(c) PROVE LockInv'
  <2>1. \E to \in {"ended", "done"} : pc' = [pc EXCEPT ![c] = to] /\ lock' \in {lock, Unlocked(c)}
    BY <1>10, GivingUp, Returning
  <2>2. QED
    BY <1>3, <2>1
<1>11. CASE Closes
  BY <1>1, <1>11, Closing
<1>12. CASE UNCHANGED vars
  BY <1>1, <1>12 DEF vars, runVars
<1>13. QED
  BY <1>4, <1>5, <1>6, <1>7, <1>8, <1>9, <1>10, <1>11, <1>12, StepCases DEF Calls

\* What is written goes with the place of the worker.
LEMMA FilesKept ==
  ASSUME TypeOK, FilesInv, [Next]_vars
  PROVE  FilesInv'
<1> USE DEF Publishing, Fragments
<1>1. ASSUME UNCHANGED <<pc, ending, logVars>> PROVE FilesInv'
  BY <1>1 DEF FilesInv, logVars
<1>2. ASSUME NEW c \in Calls, c \notin final, pc[c] \notin Publishing,
             NEW to, to \notin Publishing, pc' = [pc EXCEPT ![c] = to],
             ending' = ending \/ \E how : ending' = [ending EXCEPT ![c] = how],
             UNCHANGED logVars
      PROVE  FilesInv'
  <2>1. \A d \in Logs : /\ d # c => pc'[d] = pc[d] /\ ending'[d] = ending[d]
                        /\ d = c => pc'[d] = to
    BY <1>2 DEF TypeOK, Calls
  <2>2. QED
    BY <1>2, <2>1 DEF FilesInv, logVars
<1>3. ASSUME NEW c \in Calls, pc[c] \in Working \ Publishing \/ pc[c] = "idle" PROVE c \notin final
  BY <1>3 DEF FilesInv, TypeOK, Working, Inside
<1>4. ASSUME NEW c \in Calls, Begins(c) PROVE FilesInv'
  <2>1. /\ pc[c] = "idle" /\ UNCHANGED <<ending, logVars>>
        /\ \E to \in {"done", "queued", "reading", "looking", "downloading"} :
             pc' = [pc EXCEPT ![c] = to]
    BY <1>4, Beginning
  <2>2. QED
    BY <1>2, <1>3, <2>1
<1>5. ASSUME NEW c \in Calls, LockTaken(c) PROVE FilesInv'
  BY <1>2, <1>3, <1>5 DEF LockTaken, Goes, Working
<1>6. ASSUME NEW c \in Calls, Works(c) PROVE FilesInv'
  <2>1. /\ pc[c] \in Working \ Publishing /\ UNCHANGED logVars
        /\ \E to \in (Inside \cup {"ended"}) \ Publishing : pc' = [pc EXCEPT ![c] = to]
        /\ ending' = ending \/ \E how : ending' = [ending EXCEPT ![c] = how]
    BY <1>6, WorkerMoves
  <2>2. QED
    BY <1>2, <1>3, <2>1
<1>7. ASSUME NEW c \in Calls, DownloadMoves(c) \/ Signals(c) \/ FetchLeaves(c) PROVE FilesInv'
  BY <1>1, <1>7, DownloadMoving, Signalling DEF FetchLeaves, runVars
<1>8. ASSUME NEW c \in Calls, Staged(c) PROVE FilesInv'
  <2>1. pc[c] = "received" /\ c \notin final /\ c \in Logs
    BY <1>3, <1>8 DEF Staged, Goes, Working, Inside, TypeOK
  <2>2. CASE pc' = [pc EXCEPT ![c] = "staged"] /\ staging' = staging \cup {c}
             /\ UNCHANGED <<ending, final, files>>
    BY <2>1, <2>2 DEF FilesInv, TypeOK
  <2>3. CASE Ends(c, "error") /\ UNCHANGED logVars
    BY <1>2, <2>1, <2>3 DEF Ends
  <2>4. QED
    BY <1>8, <2>2, <2>3 DEF Staged, Goes
<1>9. ASSUME NEW c \in Calls, LogWritten(c) \/ ManifestWritten(c) PROVE FilesInv'
  <2>1. c \in Logs /\ c \notin final
    BY <1>9 DEF LogWritten, ManifestWritten, Wrote, Goes, FilesInv, TypeOK
  <2>2. ASSUME NEW from \in Publishing, NEW to \in Publishing, NEW file, Wrote(c, from, file, to)
        PROVE  /\ pc[c] = from /\ UNCHANGED <<ending, staging, final>>
               /\ \A d \in Logs : d # c => pc'[d] = pc[d] /\ files'[d] = files[d]
               /\ pc'[c] = to /\ files'[c] = files[c] \cup {file}
    BY <2>1, <2>2 DEF Wrote, Goes, TypeOK
  <2>3. CASE LogWritten(c)
    BY <2>1, <2>2, <2>3 DEF LogWritten, FilesInv
  <2>4. CASE ManifestWritten(c)
    BY <2>1, <2>2, <2>4 DEF ManifestWritten, FilesInv
  <2>5. QED
    BY <1>9, <2>3, <2>4
<1>10. ASSUME NEW c \in Calls, GivesUp(c) PROVE FilesInv'
  <2>1. /\ c \in Logs /\ pc[c] \in Publishing
        /\ files' = [files EXCEPT ![c] = {}] /\ staging' = staging \ {c}
        /\ pc' = [pc EXCEPT ![c] = "ended"] /\ UNCHANGED final
        /\ \E how : ending' = [ending EXCEPT ![c] = how]
    BY <1>10, GivingUp
  <2>2. QED
    BY <2>1 DEF FilesInv, TypeOK
<1>11. ASSUME NEW c \in Calls, Published(c) PROVE FilesInv'
  <2>1. /\ pc[c] = "verified" /\ pc' = [pc EXCEPT ![c] = "ended"]
        /\ ending' = [ending EXCEPT ![c] = "answered"]
        /\ staging' = staging \ {c} /\ final' = final \cup {c} /\ UNCHANGED files
    BY <1>11 DEF Published, Complete, Ends
  <2>2. QED
    BY <2>1 DEF FilesInv, TypeOK
<1>12. ASSUME NEW c \in Calls, CallerReturns(c) PROVE FilesInv'
  <2>1. /\ pc[c] = "ended" /\ pc' = [pc EXCEPT ![c] = "done"]
        /\ ending' = [ending EXCEPT ![c] = "none"] /\ UNCHANGED logVars
    BY <1>12, Returning
  <2>2. QED
    BY <2>1 DEF FilesInv, TypeOK, logVars
<1>13. CASE Closes
  BY <1>1, <1>13, Closing
<1>14. CASE UNCHANGED vars
  BY <1>1, <1>14 DEF vars, runVars
<1>15. QED
  BY <1>4, <1>5, <1>6, <1>7, <1>8, <1>9, <1>10, <1>11, <1>12, <1>13, <1>14, StepCases DEF Calls

\* What callers are told.
LEMMA OutcomeKept ==
  ASSUME TypeOK, FilesInv, OutcomeInv, [Next]_vars
  PROVE  OutcomeInv'
<1> USE DEF Publishing
<1>1. ASSUME UNCHANGED <<outcome, forgotten, dforgotten>>, final' \subseteq final,
             \A c \in Calls : pc[c] = "done" => pc'[c] = "done"
      PROVE  OutcomeInv'
  BY <1>1 DEF OutcomeInv, Calls
<1>2. ASSUME UNCHANGED <<outcome, forgotten, dforgotten, final>>, NEW c \in Calls,
             pc[c] # "done", NEW to, pc' = [pc EXCEPT ![c] = to]
      PROVE  OutcomeInv'
  BY <1>1, <1>2 DEF TypeOK
<1>3. ASSUME UNCHANGED <<forgotten, dforgotten, final>>, NEW c \in Calls, c \notin final, NEW o,
             outcome' = [outcome EXCEPT ![c] = IF outcome[c] = "none" THEN o ELSE outcome[c]],
             pc' = [pc EXCEPT ![c] = "done"]
      PROVE  OutcomeInv'
  BY <1>3 DEF OutcomeInv, TypeOK, Calls
<1>4. ASSUME NEW c \in Calls, Begins(c) PROVE OutcomeInv'
  <2>1. pc[c] = "idle" /\ c \notin final /\ UNCHANGED <<forgotten, dforgotten, logVars>>
    BY <1>4, Beginning DEF FilesInv, TypeOK
  <2>2. \/ UNCHANGED outcome /\ \E to : pc' = [pc EXCEPT ![c] = to]
        \/ /\ pc' = [pc EXCEPT ![c] = "done"]
           /\ \E o : outcome' = [outcome EXCEPT ![c] = IF outcome[c] = "none" THEN o ELSE outcome[c]]
    BY <1>4, Beginning
  <2>3. QED
    BY <1>2, <1>3, <2>1, <2>2 DEF logVars
<1>5. ASSUME NEW c \in Calls, LockTaken(c) \/ LogWritten(c) \/ ManifestWritten(c) PROVE OutcomeInv'
  BY <1>2, <1>5 DEF LockTaken, LogWritten, ManifestWritten, Wrote, Goes, logVars, callVars, downVars
<1>6. ASSUME NEW c \in Calls, Works(c) PROVE OutcomeInv'
  <2>1. /\ pc[c] # "done" /\ UNCHANGED <<logVars, callVars>>
        /\ \E to : pc' = [pc EXCEPT ![c] = to]
        /\ dforgotten' = dforgotten \/ (~PatientWaits /\ dforgotten' = dforgotten \cup {c})
    BY <1>6, WorkerMoves DEF Working, Inside
  <2>2. CASE dforgotten' = dforgotten
    BY <1>2, <2>1, <2>2 DEF logVars, callVars
  <2>3. CASE ~PatientWaits
    <3>1. \A d \in Calls : pc[d] = "done" => pc'[d] = "done"
      BY <2>1 DEF TypeOK
    <3>2. QED
      BY <2>1, <2>3, <3>1 DEF OutcomeInv, logVars, callVars, Calls
  <2>4. QED
    BY <2>1, <2>2, <2>3
<1>7. ASSUME NEW c \in Calls, DownloadMoves(c) \/ Signals(c) PROVE OutcomeInv'
  BY <1>1, <1>7, DownloadMoving, Signalling DEF runVars, downVars, logVars, callVars
<1>8. ASSUME NEW c \in Calls, Staged(c) PROVE OutcomeInv'
  <2>1. pc[c] = "received" /\ UNCHANGED <<downVars, final, callVars>>
    BY <1>8 DEF Staged, Goes, logVars
  <2>2. \E to : pc' = [pc EXCEPT ![c] = to]
    BY <1>8 DEF Staged, Goes, Ends
  <2>3. QED
    BY <1>2, <2>1, <2>2 DEF downVars, callVars
<1>9. ASSUME NEW c \in Calls, GivesUp(c) PROVE OutcomeInv'
  BY <1>2, <1>9, GivingUp DEF downVars, callVars
<1>10. ASSUME NEW c \in Calls, Published(c) PROVE OutcomeInv'
  <2>1. /\ pc[c] = "verified" /\ pc' = [pc EXCEPT ![c] = "ended"] /\ final' = final \cup {c}
        /\ UNCHANGED <<downVars, callVars>>
    BY <1>10 DEF Published, Complete, Ends
  <2>2. outcome[c] # "error"
    BY <2>1 DEF OutcomeInv, TypeOK
  <2>3. QED
    BY <2>1, <2>2 DEF OutcomeInv, TypeOK, downVars, callVars, Calls
<1>11. ASSUME NEW c \in Calls, CallerReturns(c) PROVE OutcomeInv'
  <2>1. /\ pc[c] = "ended" /\ pc' = [pc EXCEPT ![c] = "done"]
        /\ UNCHANGED <<downVars, logVars, forgotten>>
    BY <1>11, Returning
  <2>2. PICK o : /\ outcome' = [outcome EXCEPT ![c] = IF outcome[c] = "none" THEN o ELSE outcome[c]]
                 /\ o = "error" => ending[c] = "error"
    BY <1>11, Returning
  <2>3. c \in final => o # "error" /\ outcome[c] # "error"
    BY <2>1, <2>2 DEF FilesInv, OutcomeInv, TypeOK
  <2>4. outcome'[c] = "error" => c \notin final
    BY <2>2, <2>3 DEF TypeOK
  <2>5. \A d \in Calls : d # c => pc'[d] = pc[d] /\ outcome'[d] = outcome[d]
    BY <2>1, <2>2 DEF TypeOK
  <2>6. pc'[c] = "done"
    BY <2>1 DEF TypeOK
  <2>7. QED
    BY <2>1, <2>4, <2>5, <2>6 DEF OutcomeInv, downVars, logVars, Calls
<1>12. ASSUME NEW c \in Logs, FetchLeaves(c) PROVE OutcomeInv'
  BY <1>12 DEF FetchLeaves, OutcomeInv, TypeOK, runVars, downVars, logVars, Calls
<1>13. CASE Closes
  BY <1>1, <1>13, Closing DEF logVars, callVars
<1>14. CASE UNCHANGED vars
  BY <1>1, <1>14 DEF vars, runVars, downVars, logVars, callVars
<1>15. QED
  BY <1>4, <1>5, <1>6, <1>7, <1>8, <1>9, <1>10, <1>11, <1>12, <1>13, <1>14, StepCases

\* Downloads start once.
LEMMA DownKept ==
  ASSUME TypeOK, DownInv, [Next]_vars
  PROVE  DownInv'
<1> USE DEF Working, Inside, Publishing
<1>1. ASSUME UNCHANGED <<fetch, dstaging>>,
             \A c \in Calls : pc'[c] \in {"idle", "queued", "resolving", "looking"} =>
                                pc[c] \in {"idle", "queued", "resolving", "looking"}
      PROVE  DownInv'
  BY <1>1 DEF DownInv
<1>2. ASSUME UNCHANGED <<fetch, dstaging>>, NEW c \in Calls, NEW to, pc' = [pc EXCEPT ![c] = to],
             \/ to \notin {"idle", "queued", "resolving", "looking"}
             \/ pc[c] \in {"idle", "queued", "resolving", "looking"}
      PROVE  DownInv'
  BY <1>1, <1>2 DEF TypeOK
<1>3. ASSUME UNCHANGED dstaging, NEW c \in Calls, pc' = [pc EXCEPT ![c] = "downloading"],
             fetch' = [fetch EXCEPT ![c] = "queued"], pc[c] \in {"idle", "resolving", "looking"}
      PROVE  DownInv'
  BY <1>3 DEF DownInv, TypeOK
<1>4. ASSUME NEW c \in Calls, Begins(c) PROVE DownInv'
  <2>1. pc[c] = "idle" /\ UNCHANGED dstaging
    BY <1>4, Beginning
  <2>2. \/ UNCHANGED fetch /\ \E to : pc' = [pc EXCEPT ![c] = to]
        \/ pc' = [pc EXCEPT ![c] = "downloading"] /\ fetch' = [fetch EXCEPT ![c] = "queued"]
    BY <1>4, Beginning
  <2>3. QED
    BY <1>2, <1>3, <2>1, <2>2
<1>5. ASSUME NEW c \in Calls, LockTaken(c) \/ LogWritten(c) \/ ManifestWritten(c) PROVE DownInv'
  BY <1>2, <1>5 DEF LockTaken, LogWritten, ManifestWritten, Wrote, Goes, downVars
<1>6. ASSUME NEW c \in Calls, Works(c) PROVE DownInv'
  <2>1. UNCHANGED dstaging
    BY <1>6, WorkerMoves
  <2>2. \/ UNCHANGED fetch
        \/ /\ pc[c] \in {"resolving", "looking"} /\ pc' = [pc EXCEPT ![c] = "downloading"]
           /\ fetch' = [fetch EXCEPT ![c] = "queued"]
    BY <1>6, WorkerMoves
  <2>3. \E to \in (Inside \cup {"ended"}) \ {"resolving"} : pc' = [pc EXCEPT ![c] = to]
    BY <1>6, WorkerMoves
  <2>4. QED
    BY <1>2, <1>3, <2>1, <2>2, <2>3
<1>7. ASSUME NEW c \in Calls, DownloadMoves(c) PROVE DownInv'
  <2>1. /\ fetch[c] \in Downloading /\ UNCHANGED pc
        /\ \/ fetch' = [fetch EXCEPT ![c] = "inside"] /\ dstaging' = dstaging \cup {c}
           \/ fetch' = [fetch EXCEPT ![c] = "over"] /\ dstaging' = dstaging \ {c}
    BY <1>7, DownloadMoving DEF runVars
  <2>2. QED
    BY <2>1 DEF DownInv, TypeOK, Downloading
<1>8. ASSUME NEW c \in Calls, Staged(c) \/ Published(c) \/ GivesUp(c) \/ CallerReturns(c)
      PROVE  DownInv'
  <2>1. UNCHANGED downVars
    BY <1>8, GivingUp, Returning DEF Staged, Published
  <2>2. \E to \in {"staged", "ended", "done"} : pc' = [pc EXCEPT ![c] = to]
    BY <1>8, GivingUp, Returning DEF Staged, Published, Goes, Ends
  <2>3. QED
    BY <1>2, <2>1, <2>2 DEF downVars
<1>9. ASSUME NEW c \in Calls, Signals(c) \/ FetchLeaves(c) PROVE DownInv'
  BY <1>1, <1>9, Signalling DEF FetchLeaves, runVars, downVars
<1>10. CASE Closes
  BY <1>1, <1>10, Closing
<1>11. CASE UNCHANGED vars
  BY <1>1, <1>11 DEF vars, runVars, downVars
<1>12. QED
  BY <1>4, <1>5, <1>6, <1>7, <1>8, <1>9, <1>10, <1>11, StepCases DEF Calls

\* From the close() of its adapter on there is no new worker and no new
\* download: the tasks that are joined only become fewer.
LEMMA NoneJoin ==
  ASSUME TypeOK, [Next]_vars
  PROVE  /\ closing # "open" => LogWorkers' \subseteq LogWorkers
         /\ closing \notin {"open", "logs"} => ScanWorkers' \subseteq ScanWorkers
         /\ closing \in {"store", "exited"} => Downloads' \subseteq Downloads
<1> DEFINE Goal == /\ closing # "open" => LogWorkers' \subseteq LogWorkers
                   /\ closing \notin {"open", "logs"} => ScanWorkers' \subseteq ScanWorkers
                   /\ closing \in {"store", "exited"} => Downloads' \subseteq Downloads
<1> USE DEF Working, Inside, Publishing
<1>1. ASSUME forgotten \subseteq forgotten', dforgotten \subseteq dforgotten',
             closing \in {"store", "exited"} =>
               \A c \in Calls : fetch'[c] \in Downloading => fetch[c] \in Downloading,
             \A c \in Logs : pc'[c] \in Working => pc[c] \in Working \/ closing = "open",
             \A c \in Scans : pc'[c] \in Working => pc[c] \in Working \/ closing \in {"open", "logs"}
      PROVE  Goal
  BY <1>1 DEF LogWorkers, ScanWorkers, Downloads
<1> HIDE DEF Goal
<1>2. ASSUME UNCHANGED <<fetch, forgotten>>, dforgotten \subseteq dforgotten',
             NEW c \in Calls, NEW to, pc' = [pc EXCEPT ![c] = to],
             to \notin Working \/ pc[c] \in Working
      PROVE  Goal
  BY <1>1, <1>2 DEF TypeOK, Calls
<1>3. ASSUME UNCHANGED <<pc, fetch, dforgotten>>, forgotten \subseteq forgotten' PROVE Goal
  BY <1>1, <1>3
<1>4. ASSUME NEW c \in Calls, Begins(c) PROVE Goal
  <2>1. UNCHANGED <<forgotten, dforgotten>>
    BY <1>4, Beginning
  <2>2. \/ UNCHANGED fetch /\ pc' = [pc EXCEPT ![c] = "done"]
        \/ UNCHANGED fetch /\ c \in Logs /\ closing = "open" /\ pc' = [pc EXCEPT ![c] = "queued"]
        \/ /\ UNCHANGED fetch /\ c \in Scans /\ closing \in {"open", "logs"}
           /\ pc' = [pc EXCEPT ![c] = "reading"]
        \/ UNCHANGED fetch /\ c \in Events /\ pc' = [pc EXCEPT ![c] = "looking"]
        \/ /\ c \in Events /\ closing \in {"open", "logs", "scans"}
           /\ pc' = [pc EXCEPT ![c] = "downloading"]
    BY <1>4, Beginning
  <2>3. \A d \in Calls : d # c => pc'[d] = pc[d]
    BY <2>2 DEF TypeOK
  <2>4. pc'[c] \in Working => \/ c \in Logs /\ closing = "open"
                              \/ c \in Scans /\ closing \in {"open", "logs"}
                              \/ c \in Events
    BY <2>2 DEF TypeOK
  <2>5. closing \in {"store", "exited"} => UNCHANGED fetch
    BY <2>2
  <2>6. QED
    BY <1>1, <2>1, <2>3, <2>4, <2>5, RuntimeAssumption DEF Calls
<1>5. ASSUME NEW c \in Calls, LockTaken(c) \/ LogWritten(c) \/ ManifestWritten(c) PROVE Goal
  BY <1>2, <1>5 DEF LockTaken, LogWritten, ManifestWritten, Wrote, Goes, downVars, callVars
<1>6. ASSUME NEW c \in Calls, Works(c) PROVE Goal
  <2>1. pc[c] \in Working /\ UNCHANGED callVars /\ dforgotten \subseteq dforgotten'
    BY <1>6, WorkerMoves
  <2>2. \/ UNCHANGED fetch
        \/ closing \notin {"store", "exited"}
    BY <1>6, WorkerMoves
  <2>3. \E to : pc' = [pc EXCEPT ![c] = to]
    BY <1>6, WorkerMoves
  <2>4. \A d \in Calls : pc'[d] \in Working => pc[d] \in Working
    BY <2>1, <2>3 DEF TypeOK
  <2>5. QED
    BY <1>1, <2>1, <2>2, <2>4 DEF callVars, Calls
<1>7. ASSUME NEW c \in Calls, DownloadMoves(c) PROVE Goal
  <2>1. /\ fetch[c] \in Downloading /\ UNCHANGED <<pc, forgotten, dforgotten>>
        /\ \E to : fetch' = [fetch EXCEPT ![c] = to]
    BY <1>7, DownloadMoving DEF runVars, callVars
  <2>2. \A d \in Calls : fetch'[d] \in Downloading => fetch[d] \in Downloading
    BY <2>1 DEF TypeOK
  <2>3. QED
    BY <1>1, <2>1, <2>2
<1>8. ASSUME NEW c \in Calls, Staged(c) \/ Published(c) \/ GivesUp(c) \/ CallerReturns(c)
      PROVE  Goal
  <2>1. UNCHANGED <<downVars, forgotten>>
    BY <1>8, GivingUp, Returning DEF Staged, Published, callVars
  <2>2. \/ \E to \in {"ended", "done"} : pc' = [pc EXCEPT ![c] = to]
        \/ pc[c] = "received" /\ \E to : pc' = [pc EXCEPT ![c] = to]
    BY <1>8, GivingUp, Returning DEF Staged, Published, Goes, Ends
  <2>3. QED
    BY <1>2, <2>1, <2>2 DEF downVars
<1>9. ASSUME NEW c \in Calls, Signals(c) \/ FetchLeaves(c) PROVE Goal
  BY <1>3, <1>9, Signalling DEF FetchLeaves, runVars, downVars
<1>10. ASSUME Closes PROVE Goal
  BY <1>3, <1>10, Closing DEF callVars
<1>11. ASSUME UNCHANGED vars PROVE Goal
  BY <1>3, <1>11 DEF vars, runVars, downVars, callVars
<1>12. Goal
  BY <1>4, <1>5, <1>6, <1>7, <1>8, <1>9, <1>10, <1>11, StepCases DEF Calls
<1>13. QED
  BY <1>12 DEF Goal

\* close() goes on when what it joins has ended.
LEMMA CloseKept ==
  ASSUME TypeOK, CloseInv, [Next]_vars
  PROVE  CloseInv'
<1>1. CASE ~Closes
  <2>1. UNCHANGED <<closing, awaited>>
    BY <1>1, StepCases, Beginning, WorkerMoves, DownloadMoving, GivingUp, Returning, Signalling
       DEF LockTaken, Staged, LogWritten, ManifestWritten, Wrote, Published, FetchLeaves, vars
  <2>2. QED
    BY <2>1, NoneJoin DEF CloseInv
<1>2. CASE Closes
  <2>1. LogWorkers' = LogWorkers /\ ScanWorkers' = ScanWorkers /\ Downloads' = Downloads
    BY <1>2, Closing DEF LogWorkers, ScanWorkers, Downloads, callVars
  <2>2. /\ closing = "logs" /\ Joined = {} => LogWorkers = {}
        /\ closing = "scans" /\ Joined = {} => ScanWorkers = {}
        /\ closing = "store" /\ Joined = {} => Downloads = {}
    BY DEF CloseInv, Joined, LogWorkers, ScanWorkers, Downloads
  <2>3. \/ UNCHANGED <<closing, awaited>>
        \/ closing = "open" /\ closing' = "logs" /\ awaited' = LogWorkers
        \/ closing = "logs" /\ Joined = {} /\ closing' = "scans" /\ awaited' = ScanWorkers
        \/ closing = "scans" /\ Joined = {} /\ closing' = "store" /\ awaited' = Downloads
        \/ closing = "store" /\ Joined = {} /\ closing' = "exited" /\ UNCHANGED awaited
    BY <1>2, Closing
  <2>4. QED
    BY <2>1, <2>2, <2>3 DEF CloseInv
<1>3. QED
  BY <1>1, <1>2

------------------------------------------------------------------------------
(* The invariant, and what follows from it.                                  *)

LEMMA IInvInit == Init => IInv
  BY RuntimeAssumption DEF Init, IInv, TypeOK, LockInv, FilesInv, OutcomeInv, DownInv, CloseInv,
     Live, Working, Inside, Publishing, Downloading, LogWorkers, ScanWorkers, Downloads, Calls

LEMMA IInvStep == IInv /\ [Next]_vars => IInv'
  BY TypeKept, LockKept, FilesKept, OutcomeKept, DownKept, CloseKept DEF IInv

LEMMA Invariance == Spec => []IInv
  BY IInvInit, IInvStep, PTL DEF Spec

\* Every variable keeps its type, for any number of calls.
THEOREM TypeCorrect == Spec => []TypeOK
<1>1. IInv => TypeOK
  BY DEF IInv
<1>2. QED
  BY <1>1, Invariance, PTL

\* With a wait_for that waits: when SparkRuntime.close has let the directory
\* lock go, no task that its adapters own reads, downloads or stages.  What a
\* caller of fetch_spark_event_log looks up in its own task is not among them.
THEOREM NoneOutlivesLock == PatientWaits => (Spec => []OwnedUntilRelease)
<1> SUFFICES ASSUME PatientWaits PROVE Spec => []OwnedUntilRelease
  OBVIOUS
<1>1. IInv => OwnedUntilRelease
  <2> SUFFICES ASSUME IInv, closing = "exited"
               PROVE  /\ \A c \in Logs \cup Scans : pc[c] \notin Working
                      /\ \A c \in Calls : fetch[c] \notin Downloading
                      /\ staging = {} /\ dstaging = {}
    BY DEF OwnedUntilRelease
  <2>1. LogWorkers = {} /\ ScanWorkers = {} /\ Downloads = {} /\ forgotten = {} /\ dforgotten = {}
    BY DEF IInv, CloseInv, OutcomeInv
  <2>2. \A c \in Logs \cup Scans : pc[c] \notin Working
    BY <2>1 DEF LogWorkers, ScanWorkers
  <2>3. \A c \in Calls : fetch[c] \notin Downloading
    BY <2>1 DEF Downloads
  <2>4. staging = {}
    BY <2>2 DEF IInv, TypeOK, FilesInv, Working, Inside
  <2>5. dstaging = {}
    BY <2>3 DEF IInv, TypeOK, DownInv, Downloading
  <2>6. QED
    BY <2>2, <2>3, <2>4, <2>5
<1>2. QED
  BY <1>1, Invariance, PTL

\* Whatever wait_for does: a log that has its final name is whole, a call that
\* reports an error leaves nothing, and what is staged has its worker.
THEOREM WholeOrNothing == Spec => []PublishedWhole
<1>1. IInv => PublishedWhole
  <2> SUFFICES ASSUME IInv PROVE PublishedWhole
    OBVIOUS
  <2>1. \A c \in final : files[c] = Fragments
    BY DEF IInv, TypeOK, FilesInv
  <2>2. \A c \in Logs : outcome[c] = "error" => c \notin final \cup staging
    BY DEF IInv, FilesInv, OutcomeInv, Publishing
  <2>3. \A c \in staging : /\ pc[c] \in Publishing /\ lock = c /\ c \notin final
                           /\ outcome[c] = "none" \/ c \in forgotten
    BY DEF IInv, TypeOK, LockInv, FilesInv, OutcomeInv, Inside, Publishing, Calls
  <2>4. QED
    BY <2>1, <2>2, <2>3 DEF PublishedWhole
<1>2. QED
  BY <1>1, Invariance, PTL
=============================================================================
