------------------------- MODULE SparkEventLogStore -------------------------
(***************************************************************************)
(* The Spark event-log evidence store: SparkEventLogAdapter and             *)
(* SparkEventLogService.fetch over a cache directory that outlives the      *)
(* process.  A process owns the directory through an exclusive flock; one   *)
(* download at a time fills a private ".part-" directory and renames it to  *)
(* its final name, which no other download ever uses, so a snapshot is      *)
(* named after the fetch that made it.  Deadlines, callers' cancellations,  *)
(* close() and kills strike between any two awaits.                         *)
(*                                                                          *)
(* fetch, download and receive nest three wait_for with one deadline.  From *)
(* Python 3.12 on (PatientWaits) each waits for what it cancelled.  Up to   *)
(* 3.11 one that is cancelled again while it waits gives up: a caller may   *)
(* leave before its worker has ended, a worker before the request it made,  *)
(* and download, interrupted by fetch's timer right after its own, forgets  *)
(* a worker that is still running.                                          *)
(***************************************************************************)
EXTENDS Naturals, FiniteSets

CONSTANTS Fetches,      \* calls of fetch over the life of the directory
          Procs,        \* plugin processes started on it, one after another
          Keys,         \* (source, application_id, attempt_id) selections
          Nobody,
          Pieces,          \* pieces in which the files of a snapshot are hashed
          PatientWaits,    \* wait_for of Python 3.12 and later
          TicksPerSecond,  \* resolution of downloaded_at
          MaxClock,        \* bound on the wall clock
          MaxEdits         \* bound on what outsiders change of one snapshot

ASSUME StoreAssumption == /\ Nobody \notin Fetches \cup Procs
                          /\ PatientWaits \in BOOLEAN
                          /\ Pieces \in Nat /\ TicksPerSecond \in Nat \ {0}
                          /\ MaxClock \in Nat

VARIABLES
  flock,      \* the process holding root/.lock
  proc,       \* life of each process
  dlock,      \* per process: the worker inside _download_lock
  staging,    \* fetches whose ".part-" directory exists
  published,  \* fetches whose final directory exists
  stamp,      \* downloaded_at of the snapshot
  manifest,   \* "own", or what an outsider made of the snapshot's manifest
  altered,    \* the pieces of its files that an outsider has changed
  clock,      \* wall clock
  pc,         \* where each fetch is
  owner,      \* the process serving it
  want,       \* its selection
  listed,     \* the candidates whose manifests its lookup has still to read
  kept,       \* those it has read that may be reused
  chosen,     \* the one of them that it hashes
  found,      \* history: what was altered of it by then
  hashed,     \* how many of its pieces have been hashed
  stop,       \* cancel() of its worker requested, not yet delivered
  gaveUp,     \* its caller was cancelled
  expired,    \* its deadline passed
  ending,     \* how its worker ended
  outcome,    \* what its caller got
  got,        \* the snapshot the caller was given
  requests,   \* fetches whose _receive is running
  forgotten,  \* fetches whose worker left _acquisitions before it ended
  awaited     \* fetches whose worker a close() took from _acquisitions

diskVars == <<staging, published, stamp, manifest, altered, clock>>
procVars == <<flock, proc, dlock>>
lookVars == <<listed, kept, chosen, found, hashed>>
askVars == <<owner, want, lookVars>>
endVars == <<ending, outcome, got>>
runVars == <<requests, forgotten, awaited>>
vars == <<procVars, diskVars, askVars, endVars, pc, stop, gaveUp, expired, runVars>>

\* Worker phases: holding the download lock, and the whole life of the task.
Inside == {"locked", "receiving", "processing", "unwinding"}
Working == Inside \cup {"queued"}
Looking == {"verifying", "hashing"}
Live == Working \cup Looking \cup {"ended"}

TypeOK ==
  /\ flock \in Procs \cup {Nobody}
  /\ proc \in [Procs -> {"new", "up", "closing", "exited"}]
  /\ dlock \in [Procs -> Fetches \cup {Nobody}]
  /\ staging \subseteq Fetches
  /\ published \subseteq Fetches
  /\ stamp \in [Fetches -> 0..MaxClock]
  /\ manifest \in [Fetches -> {"own", "unreadable", "foreign"}]
  /\ altered \in [Fetches -> SUBSET (1..Pieces)]
  /\ clock \in 0..MaxClock
  /\ pc \in [Fetches -> Live \cup {"idle", "done", "dead"}]
  /\ owner \in [Fetches -> Procs \cup {Nobody}]
  /\ want \in [Fetches -> Keys]
  /\ listed \in [Fetches -> SUBSET Fetches]
  /\ kept \in [Fetches -> SUBSET Fetches]
  /\ chosen \in [Fetches -> Fetches \cup {Nobody}]
  /\ found \in [Fetches -> SUBSET (1..Pieces)]
  /\ hashed \in [Fetches -> 0..Pieces]
  /\ stop \in [Fetches -> BOOLEAN]
  /\ gaveUp \in [Fetches -> BOOLEAN]
  /\ expired \in [Fetches -> BOOLEAN]
  /\ ending \in [Fetches -> {"none", "published", "failed", "cancelled"}]
  /\ outcome \in [Fetches -> {"none", "hit", "downloaded", "timeout", "error", "cancelled"}]
  /\ got \in [Fetches -> Fetches \cup {Nobody}]
  /\ requests \subseteq Fetches
  /\ forgotten \subseteq Fetches
  /\ awaited \subseteq Fetches

Init ==
  /\ flock = Nobody
  /\ proc = [p \in Procs |-> "new"]
  /\ dlock = [p \in Procs |-> Nobody]
  /\ staging = {} /\ published = {}
  /\ stamp = [f \in Fetches |-> 0]
  /\ manifest = [f \in Fetches |-> "own"]
  /\ altered = [f \in Fetches |-> {}]
  /\ clock = 0
  /\ pc = [f \in Fetches |-> "idle"]
  /\ owner = [f \in Fetches |-> Nobody]
  /\ want \in [Fetches -> Keys]
  /\ listed = [f \in Fetches |-> {}] /\ kept = [f \in Fetches |-> {}]
  /\ chosen = [f \in Fetches |-> Nobody]
  /\ found = [f \in Fetches |-> {}] /\ hashed = [f \in Fetches |-> 0]
  /\ stop = [f \in Fetches |-> FALSE]
  /\ gaveUp = [f \in Fetches |-> FALSE]
  /\ expired = [f \in Fetches |-> FALSE]
  /\ ending = [f \in Fetches |-> "none"]
  /\ outcome = [f \in Fetches |-> "none"]
  /\ got = [f \in Fetches |-> Nobody]
  /\ requests = {} /\ forgotten = {} /\ awaited = {}

------------------------------------------------------------------------------
(* The process.                                                             *)

\* flock(LOCK_EX | LOCK_NB) succeeds; the variant takes no lock.
NoLock == TRUE
LockFree == flock = Nobody

\* __init__: the lock is taken without waiting, or startup fails.
StartProcess(p) ==
  /\ proc[p] = "new"
  /\ \/ /\ LockFree
        /\ flock' = p
        /\ proc' = [proc EXCEPT ![p] = "up"]
     \/ /\ ~LockFree
        /\ proc' = [proc EXCEPT ![p] = "exited"]
        /\ UNCHANGED flock
  /\ UNCHANGED <<dlock, diskVars, askVars, endVars, pc, stop, gaveUp, expired, runVars>>

\* The workers that close() takes from _acquisitions and cancels, and the
\* condition for its gather to end: also one that is forgotten meanwhile is
\* waited for.  The variants cancel nothing, do not wait at all, and do not wait
\* for a worker that is already unwinding.
CancelsNone(p) == {}
WorkersOf(p) == {f \in Fetches \ forgotten : owner[f] = p /\ pc[f] \in Working}
Cancellable(p) == WorkersOf(p)
GatheredNone(p) == TRUE
GatheredCancelled(p) ==
  \A f \in awaited : owner[f] = p /\ pc[f] \in Working => pc[f] = "unwinding"
Gathered(p) == \A f \in awaited : owner[f] = p => pc[f] \notin Working

\* close(): refuse new downloads and cancel the workers, in one loop step.
Close(p) ==
  /\ proc[p] = "up"
  /\ proc' = [proc EXCEPT ![p] = "closing"]
  /\ stop' = [f \in Fetches |-> stop[f] \/ f \in Cancellable(p)]
  /\ awaited' = awaited \cup WorkersOf(p)
  /\ UNCHANGED <<flock, dlock, diskVars, askVars, endVars, pc, gaveUp, expired,
                 requests, forgotten>>

\* gather(*workers) is over, the HTTP client is closed, the lock file too.
CloseReleases(p) ==
  /\ proc[p] = "closing" /\ Gathered(p)
  /\ proc' = [proc EXCEPT ![p] = "exited"]
  /\ flock' = Nobody
  /\ UNCHANGED <<dlock, diskVars, askVars, endVars, pc, stop, gaveUp, expired, runVars>>

\* The process is killed: its lock is freed, its staging directory stays.
Killed(p) ==
  /\ proc[p] \in {"up", "closing"}
  /\ proc' = [proc EXCEPT ![p] = "exited"]
  /\ flock' = Nobody
  /\ pc' = [f \in Fetches |-> IF owner[f] = p /\ pc[f] \in Live THEN "dead" ELSE pc[f]]
  /\ requests' = {f \in requests : owner[f] # p}
  /\ UNCHANGED <<dlock, diskVars, askVars, endVars, stop, gaveUp, expired, forgotten, awaited>>

\* Somebody edits a saved snapshot, for good: a piece of its files, or its
\* manifest, which then is no manifest or names another selection or history
\* server.
Tampered(s) ==
  /\ s \in published
  /\ Cardinality(altered[s]) + (IF manifest[s] = "own" THEN 0 ELSE 1) < MaxEdits
  /\ \/ /\ manifest[s] = "own"
        /\ \E m \in {"unreadable", "foreign"} : manifest' = [manifest EXCEPT ![s] = m]
        /\ UNCHANGED altered
     \/ /\ \E n \in 1..Pieces : altered' = [altered EXCEPT ![s] = @ \cup {n}]
        /\ UNCHANGED manifest
  /\ UNCHANGED <<procVars, staging, published, stamp, clock, askVars, endVars,
                 pc, stop, gaveUp, expired, runVars>>

------------------------------------------------------------------------------
(* lookup.                                                                  *)

\* Manifests for the selection; the variant takes any.
CandidatesAnywhere(f) == published
Candidates(f) == {s \in published : want[s] = want[f]}

\* downloaded_at is compared as text: isoformat() leaves the fraction out
\* when it is zero, and "Z" sorts after ".", so a whole second comes after
\* every fraction of itself.
IsoOrder(t) == LET tick == t % TicksPerSecond
               IN (t \div TicksPerSecond) * (TicksPerSecond + 1)
                    + (IF tick = 0 THEN TicksPerSecond ELSE tick)

\* max(candidates, key=(downloaded_at, manifest_path)); paths are random.  The
\* variant goes by the path alone.
ByPath(S) == S
Newest(S) == {s \in S : \A t \in S : IsoOrder(stamp[t]) <= IsoOrder(stamp[s])}

\* fetch ends: a caller that has left is told nothing more.
Answer(f, o) == /\ outcome' = [outcome EXCEPT ![f] = IF @ = "none" THEN o ELSE @]
                /\ pc' = [pc EXCEPT ![f] = "done"]

\* SparkEventLogService.fetch up to its first await: a lookup that lists the
\* candidates, or, without any or with refresh, a download worker.
Begin(f, p, refresh) ==
  /\ pc[f] = "idle" /\ proc[p] \in {"up", "closing"}
  /\ owner' = [owner EXCEPT ![f] = p]
  /\ \/ /\ proc[p] = "closing"
        /\ Answer(f, "error")
        /\ UNCHANGED listed
     \/ /\ proc[p] = "up" /\ ~refresh /\ Candidates(f) # {}
        /\ listed' = [listed EXCEPT ![f] = Candidates(f)]
        /\ pc' = [pc EXCEPT ![f] = "verifying"]
        /\ UNCHANGED outcome
     \/ /\ proc[p] = "up" /\ (refresh \/ Candidates(f) = {})
        /\ pc' = [pc EXCEPT ![f] = "queued"]
        /\ UNCHANGED <<listed, outcome>>
  /\ UNCHANGED <<procVars, diskVars, want, kept, chosen, found, hashed, ending, got,
                 stop, gaveUp, expired, runVars>>

\* Behind the checkpoint of a candidate, its manifest s is read; those of other
\* history servers and selections are skipped.
Reads(f, s) ==
  /\ pc[f] = "verifying" /\ outcome[f] = "none"
  /\ s \in listed[f] /\ manifest[s] # "unreadable"
KeptWith(f, s) == IF manifest[s] = "own" THEN kept[f] \cup {s} ELSE kept[f]
Read(f, s) == /\ listed' = [listed EXCEPT ![f] = @ \ {s}]
              /\ kept' = [kept EXCEPT ![f] = KeptWith(f, s)]

ManifestRead(f) ==
  /\ \E s \in listed[f] : Reads(f, s) /\ listed[f] # {s} /\ Read(f, s)
  /\ UNCHANGED <<procVars, diskVars, owner, want, chosen, found, hashed, endVars, pc,
                 stop, gaveUp, expired, runVars>>

\* After the last manifest the newest candidate is the one whose files are
\* hashed, behind one more checkpoint.
NewestChosen(f) ==
  /\ \E s \in listed[f] :
       /\ Reads(f, s) /\ listed[f] = {s} /\ Read(f, s)
       /\ \E c \in Newest(KeptWith(f, s)) :
            /\ chosen' = [chosen EXCEPT ![f] = c]
            /\ found' = [found EXCEPT ![f] = altered[c]]
  /\ pc' = [pc EXCEPT ![f] = "hashing"]
  /\ UNCHANGED <<procVars, diskVars, owner, want, hashed, endVars, stop, gaveUp, expired,
                 runVars>>

\* No candidate is left: a download, unless close() came first.
LookupMisses(f) ==
  /\ \E s \in listed[f] :
       Reads(f, s) /\ listed[f] = {s} /\ Read(f, s) /\ KeptWith(f, s) = {}
  /\ \/ /\ proc[owner[f]] = "up" /\ ~expired[f] /\ ~gaveUp[f]
        /\ pc' = [pc EXCEPT ![f] = "queued"]
        /\ UNCHANGED outcome
     \/ proc[owner[f]] # "up" /\ Answer(f, "error")
  /\ UNCHANGED <<procVars, diskVars, owner, want, chosen, found, hashed, ending, got,
                 stop, gaveUp, expired, runVars>>

\* One piece is hashed; a checkpoint follows each of them.
Hashes(f) == pc[f] = "hashing" /\ outcome[f] = "none" /\ hashed[f] < Pieces
PieceHashed(f) ==
  /\ Hashes(f) /\ hashed[f] + 1 \notin altered[chosen[f]]
  /\ hashed' = [hashed EXCEPT ![f] = @ + 1]
  /\ UNCHANGED <<procVars, diskVars, owner, want, listed, kept, chosen, found, endVars, pc,
                 stop, gaveUp, expired, runVars>>

\* A manifest cannot be read, or an altered piece is read, which its file's size
\* or digest tells.
LookupFails(f) ==
  /\ \/ /\ pc[f] = "verifying" /\ outcome[f] = "none"
        /\ \E s \in listed[f] : manifest[s] = "unreadable"
     \/ Hashes(f) /\ hashed[f] + 1 \in altered[chosen[f]]
  /\ Answer(f, "error")
  /\ UNCHANGED <<procVars, diskVars, askVars, ending, got, stop, gaveUp, expired, runVars>>

\* Every digest is that of the manifest: the snapshot is handed out.
LookupEnds(f) ==
  /\ pc[f] = "hashing" /\ outcome[f] = "none" /\ hashed[f] = Pieces
  /\ got' = [got EXCEPT ![f] = chosen[f]]
  /\ Answer(f, "hit")
  /\ UNCHANGED <<procVars, diskVars, askVars, ending, stop, gaveUp, expired, runVars>>

\* The lookup is given up at one of its checkpoints.
LookupStops(f) ==
  /\ pc[f] \in Looking
  /\ \/ gaveUp[f] /\ Answer(f, "cancelled")
     \/ expired[f] /\ Answer(f, "timeout")
  /\ UNCHANGED <<procVars, diskVars, askVars, ending, got, stop, gaveUp, expired, runVars>>

------------------------------------------------------------------------------
(* _download, in its worker task.                                           *)

WorkerEnds(f, how) == /\ pc' = [pc EXCEPT ![f] = "ended"]
                      /\ ending' = [ending EXCEPT ![f] = how]
                      /\ stop' = [stop EXCEPT ![f] = FALSE]

Unlocked(f) == [dlock EXCEPT ![owner[f]] = IF @ = f THEN Nobody ELSE @]

\* rmtree(staging); the variant leaves it.
StagingKept(f) == staging
StagingRemoved(f) == staging \ {f}

\* finally: rmtree(staging); then the download lock is released and the
\* worker is over.
Unwinds(f, how) == /\ staging' = StagingRemoved(f)
                   /\ dlock' = Unlocked(f)
                   /\ WorkerEnds(f, how)
                   /\ UNCHANGED <<flock, proc, published, stamp, manifest, altered, clock, askVars,
                                  outcome, got, gaveUp, expired, forgotten, awaited>>

LockTaken(f) ==
  /\ pc[f] = "queued" /\ dlock[owner[f]] = Nobody
  /\ dlock' = [dlock EXCEPT ![owner[f]] = f]
  /\ pc' = [pc EXCEPT ![f] = "locked"]
  /\ UNCHANGED <<flock, proc, diskVars, askVars, endVars, stop, gaveUp, expired, runVars>>

\* Cancelled in the queue, or at the checkpoint behind it.
CancelledEarly(f) ==
  /\ pc[f] \in {"queued", "locked"} /\ stop[f]
  /\ WorkerEnds(f, "cancelled")
  /\ dlock' = Unlocked(f)
  /\ UNCHANGED <<flock, proc, diskVars, askVars, outcome, got, gaveUp, expired, runVars>>

\* The first checkpoint finds the deadline passed, or a directory cannot be
\* made: nothing was staged.
Refused(f) ==
  /\ pc[f] = "locked"
  /\ WorkerEnds(f, "failed")
  /\ dlock' = Unlocked(f)
  /\ UNCHANGED <<flock, proc, diskVars, askVars, outcome, got, gaveUp, expired, runVars>>

\* Past the checkpoint: the ".part-" directory is made, the request starts.
Staged(f) ==
  /\ pc[f] = "locked" /\ ~stop[f]
  /\ staging' = staging \cup {f}
  /\ requests' = requests \cup {f}
  /\ pc' = [pc EXCEPT ![f] = "receiving"]
  /\ UNCHANGED <<procVars, published, stamp, manifest, altered, clock, askVars, endVars,
                 stop, gaveUp, expired, forgotten, awaited>>

\* The archive is there.  Up to Python 3.11 the wait_for inside receive
\* swallows a cancellation that arrives at this very moment.
Received(f) ==
  /\ pc[f] = "receiving"
  /\ pc' = [pc EXCEPT ![f] = "processing"]
  /\ stop' = [stop EXCEPT ![f] = @ /\ PatientWaits]
  /\ requests' = requests \ {f}
  /\ UNCHANGED <<procVars, diskVars, askVars, endVars, gaveUp, expired, forgotten, awaited>>

\* The request or the archive fails.  The variant renames what there is.
FailedButPublished(f) ==
  /\ pc[f] \in {"receiving", "processing"}
  /\ WorkerEnds(f, "failed")
  /\ dlock' = Unlocked(f)
  /\ published' = published \cup {f}
  /\ staging' = staging \ {f}
  /\ requests' = requests \ {f}
  /\ UNCHANGED <<flock, proc, stamp, manifest, altered, clock, askVars, outcome, got, gaveUp, expired,
                 forgotten, awaited>>
Failed(f) ==
  /\ pc[f] \in {"receiving", "processing"}
  /\ requests' = requests \ {f}
  /\ Unwinds(f, "failed")

\* The checkpoints see the deadline even if a cancellation was swallowed.
OutOfTime(f) ==
  /\ pc[f] = "processing" /\ expired[f]
  /\ Unwinds(f, "failed")
  /\ UNCHANGED requests

\* CancelledError at a checkpoint.
Cancelled(f) ==
  /\ pc[f] = "processing" /\ stop[f]
  /\ Unwinds(f, "cancelled")
  /\ UNCHANGED requests

\* receive's wait_for is cancelled, or times out on its own, which leaves a
\* cancellation on its way: it cancels _receive and waits for it.
Interrupted(f) ==
  /\ pc[f] = "receiving"
  /\ \/ /\ stop[f]
        /\ ending' = [ending EXCEPT ![f] = "cancelled"]
        /\ stop' = [stop EXCEPT ![f] = FALSE]
     \/ /\ expired[f]
        /\ ending' = [ending EXCEPT ![f] = "failed"]
        /\ UNCHANGED stop
  /\ pc' = [pc EXCEPT ![f] = "unwinding"]
  /\ UNCHANGED <<procVars, diskVars, askVars, outcome, got, gaveUp, expired, runVars>>

\* The response of an interrupted request is closed: _receive is over.  The
\* variant reads it to its end first, from a server that sends nothing more.
RequestDrained(f) == FALSE /\ UNCHANGED vars
RequestEnds(f) ==
  /\ f \in requests /\ pc[f] # "receiving"
  /\ requests' = requests \ {f}
  /\ UNCHANGED <<procVars, diskVars, askVars, endVars, pc, stop, gaveUp, expired, forgotten, awaited>>

\* The worker goes on when _receive is over; up to Python 3.11 a further
\* cancellation makes it go on at once.
Unwound(f) ==
  /\ pc[f] = "unwinding"
  /\ \/ f \notin requests /\ Unwinds(f, ending[f])
     \/ ~PatientWaits /\ stop[f] /\ Unwinds(f, "cancelled")
  /\ UNCHANGED requests

\* What datetime.now() may return.
ClockReadings == clock..MaxClock

\* Last checkpoint passed: manifest, unlink of the archive, rename, release;
\* no await in between.
Published(f) ==
  /\ pc[f] = "processing" /\ ~stop[f] /\ ~expired[f]
  /\ \E now \in ClockReadings :
       /\ clock' = now
       /\ stamp' = [stamp EXCEPT ![f] = now]
  /\ published' = published \cup {f}
  /\ staging' = staging \ {f}
  /\ dlock' = Unlocked(f)
  /\ WorkerEnds(f, "published")
  /\ UNCHANGED <<flock, proc, manifest, altered, askVars, outcome, got, gaveUp, expired, runVars>>

------------------------------------------------------------------------------
(* The caller.                                                              *)

\* wait_for cancels what it waits for, and waits for it to end.
StopsWorker(f) == stop' = [stop EXCEPT ![f] = stop[f] \/ pc[f] \in Working]

CallerCancelled(f) ==
  /\ pc[f] \in Live /\ ~gaveUp[f]
  /\ gaveUp' = [gaveUp EXCEPT ![f] = TRUE]
  /\ StopsWorker(f)
  /\ UNCHANGED <<procVars, diskVars, askVars, endVars, pc, expired, runVars>>

\* Up to Python 3.11 a cancellation that is repeated makes fetch end before
\* what it cancelled.
CallerLeaves(f) ==
  /\ ~PatientWaits
  /\ pc[f] \in Live /\ gaveUp[f] /\ outcome[f] = "none"
  /\ outcome' = [outcome EXCEPT ![f] = "cancelled"]
  /\ UNCHANGED <<procVars, diskVars, askVars, ending, got, pc, stop, gaveUp, expired, runVars>>

DeadlinePasses(f) ==
  /\ pc[f] \in Live /\ ~expired[f]
  /\ expired' = [expired EXCEPT ![f] = TRUE]
  /\ StopsWorker(f)
  /\ UNCHANGED <<procVars, diskVars, askVars, endVars, pc, gaveUp, runVars>>

\* Up to Python 3.11 the timer of download, armed for the same deadline, fires
\* just before fetch's: download cancels its worker and waits, is cancelled
\* itself a step after it, and drops the worker from _acquisitions while that
\* still waits for its request.
DownloadLeaves(f) ==
  /\ ~PatientWaits
  /\ pc[f] \in Working /\ expired[f] /\ ~stop[f] /\ ~gaveUp[f] /\ f \notin forgotten
  /\ forgotten' = forgotten \cup {f}
  /\ outcome' = [outcome EXCEPT ![f] = "timeout"]
  /\ UNCHANGED <<procVars, diskVars, askVars, ending, got, pc, stop, gaveUp, expired, requests,
                 awaited>>

\* The worker is done.  A timer or a cancellation that comes together with
\* its result may win or be swallowed.
CallerReturns(f) ==
  /\ pc[f] = "ended"
  /\ \/ gaveUp[f] /\ Answer(f, "cancelled") /\ UNCHANGED got
     \/ ~gaveUp[f] /\ expired[f] /\ Answer(f, "timeout") /\ UNCHANGED got
     \/ /\ ending[f] = "published" /\ outcome[f] = "none"
        /\ Answer(f, "downloaded")
        /\ got' = [got EXCEPT ![f] = f]
     \/ ending[f] = "failed" /\ Answer(f, "error") /\ UNCHANGED got
     \/ /\ ending[f] = "cancelled" /\ ~gaveUp[f] /\ ~expired[f]
        /\ Answer(f, "cancelled")
        /\ UNCHANGED got
  /\ UNCHANGED <<procVars, diskVars, askVars, ending, stop, gaveUp, expired, runVars>>

------------------------------------------------------------------------------

LoopStep(f) == \/ ManifestRead(f) \/ NewestChosen(f) \/ LookupMisses(f)
               \/ PieceHashed(f) \/ LookupFails(f) \/ LookupEnds(f) \/ LookupStops(f)
               \/ LockTaken(f) \/ CancelledEarly(f) \/ Staged(f)
               \/ OutOfTime(f) \/ Cancelled(f) \/ Interrupted(f) \/ Unwound(f)
               \/ Published(f) \/ CallerReturns(f)

\* Every process is gone, every fetch answered, lost with its process or
\* never made.
Finished == /\ \A p \in Procs : proc[p] = "exited"
            /\ \A f \in Fetches : pc[f] \in {"idle", "done", "dead"}
            /\ UNCHANGED vars

Next ==
  \/ \E p \in Procs : \/ StartProcess(p) \/ Close(p) \/ CloseReleases(p) \/ Killed(p)
                      \/ \E f \in Fetches, r \in BOOLEAN : Begin(f, p, r)
  \/ \E f \in Fetches : \/ LoopStep(f) \/ RequestEnds(f) \/ Received(f)
                        \/ Refused(f) \/ Failed(f) \/ Tampered(f)
                        \/ CallerCancelled(f) \/ CallerLeaves(f)
                        \/ DeadlinePasses(f) \/ DownloadLeaves(f)
  \/ Finished

Spec == Init /\ [][Next]_vars

(***************************************************************************)
(* The loop runs what is ready, and closing a response does not wait for    *)
(* the peer; nothing is assumed of the history server, and no process has   *)
(* to close.  Timers says that the clock of the loop advances as well.      *)
(***************************************************************************)
FairSpec == /\ Spec
            /\ \A f \in Fetches : WF_vars(LoopStep(f)) /\ WF_vars(RequestEnds(f))
            /\ \A p \in Procs : WF_vars(CloseReleases(p))

Timers == \A f \in Fetches : WF_vars(DeadlinePasses(f))

------------------------------------------------------------------------------
(* Properties.                                                              *)

\* Over all processes that ever ran on the directory at most one download
\* is in progress, and its process holds the directory lock.
OneAcquisition == \A f, g \in Fetches :
  pc[f] \in Inside =>
    /\ flock = owner[f] /\ dlock[owner[f]] = f
    /\ pc[g] \in Inside => f = g

\* Whoever creates, removes or renames a directory of the store serves a
\* process that holds its lock at that moment.
WritesUnderFlock ==
  [][\A f \in Fetches :
       ((f \in staging) # (f \in staging')) \/ ((f \in published) # (f \in published'))
         => flock # Nobody /\ flock = owner[f]]_vars

\* A fetch that was answered left no unpublished work behind, unless its
\* caller or download left first; only a kill leaves any for good, and never
\* under a final name.  An error means that nothing was saved, then or later.
NoRemnants == \A f \in Fetches :
  /\ outcome[f] = "error" => f \notin published
  /\ f \in staging =>
       /\ f \notin published
       /\ pc[f] \in {"receiving", "processing", "unwinding", "dead"}
       /\ PatientWaits => outcome[f] = "none"
       /\ outcome[f] \in {"none", "cancelled"} \/ f \in forgotten

\* A reused snapshot was published for the same selection, and nothing of it
\* was altered when its lookup turned to its files: what is wrong with it can
\* only have been done while they were hashed.
HitIsSound ==
  [][\A f \in Fetches :
       outcome'[f] = "hit" /\ outcome[f] = "none" =>
         LET s == got'[f]
         IN s \in published /\ want[s] = want[f] /\ s = chosen[f] /\ found[f] = {}]_vars

\* More than the code promises: that nothing is wrong with it when it is handed
\* out.  A piece that is altered behind the hash is not read again.
HitIsWhole ==
  [][\A f \in Fetches :
       outcome'[f] = "hit" /\ outcome[f] = "none" => altered[got'[f]] = {}]_vars

\* fetch answers every caller whose process lives, by its deadline at the
\* latest.
FetchEnds == Timers => \A f \in Fetches : pc[f] \in Live ~> pc[f] \in {"done", "dead"}

\* A shutdown ends without waiting for the deadline of any download.
CloseEnds == \A p \in Procs : proc[p] = "closing" ~> proc[p] = "exited"

\* The documented order of acquisitions: one at a time.  Up to Python 3.11 a
\* request that was interrupted twice outlives its acquisition.
Serialized == \A f, g \in requests : owner[f] = owner[g] => f = g

\* The documented choice among the candidates of a lookup: the newest.
\* The code compares ISO texts and does not always make it.
NewestReused ==
  [][\A f \in Fetches :
       outcome'[f] = "hit" /\ outcome[f] = "none" =>
         \A s \in kept[f] : stamp[s] <= stamp[got'[f]]]_vars

\* The second in which a snapshot was saved.
Second(s) == stamp[s] \div TicksPerSecond

\* What the code keeps of it: whatever was saved while the lookup ran, none of
\* the candidates it read was saved in a later second than the one it hands out.
NewestToTheSecond ==
  [][\A f \in Fetches :
       outcome'[f] = "hit" /\ outcome[f] = "none" =>
         \A s \in kept[f] : Second(s) <= Second(got'[f])]_vars
=============================================================================
