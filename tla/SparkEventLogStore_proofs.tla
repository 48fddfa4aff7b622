---------------------- MODULE SparkEventLogStore_proofs ----------------------
(***************************************************************************)
(* Proofs about SparkEventLogStore, for any number of fetches, processes    *)
(* and selections: who may write, what is left behind and what is handed    *)
(* out, and the refinement of the promise of SnapshotStore.                 *)
(*                                                                          *)
(* The inductive invariant holds whatever wait_for does.  Up to Python 3.11 *)
(* a worker may be forgotten by its store, and what needs it to be waited   *)
(* for is stated under PatientWaits.                                        *)
(***************************************************************************)
EXTENDS MCSparkEventLogStore, TLAPS

------------------------------------------------------------------------------
(* The inductive invariant, in named parts.                                  *)

\* The directory lock belongs to the one process that serves or shuts down.
ProcInv == \A p \in Procs : proc[p] \in {"up", "closing"} <=> flock = p

\* A fetch that began has a process; that of a worker it still knows of lives.
OwnerInv == \A f \in Fetches :
  /\ pc[f] # "idle" => owner[f] \in Procs
  /\ pc[f] \in Working /\ f \notin forgotten => flock = owner[f]

\* Who is inside holds the download lock of its process, forgotten or not.
LockInv == \A f \in Fetches : pc[f] \in Inside => dlock[owner[f]] = f

\* A snapshot belongs to a worker that ended so, a staging directory to one
\* that goes on or was killed.
SavedInv == \A f \in Fetches :
  /\ f \in published => pc[f] \in {"ended", "done", "dead"} /\ ending[f] = "published"
  /\ pc[f] = "ended" /\ ending[f] = "published" => f \in published
  /\ pc[f] = "unwinding" => ending[f] \in {"failed", "cancelled"}
  /\ f \in staging => pc[f] \in {"receiving", "processing", "unwinding", "dead"}
  /\ f \in staging => f \notin published

\* Who is not done has been told nothing, unless it or its download left.
OutcomeInv == \A f \in Fetches :
  /\ pc[f] # "done" /\ PatientWaits => outcome[f] = "none"
  /\ pc[f] # "done" => outcome[f] \in {"none", "cancelled"} \/ f \in forgotten
  /\ outcome[f] = "error" => pc[f] = "done" /\ f \notin published
  /\ PatientWaits => f \notin forgotten

\* What a lookup lists was saved, for the selection it looks for.  While it
\* hashes the chosen one, what was wrong with it at the start is still wrong,
\* and has yet to be read.
LookInv == \A f \in Fetches :
  /\ \A s \in listed[f] \cup kept[f] : s \in published /\ want[s] = want[f]
  /\ pc[f] \in {"idle", "verifying"} => hashed[f] = 0
  /\ pc[f] = "hashing" =>
       /\ chosen[f] \in kept[f]
       /\ found[f] \subseteq altered[chosen[f]]
       /\ \A n \in found[f] : n > hashed[f]

\* A process that shuts down waits for every worker that is not forgotten.
AwaitInv == \A f \in Fetches :
  proc[owner[f]] = "closing" /\ pc[f] \in Working /\ f \notin forgotten => f \in awaited

\* Who left a worker was out of time, and that worker saves nothing any more;
\* who left fetch had been cancelled.
LeaveInv == \A f \in Fetches :
  /\ f \in forgotten => expired[f] /\ f \notin published
  /\ pc[f] # "done" /\ outcome[f] = "cancelled" => gaveUp[f]

IInv == /\ TypeOK /\ ProcInv /\ OwnerInv /\ AwaitInv /\ LockInv
        /\ SavedInv /\ OutcomeInv /\ LookInv /\ LeaveInv

------------------------------------------------------------------------------
(* The steps, grouped by what the invariant sees of them.                    *)

\* The worker ends without a snapshot.
GivesUp(f) == \/ CancelledEarly(f) \/ Refused(f) \/ Failed(f)
              \/ OutOfTime(f) \/ Cancelled(f) \/ Unwound(f)

\* fetch ends.
Ends(f) == LookupFails(f) \/ LookupEnds(f) \/ LookupStops(f) \/ CallerReturns(f)

\* A lookup goes on.
Looks(f) == ManifestRead(f) \/ NewestChosen(f) \/ PieceHashed(f)

\* Timers, cancellations, outsiders and responses: signs that are read later.
Signals(f) == CallerCancelled(f) \/ DeadlinePasses(f) \/ RequestEnds(f) \/ Tampered(f)

\* Nothing the invariant speaks of changes but the types.
Quiet == UNCHANGED <<flock, proc, dlock, staging, published, askVars, endVars, pc, forgotten>>

LEMMA StepCases ==
  ASSUME [Next]_vars
  PROVE  \/ \E p \in Procs : \/ StartProcess(p) \/ Close(p) \/ CloseReleases(p) \/ Killed(p)
                             \/ \E f \in Fetches, r \in BOOLEAN : Begin(f, p, r)
         \/ \E f \in Fetches : \/ GivesUp(f) \/ Ends(f) \/ Signals(f)
                               \/ Looks(f) \/ LookupMisses(f)
                               \/ LockTaken(f) \/ Staged(f) \/ Received(f)
                               \/ Interrupted(f) \/ Published(f)
                               \/ CallerLeaves(f) \/ DownloadLeaves(f)
         \/ UNCHANGED vars
  BY DEF Next, LoopStep, Finished, GivesUp, Ends, Looks, Signals

\* A worker that gives up has left nothing and holds no lock.
LEMMA GivingUp ==
  ASSUME TypeOK, SavedInv, NEW f \in Fetches, GivesUp(f)
  PROVE  /\ pc[f] \in Working
         /\ pc' = [pc EXCEPT ![f] = "ended"]
         /\ \E how \in {"failed", "cancelled"} : ending' = [ending EXCEPT ![f] = how]
         /\ stop' = [stop EXCEPT ![f] = FALSE]
         /\ dlock' = Unlocked(f)
         /\ staging' = staging \ {f}
         /\ requests' \in {requests, requests \ {f}}
         /\ UNCHANGED <<flock, proc, published, stamp, manifest, altered, clock, askVars,
                        outcome, got, gaveUp, expired, forgotten, awaited>>
<1>1. CASE CancelledEarly(f) \/ Refused(f)
  <2>1. f \notin staging
    BY <1>1 DEF SavedInv, CancelledEarly, Refused
  <2>2. staging' = staging \ {f}
    BY <1>1, <2>1 DEF CancelledEarly, Refused, diskVars
  <2>3. QED
    BY <1>1, <2>2 DEF CancelledEarly, Refused, WorkerEnds, Working, Inside, diskVars, runVars
<1>2. CASE Failed(f) \/ OutOfTime(f) \/ Cancelled(f)
  BY <1>2 DEF Failed, OutOfTime, Cancelled, Unwinds, StagingRemoved, WorkerEnds, Working, Inside
<1>3. CASE Unwound(f)
  <2>1. ending[f] \in {"failed", "cancelled"}
    BY <1>3 DEF Unwound, SavedInv
  <2>2. QED
    BY <1>3, <2>1 DEF Unwound, Unwinds, StagingRemoved, WorkerEnds, Working, Inside
<1>4. QED
  BY <1>1, <1>2, <1>3 DEF GivesUp

\* A fetch ends once, with a snapshot it may give or with a failure, and an
\* error means that it saved none.
LEMMA Ending ==
  ASSUME TypeOK, SavedInv, OutcomeInv, LookInv, NEW f \in Fetches, Ends(f)
  PROVE  /\ pc[f] \in Looking \cup {"ended"}
         /\ pc' = [pc EXCEPT ![f] = "done"]
         /\ UNCHANGED <<flock, proc, dlock, diskVars, askVars, ending, stop, gaveUp, expired, runVars>>
         /\ \/ \E o \in {"error", "timeout", "cancelled"} :
                 /\ outcome' = [outcome EXCEPT ![f] = IF outcome[f] = "none" THEN o ELSE outcome[f]]
                 /\ o = "error" => f \notin published
                 /\ UNCHANGED got
            \/ \E s \in published :
                 /\ outcome[f] = "none" /\ want[s] = want[f]
                 /\ outcome' = [outcome EXCEPT ![f] = IF s = f THEN "downloaded" ELSE "hit"]
                 /\ s # f => s = chosen[f] /\ found[f] = {}
                 /\ got' = [got EXCEPT ![f] = s]
<1>1. CASE LookupEnds(f)
  <2>1. f \notin published /\ pc[f] = "hashing" /\ hashed[f] = Pieces /\ outcome[f] = "none"
    BY <1>1 DEF LookupEnds, SavedInv
  <2>2. /\ chosen[f] \in published /\ want[chosen[f]] = want[f]
        /\ \A n \in found[f] : n > Pieces
    BY <2>1 DEF LookInv
  <2>3. found[f] = {}
    BY <2>2, StoreAssumption DEF TypeOK
  <2>4. QED
    BY <1>1, <2>1, <2>2, <2>3 DEF LookupEnds, Answer, Looking, procVars
<1>2. CASE LookupStops(f)
  BY <1>2 DEF LookupStops, Answer, Looking, procVars
<1>3. CASE CallerReturns(f)
  <2>1. CASE ending[f] = "published" /\ outcome[f] = "none" /\ Answer(f, "downloaded")
               /\ got' = [got EXCEPT ![f] = f]
    <3>1. f \in published
      BY <1>3, <2>1 DEF CallerReturns, SavedInv
    <3>2. QED
      BY <1>3, <2>1, <3>1 DEF CallerReturns, Answer, procVars
  <2>2. CASE ending[f] = "failed" /\ Answer(f, "error") /\ UNCHANGED got
    <3>1. f \notin published
      BY <2>2 DEF SavedInv
    <3>2. QED
      BY <1>3, <2>2, <3>1 DEF CallerReturns, Answer, procVars
  <2>3. CASE (Answer(f, "cancelled") \/ Answer(f, "timeout")) /\ UNCHANGED got
    BY <1>3, <2>3 DEF CallerReturns, Answer, procVars
  <2>4. QED
    BY <1>3, <2>1, <2>2, <2>3 DEF CallerReturns
<1>4. CASE LookupFails(f)
  <2>1. f \notin published
    BY <1>4 DEF LookupFails, Hashes, SavedInv
  <2>2. QED
    BY <1>4, <2>1 DEF LookupFails, Hashes, Answer, Looking, procVars
<1>5. QED
  BY <1>1, <1>2, <1>3, <1>4 DEF Ends

LEMMA Signalling ==
  ASSUME NEW f \in Fetches, Signals(f)
  PROVE  Quiet
  BY DEF Signals, CallerCancelled, DeadlinePasses, RequestEnds, Tampered, Quiet,
         procVars, diskVars, askVars, endVars, runVars

\* A lookup that goes on is heard of by nobody else.
LEMMA LookingOn ==
  ASSUME TypeOK, NEW f \in Fetches, Looks(f)
  PROVE  /\ pc[f] \in Looking
         /\ \E phase \in Looking : pc' = [pc EXCEPT ![f] = phase]
         /\ UNCHANGED <<flock, proc, dlock, diskVars, owner, want, ending, outcome, got,
                        stop, gaveUp, expired, runVars>>
  BY DEF TypeOK, Looks, ManifestRead, NewestChosen, PieceHashed, Reads, Hashes, Looking,
     procVars, endVars

\* A fetch that begins is answered, looks up what is saved, or downloads.
LEMMA Beginning ==
  ASSUME TypeOK, NEW f \in Fetches, NEW p \in Procs, NEW r \in BOOLEAN, Begin(f, p, r)
  PROVE  /\ pc[f] = "idle" /\ proc[p] \in {"up", "closing"}
         /\ owner' = [owner EXCEPT ![f] = p]
         /\ UNCHANGED <<flock, proc, dlock, diskVars, want, kept, chosen, found, hashed,
                        ending, got, stop, gaveUp, expired, runVars>>
         /\ \/ /\ pc' = [pc EXCEPT ![f] = "done"] /\ UNCHANGED listed
               /\ outcome' = [outcome EXCEPT ![f] = IF outcome[f] = "none" THEN "error"
                                                    ELSE outcome[f]]
            \/ /\ pc' = [pc EXCEPT ![f] = "verifying"] /\ UNCHANGED outcome
               /\ listed' = [listed EXCEPT ![f] = Candidates(f)]
            \/ pc' = [pc EXCEPT ![f] = "queued"] /\ UNCHANGED <<listed, outcome>>
  BY DEF Begin, Answer, procVars

------------------------------------------------------------------------------
(* Each part of the invariant is preserved by every step.                    *)

\* A flag of a call takes a new value, whatever formula gives it.
LEMMA FlagType ==
  ASSUME NEW flag \in [Fetches -> BOOLEAN], NEW f \in Fetches, NEW value \in BOOLEAN
  PROVE  [flag EXCEPT ![f] = value] \in [Fetches -> BOOLEAN]
  OBVIOUS

\* Type correctness.
LEMMA TypeStep == TypeOK /\ [Next]_vars => TypeOK'
<1> SUFFICES ASSUME TypeOK, [Next]_vars
             PROVE  TypeOK'
  OBVIOUS
<1> USE DEF Working, Inside, Looking, Live, procVars, diskVars, askVars, lookVars, endVars, runVars
<1>1. ASSUME NEW p \in Procs, StartProcess(p) PROVE TypeOK'
  BY <1>1 DEF TypeOK, StartProcess
<1>2. ASSUME NEW p \in Procs, Close(p) PROVE TypeOK'
  BY <1>2 DEF TypeOK, Close, WorkersOf
<1>3. ASSUME NEW p \in Procs, CloseReleases(p) PROVE TypeOK'
  BY <1>3 DEF TypeOK, CloseReleases
<1>4. ASSUME NEW p \in Procs, Killed(p) PROVE TypeOK'
  BY <1>4 DEF TypeOK, Killed
<1>5. ASSUME NEW f \in Fetches, NEW p \in Procs, NEW r \in BOOLEAN, Begin(f, p, r) PROVE TypeOK'
  <2>1. Candidates(f) \in SUBSET Fetches
    BY DEF TypeOK, Candidates
  <2>2. owner' = [owner EXCEPT ![f] = p]
    BY <1>5, Beginning
  <2>3. \E phase \in {"done", "verifying", "queued"} : pc' = [pc EXCEPT ![f] = phase]
    BY <1>5, Beginning
  <2>4. listed' = listed \/ listed' = [listed EXCEPT ![f] = Candidates(f)]
    BY <1>5, Beginning
  <2>5. \E o \in {"error", outcome[f]} : outcome' = [outcome EXCEPT ![f] = o] \/ outcome' = outcome
    BY <1>5, Beginning
  <2>6. UNCHANGED <<flock, proc, dlock, diskVars, want, kept, chosen, found, hashed,
                    ending, got, stop, gaveUp, expired, runVars>>
    BY <1>5, Beginning
  <2>7. /\ pc' \in [Fetches -> Live \cup {"idle", "done", "dead"}]
        /\ owner' \in [Fetches -> Procs \cup {Nobody}]
    BY <2>2, <2>3 DEF TypeOK
  <2>8. listed' \in [Fetches -> SUBSET Fetches]
    BY <2>1, <2>4 DEF TypeOK
  <2>9. outcome' \in [Fetches -> {"none", "hit", "downloaded", "timeout", "error", "cancelled"}]
    BY <2>5 DEF TypeOK
  <2>10. QED
    BY <2>6, <2>7, <2>8, <2>9 DEF TypeOK
<1>6. ASSUME NEW f \in Fetches, NEW s \in listed[f], Read(f, s)
      PROVE  /\ s \in Fetches /\ KeptWith(f, s) \subseteq Fetches
             /\ listed' \in [Fetches -> SUBSET Fetches] /\ kept' \in [Fetches -> SUBSET Fetches]
  <2>1. s \in Fetches /\ KeptWith(f, s) \in SUBSET Fetches /\ listed[f] \ {s} \in SUBSET Fetches
    BY DEF TypeOK, KeptWith
  <2>2. QED
    BY <1>6, <2>1 DEF TypeOK, Read
<1>7. ASSUME NEW f \in Fetches, Looks(f) PROVE TypeOK'
  <2>1. CASE ManifestRead(f)
    BY <1>6, <2>1 DEF TypeOK, ManifestRead, Reads
  <2>2. CASE NewestChosen(f)
    <3>1. PICK s \in listed[f] :
            /\ Read(f, s)
            /\ \E c \in Newest(KeptWith(f, s)) :
                 /\ chosen' = [chosen EXCEPT ![f] = c]
                 /\ found' = [found EXCEPT ![f] = altered[c]]
      BY <2>2 DEF NewestChosen
    <3>2. /\ KeptWith(f, s) \subseteq Fetches
          /\ listed' \in [Fetches -> SUBSET Fetches] /\ kept' \in [Fetches -> SUBSET Fetches]
      BY <1>6, <3>1
    <3>3. \E c \in Fetches : /\ chosen' = [chosen EXCEPT ![f] = c]
                            /\ found' = [found EXCEPT ![f] = altered[c]]
      BY <3>1, <3>2 DEF Newest
    <3>4. /\ chosen' \in [Fetches -> Fetches \cup {Nobody}]
          /\ found' \in [Fetches -> SUBSET (1..Pieces)]
      BY <3>3 DEF TypeOK
    <3>5. QED
      BY <2>2, <3>2, <3>4 DEF TypeOK, NewestChosen
  <2>3. CASE PieceHashed(f)
    <3>1. hashed[f] + 1 \in 0..Pieces
      BY <2>3, StoreAssumption DEF TypeOK, PieceHashed, Hashes
    <3>2. QED
      BY <2>3, <3>1 DEF TypeOK, PieceHashed
  <2>4. QED
    BY <1>7, <2>1, <2>2, <2>3 DEF Looks
<1>8. ASSUME NEW f \in Fetches, LookupMisses(f) PROVE TypeOK'
  <2>1. PICK s \in listed[f] : Read(f, s)
    BY <1>8 DEF LookupMisses
  <2>2. listed' \in [Fetches -> SUBSET Fetches] /\ kept' \in [Fetches -> SUBSET Fetches]
    BY <1>6, <2>1
  <2>3. /\ pc' \in [Fetches -> Live \cup {"idle", "done", "dead"}]
        /\ outcome' \in [Fetches -> {"none", "hit", "downloaded", "timeout", "error", "cancelled"}]
    BY <1>8 DEF TypeOK, LookupMisses, Answer
  <2>4. QED
    BY <1>8, <2>2, <2>3 DEF TypeOK, LookupMisses
<1>9. ASSUME NEW f \in Fetches, LockTaken(f) \/ Staged(f) \/ Received(f) PROVE TypeOK'
  <2>1. CASE LockTaken(f)
    BY <2>1 DEF TypeOK, LockTaken
  <2>2. CASE Staged(f)
    BY <2>2 DEF TypeOK, Staged
  <2>3. CASE Received(f)
    <3>1. (stop[f] /\ PatientWaits) \in BOOLEAN
      OBVIOUS
    <3>2. stop' \in [Fetches -> BOOLEAN]
      BY <2>3, <3>1, FlagType DEF TypeOK, Received
    <3>3. QED
      BY <2>3, <3>2 DEF TypeOK, Received
  <2>4. QED
    BY <1>9, <2>1, <2>2, <2>3
<1>10. ASSUME NEW f \in Fetches, CancelledEarly(f) \/ Refused(f) PROVE TypeOK'
  <2>1. \E how \in {"failed", "cancelled"} : WorkerEnds(f, how)
    BY <1>10 DEF CancelledEarly, Refused
  <2>2. /\ pc' \in [Fetches -> Live \cup {"idle", "done", "dead"}]
        /\ ending' \in [Fetches -> {"none", "published", "failed", "cancelled"}]
        /\ stop' \in [Fetches -> BOOLEAN]
    BY <2>1 DEF TypeOK, WorkerEnds
  <2>3. dlock' \in [Procs -> Fetches \cup {Nobody}]
    BY <1>10 DEF TypeOK, CancelledEarly, Refused, Unlocked
  <2>4. QED
    BY <1>10, <2>2, <2>3 DEF TypeOK, CancelledEarly, Refused
<1>11. ASSUME NEW f \in Fetches, NEW how \in {"none", "published", "failed", "cancelled"},
              Unwinds(f, how), requests' \subseteq requests
       PROVE  TypeOK'
  BY <1>11 DEF TypeOK, Unwinds, Unlocked, WorkerEnds, StagingRemoved
<1>12. ASSUME NEW f \in Fetches, Failed(f) \/ OutOfTime(f) \/ Cancelled(f) PROVE TypeOK'
  BY <1>11, <1>12 DEF Failed, OutOfTime, Cancelled
<1>13. ASSUME NEW f \in Fetches, Unwound(f) PROVE TypeOK'
  BY <1>11, <1>13 DEF TypeOK, Unwound
<1>14. ASSUME NEW f \in Fetches, Interrupted(f) PROVE TypeOK'
  <2>1. /\ pc' = [pc EXCEPT ![f] = "unwinding"]
        /\ \E how \in {"failed", "cancelled"} : ending' = [ending EXCEPT ![f] = how]
        /\ stop' = [stop EXCEPT ![f] = FALSE] \/ stop' = stop
    BY <1>14 DEF Interrupted
  <2>2. /\ pc' \in [Fetches -> Live \cup {"idle", "done", "dead"}]
        /\ ending' \in [Fetches -> {"none", "published", "failed", "cancelled"}]
    BY <2>1 DEF TypeOK
  <2>3. stop' \in [Fetches -> BOOLEAN]
    BY <2>1 DEF TypeOK
  <2>4. QED
    BY <1>14, <2>2, <2>3 DEF TypeOK, Interrupted
<1>15. ASSUME NEW f \in Fetches, Published(f) PROVE TypeOK'
  <2>1. /\ clock' \in 0..MaxClock
        /\ stamp' \in [Fetches -> 0..MaxClock]
    BY <1>15, StoreAssumption DEF TypeOK, Published, ClockReadings
  <2>2. QED
    BY <1>15, <2>1 DEF TypeOK, Published, Unlocked, WorkerEnds
<1>16. ASSUME NEW f \in Fetches, Signals(f) PROVE TypeOK'
  <2>1. CASE RequestEnds(f)
    BY <2>1 DEF TypeOK, RequestEnds
  <2>3. CASE Tampered(f)
    <3>1. /\ manifest' \in [Fetches -> {"own", "unreadable", "foreign"}]
          /\ altered' \in [Fetches -> SUBSET (1..Pieces)]
      BY <2>3 DEF TypeOK, Tampered
    <3>2. QED
      BY <2>3, <3>1 DEF TypeOK, Tampered
  <2>2. CASE CallerCancelled(f) \/ DeadlinePasses(f)
    <3>1. (stop[f] \/ pc[f] \in Working) \in BOOLEAN
      OBVIOUS
    <3>2. stop' \in [Fetches -> BOOLEAN]
      BY <2>2, <3>1, FlagType DEF TypeOK, CallerCancelled, DeadlinePasses, StopsWorker
    <3>3. gaveUp' \in [Fetches -> BOOLEAN] /\ expired' \in [Fetches -> BOOLEAN]
      BY <2>2 DEF TypeOK, CallerCancelled, DeadlinePasses
    <3>4. UNCHANGED <<procVars, diskVars, askVars, endVars, pc, runVars>>
      BY <2>2 DEF CallerCancelled, DeadlinePasses
    <3>5. QED
      BY <3>2, <3>3, <3>4 DEF TypeOK
  <2>4. QED
    BY <1>16, <2>1, <2>2, <2>3 DEF Signals
<1>17. ASSUME NEW f \in Fetches, CallerLeaves(f) \/ DownloadLeaves(f) PROVE TypeOK'
  BY <1>17 DEF TypeOK, CallerLeaves, DownloadLeaves
<1>18. ASSUME NEW f \in Fetches, Ends(f) PROVE TypeOK'
  <2>1. CASE LookupEnds(f)
    <3>1. chosen[f] \in Fetches \cup {Nobody}
      BY DEF TypeOK
    <3>2. QED
      BY <2>1, <3>1 DEF TypeOK, LookupEnds, Answer
  <2>2. CASE LookupFails(f) \/ LookupStops(f) \/ CallerReturns(f)
    <3>1. \E o \in {"downloaded", "timeout", "error", "cancelled"} : Answer(f, o)
      BY <2>2 DEF LookupFails, LookupStops, CallerReturns
    <3>2. /\ pc' \in [Fetches -> Live \cup {"idle", "done", "dead"}]
          /\ outcome' \in [Fetches -> {"none", "hit", "downloaded", "timeout", "error", "cancelled"}]
      BY <3>1 DEF TypeOK, Answer
    <3>3. got' \in [Fetches -> Fetches \cup {Nobody}]
      BY <2>2 DEF TypeOK, LookupFails, LookupStops, CallerReturns
    <3>4. UNCHANGED <<procVars, diskVars, askVars, ending, stop, gaveUp, expired, runVars>>
      BY <2>2 DEF LookupFails, LookupStops, CallerReturns
    <3>5. QED
      BY <3>2, <3>3, <3>4 DEF TypeOK
  <2>3. QED
    BY <1>18, <2>1, <2>2 DEF Ends
<1>19. CASE UNCHANGED vars
  BY <1>19 DEF TypeOK, vars
<1>20. QED
  BY <1>1, <1>2, <1>3, <1>4, <1>5, <1>7, <1>8, <1>9, <1>10, <1>12, <1>13, <1>14, <1>15,
     <1>16, <1>17, <1>18, <1>19, StepCases DEF GivesUp

\* The lock of the directory changes hands with the life of a process.
LEMMA ProcStep ==
  TypeOK /\ ProcInv /\ SavedInv /\ OutcomeInv /\ LookInv /\ [Next]_vars => ProcInv'
<1> SUFFICES ASSUME TypeOK, ProcInv, SavedInv, OutcomeInv, LookInv, [Next]_vars
             PROVE  ProcInv'
  OBVIOUS
<1>1. ASSUME NEW p \in Procs, StartProcess(p) PROVE ProcInv'
  BY <1>1, StoreAssumption DEF TypeOK, ProcInv, StartProcess, LockFree
<1>2. ASSUME NEW p \in Procs, Close(p) PROVE ProcInv'
  BY <1>2 DEF TypeOK, ProcInv, Close
<1>3. ASSUME NEW p \in Procs, CloseReleases(p) \/ Killed(p) PROVE ProcInv'
  BY <1>3, StoreAssumption DEF TypeOK, ProcInv, CloseReleases, Killed
<1>4. ASSUME UNCHANGED <<flock, proc>> PROVE ProcInv'
  BY <1>4 DEF ProcInv
<1>5. ASSUME NEW f \in Fetches, NEW p \in Procs, NEW r \in BOOLEAN, Begin(f, p, r) PROVE ProcInv'
  BY <1>4, <1>5, Beginning
<1>6. ASSUME NEW f \in Fetches, GivesUp(f) \/ Ends(f) \/ Signals(f) \/ Looks(f)
      PROVE  ProcInv'
  BY <1>4, <1>6, GivingUp, Ending, Signalling, LookingOn DEF Quiet
<1>7. ASSUME NEW f \in Fetches,
             \/ LookupMisses(f) \/ LockTaken(f) \/ Staged(f) \/ Received(f)
             \/ Interrupted(f) \/ Published(f) \/ CallerLeaves(f) \/ DownloadLeaves(f)
      PROVE  ProcInv'
  BY <1>4, <1>7 DEF LookupMisses, LockTaken, Staged, Received, Interrupted, Published,
     CallerLeaves, DownloadLeaves, procVars
<1>8. CASE UNCHANGED vars
  BY <1>4, <1>8 DEF vars, procVars
<1>9. QED
  BY <1>1, <1>2, <1>3, <1>5, <1>6, <1>7, <1>8, StepCases

\* A process ends only when the workers it knows of have, or with them.
LEMMA OwnerStep ==
  TypeOK /\ ProcInv /\ OwnerInv /\ AwaitInv /\ SavedInv /\ OutcomeInv /\ LookInv /\ [Next]_vars
    => OwnerInv'
<1> SUFFICES ASSUME TypeOK, ProcInv, OwnerInv, AwaitInv, SavedInv, OutcomeInv, LookInv, [Next]_vars
             PROVE  OwnerInv'
  OBVIOUS
<1> USE DEF Working, Inside
<1>1. ASSUME NEW p \in Procs, StartProcess(p) PROVE OwnerInv'
  BY <1>1, StoreAssumption DEF TypeOK, ProcInv, OwnerInv, StartProcess, LockFree, askVars, runVars
<1>2. ASSUME NEW p \in Procs, Close(p) PROVE OwnerInv'
  BY <1>2 DEF OwnerInv, Close, askVars, runVars
<1>3. ASSUME NEW p \in Procs, CloseReleases(p) PROVE OwnerInv'
  <2>1. flock = p
    BY <1>3 DEF ProcInv, CloseReleases
  <2>2. \A f \in Fetches \ forgotten : owner[f] = p => pc[f] \notin Working
    BY <1>3 DEF AwaitInv, CloseReleases, Gathered
  <2>3. QED
    BY <1>3, <2>1, <2>2 DEF OwnerInv, CloseReleases, askVars, runVars
<1>4. ASSUME NEW p \in Procs, Killed(p) PROVE OwnerInv'
  <2>1. flock = p
    BY <1>4 DEF ProcInv, Killed
  <2>2. \A f \in Fetches : pc'[f] = IF owner[f] = p /\ pc[f] \in Live THEN "dead" ELSE pc[f]
    BY <1>4 DEF Killed
  <2>3. QED
    BY <1>4, <2>1, <2>2 DEF OwnerInv, Killed, Live, askVars, runVars
<1>5. ASSUME NEW f \in Fetches, NEW p \in Procs, NEW r \in BOOLEAN, Begin(f, p, r) PROVE OwnerInv'
  <2>1. /\ UNCHANGED <<flock, forgotten>> /\ owner' = [owner EXCEPT ![f] = p] /\ flock = p
        /\ \E phase \in {"done", "verifying", "queued"} : pc' = [pc EXCEPT ![f] = phase]
    BY <1>5, Beginning DEF ProcInv, runVars
  <2>2. QED
    BY <2>1 DEF TypeOK, OwnerInv
<1>6. ASSUME NEW f \in Fetches, GivesUp(f) \/ Ends(f) PROVE OwnerInv'
  <2>1. /\ UNCHANGED <<flock, owner, forgotten>>
        /\ pc[f] # "idle"
        /\ pc' = [pc EXCEPT ![f] = "ended"] \/ pc' = [pc EXCEPT ![f] = "done"]
    BY <1>6, GivingUp, Ending DEF Looking, askVars, runVars
  <2>2. QED
    BY <2>1 DEF TypeOK, OwnerInv
<1>7. ASSUME NEW f \in Fetches, Signals(f) PROVE OwnerInv'
  BY <1>7, Signalling DEF OwnerInv, Quiet, askVars
<1>8. ASSUME NEW f \in Fetches, LookupMisses(f) PROVE OwnerInv'
  <2>1. owner[f] \in Procs
    BY <1>8 DEF OwnerInv, LookupMisses, Reads
  <2>2. \/ pc' = [pc EXCEPT ![f] = "queued"] /\ flock = owner[f]
        \/ pc' = [pc EXCEPT ![f] = "done"]
    BY <1>8, <2>1 DEF LookupMisses, Answer, ProcInv
  <2>3. QED
    BY <1>8, <2>1, <2>2 DEF TypeOK, OwnerInv, LookupMisses, procVars, askVars, runVars
<1>9. ASSUME NEW f \in Fetches, LockTaken(f) \/ Staged(f) \/ Received(f) \/ Interrupted(f) \/ Published(f)
      PROVE  OwnerInv'
  <2>1. /\ UNCHANGED <<flock, owner, forgotten>>
        /\ pc[f] \in Working
        /\ \E phase \in Working \cup {"ended"} : pc' = [pc EXCEPT ![f] = phase]
    BY <1>9 DEF LockTaken, Staged, Received, Interrupted, Published, WorkerEnds,
       procVars, askVars, runVars
  <2>2. QED
    BY <2>1 DEF TypeOK, OwnerInv
<1>10. ASSUME NEW f \in Fetches, CallerLeaves(f) \/ DownloadLeaves(f) PROVE OwnerInv'
  BY <1>10 DEF OwnerInv, CallerLeaves, DownloadLeaves, procVars, askVars, runVars
<1>11. CASE UNCHANGED vars
  BY <1>11 DEF OwnerInv, vars, procVars, askVars, runVars
<1>12. ASSUME NEW f \in Fetches, Looks(f) PROVE OwnerInv'
  BY <1>12, LookingOn DEF TypeOK, OwnerInv, Looking, runVars
<1>13. QED
  BY <1>1, <1>2, <1>3, <1>4, <1>5, <1>6, <1>7, <1>8, <1>9, <1>10, <1>11, <1>12, StepCases

\* close() takes all workers there are, and no fetch becomes one behind it.
LEMMA AwaitStep ==
  TypeOK /\ ProcInv /\ OwnerInv /\ AwaitInv /\ SavedInv /\ OutcomeInv /\ LookInv /\ [Next]_vars
    => AwaitInv'
<1> SUFFICES ASSUME TypeOK, ProcInv, OwnerInv, AwaitInv, SavedInv, OutcomeInv, LookInv, [Next]_vars
             PROVE  AwaitInv'
  OBVIOUS
<1> USE DEF Working, Inside
<1>1. ASSUME UNCHANGED <<proc, owner, pc, forgotten, awaited>> PROVE AwaitInv'
  BY <1>1 DEF AwaitInv
<1>2. ASSUME NEW p \in Procs, StartProcess(p) \/ CloseReleases(p) PROVE AwaitInv'
  <2>1. /\ UNCHANGED <<owner, pc, forgotten, awaited>>
        /\ proc' = [proc EXCEPT ![p] = "up"] \/ proc' = [proc EXCEPT ![p] = "exited"]
    BY <1>2 DEF StartProcess, CloseReleases, askVars, runVars
  <2>2. \A f \in Fetches : pc[f] \in Working => owner[f] \in Procs
    BY DEF OwnerInv
  <2>3. QED
    BY <2>1, <2>2 DEF TypeOK, AwaitInv
<1>3. ASSUME NEW p \in Procs, Close(p) PROVE AwaitInv'
  BY <1>3 DEF TypeOK, AwaitInv, Close, WorkersOf, askVars
<1>4. ASSUME NEW p \in Procs, Killed(p) PROVE AwaitInv'
  <2>1. \A f \in Fetches : pc'[f] \in {"dead", pc[f]}
    BY <1>4 DEF Killed
  <2>2. QED
    BY <1>4, <2>1 DEF TypeOK, AwaitInv, Killed, askVars
<1>5. ASSUME NEW f \in Fetches, NEW p \in Procs, NEW r \in BOOLEAN, Begin(f, p, r) PROVE AwaitInv'
  <2>1. /\ UNCHANGED <<proc, forgotten, awaited>> /\ owner' = [owner EXCEPT ![f] = p]
        /\ \/ \E phase \in {"done", "verifying"} : pc' = [pc EXCEPT ![f] = phase]
           \/ pc' = [pc EXCEPT ![f] = "queued"] /\ proc[p] = "up"
    BY <1>5 DEF Begin, Answer, procVars, runVars
  <2>2. QED
    BY <2>1 DEF TypeOK, AwaitInv
<1>6. ASSUME NEW f \in Fetches, GivesUp(f) \/ Ends(f) \/ Looks(f) PROVE AwaitInv'
  <2>1. /\ UNCHANGED <<proc, owner, forgotten, awaited>>
        /\ \E phase \in {"ended", "done"} \cup Looking : pc' = [pc EXCEPT ![f] = phase]
    <3>1. CASE GivesUp(f) \/ Ends(f)
      BY <3>1, GivingUp, Ending DEF askVars, runVars
    <3>2. CASE Looks(f)
      BY <3>2, LookingOn DEF runVars
    <3>3. QED
      BY <1>6, <3>1, <3>2
  <2>2. QED
    BY <2>1 DEF TypeOK, AwaitInv, Looking
<1>7. ASSUME NEW f \in Fetches, Signals(f) PROVE AwaitInv'
  BY <1>1, <1>7 DEF Signals, CallerCancelled, DeadlinePasses, RequestEnds, Tampered,
     procVars, askVars, runVars
<1>8. ASSUME NEW f \in Fetches, LookupMisses(f) PROVE AwaitInv'
  <2>1. /\ UNCHANGED <<proc, owner, forgotten, awaited>>
        /\ \/ pc' = [pc EXCEPT ![f] = "queued"] /\ proc[owner[f]] = "up"
           \/ pc' = [pc EXCEPT ![f] = "done"]
    BY <1>8 DEF LookupMisses, Answer, procVars, runVars
  <2>2. QED
    BY <2>1 DEF TypeOK, AwaitInv
<1>9. ASSUME NEW f \in Fetches, LockTaken(f) \/ Staged(f) \/ Received(f) \/ Interrupted(f) \/ Published(f)
      PROVE  AwaitInv'
  <2>1. /\ UNCHANGED <<proc, owner, forgotten, awaited>>
        /\ pc[f] \in Working
        /\ \E phase \in Working \cup {"ended"} : pc' = [pc EXCEPT ![f] = phase]
    BY <1>9 DEF LockTaken, Staged, Received, Interrupted, Published, WorkerEnds,
       procVars, askVars, runVars
  <2>2. QED
    BY <2>1 DEF TypeOK, AwaitInv
<1>10. ASSUME NEW f \in Fetches, CallerLeaves(f) \/ DownloadLeaves(f) PROVE AwaitInv'
  BY <1>10 DEF AwaitInv, CallerLeaves, DownloadLeaves, procVars, askVars, runVars
<1>11. CASE UNCHANGED vars
  BY <1>1, <1>11 DEF vars, procVars, askVars, runVars
<1>12. QED
  BY <1>2, <1>3, <1>4, <1>5, <1>6, <1>7, <1>8, <1>9, <1>10, <1>11, StepCases

\* The download lock is taken when it is free and given back at the end.
LEMMA LockStep ==
  TypeOK /\ OwnerInv /\ LockInv /\ SavedInv /\ OutcomeInv /\ LookInv /\ [Next]_vars => LockInv'
<1> SUFFICES ASSUME TypeOK, OwnerInv, LockInv, SavedInv, OutcomeInv, LookInv, [Next]_vars
             PROVE  LockInv'
  OBVIOUS
<1> USE DEF Inside
<1>1. ASSUME UNCHANGED <<dlock, owner, pc>> PROVE LockInv'
  BY <1>1 DEF LockInv
<1>2. ASSUME NEW p \in Procs, StartProcess(p) \/ Close(p) \/ CloseReleases(p) PROVE LockInv'
  BY <1>1, <1>2 DEF StartProcess, Close, CloseReleases, askVars
<1>3. ASSUME NEW p \in Procs, Killed(p) PROVE LockInv'
  BY <1>3 DEF LockInv, Killed, askVars
<1>4. ASSUME NEW f \in Fetches, NEW p \in Procs, NEW r \in BOOLEAN, Begin(f, p, r) PROVE LockInv'
  <2>1. /\ \E phase \in {"done", "verifying", "queued"} : pc' = [pc EXCEPT ![f] = phase]
        /\ owner' = [owner EXCEPT ![f] = p]
        /\ UNCHANGED dlock
    BY <1>4, Beginning
  <2>2. QED
    BY <2>1 DEF TypeOK, LockInv
<1>5. ASSUME NEW f \in Fetches, GivesUp(f) PROVE LockInv'
  <2>1. /\ pc' = [pc EXCEPT ![f] = "ended"]
        /\ dlock' = [dlock EXCEPT ![owner[f]] = IF @ = f THEN Nobody ELSE @]
        /\ UNCHANGED owner
    BY <1>5, GivingUp DEF Unlocked, askVars
  <2>2. ASSUME NEW g \in Fetches \ {f}, pc[g] \in Inside PROVE dlock'[owner[g]] = g
    BY <2>1, <2>2 DEF TypeOK, LockInv
  <2>3. QED
    BY <2>1, <2>2 DEF TypeOK, LockInv
<1>6. ASSUME NEW f \in Fetches, Published(f) PROVE LockInv'
  <2>1. /\ pc' = [pc EXCEPT ![f] = "ended"]
        /\ dlock' = [dlock EXCEPT ![owner[f]] = IF @ = f THEN Nobody ELSE @]
        /\ UNCHANGED owner
    BY <1>6 DEF Published, Unlocked, WorkerEnds, askVars
  <2>2. ASSUME NEW g \in Fetches \ {f}, pc[g] \in Inside PROVE dlock'[owner[g]] = g
    BY <2>1, <2>2 DEF TypeOK, LockInv
  <2>3. QED
    BY <2>1, <2>2 DEF TypeOK, LockInv
<1>7. ASSUME NEW f \in Fetches, Ends(f) \/ Looks(f) PROVE LockInv'
  BY <1>7, Ending, LookingOn DEF TypeOK, LockInv, Looking, askVars
<1>8. ASSUME NEW f \in Fetches, Signals(f) PROVE LockInv'
  BY <1>1, <1>8, Signalling DEF Quiet, askVars
<1>9. ASSUME NEW f \in Fetches, LookupMisses(f) PROVE LockInv'
  BY <1>9 DEF TypeOK, LockInv, LookupMisses, Answer, procVars, askVars
<1>10. ASSUME NEW f \in Fetches, LockTaken(f) PROVE LockInv'
  <2>1. owner[f] \in Procs
    BY <1>10 DEF OwnerInv, LockTaken
  <2>2. /\ dlock[owner[f]] = Nobody
        /\ dlock' = [dlock EXCEPT ![owner[f]] = f]
        /\ pc' = [pc EXCEPT ![f] = "locked"]
        /\ UNCHANGED owner
    BY <1>10 DEF LockTaken, askVars
  <2>3. ASSUME NEW g \in Fetches \ {f}, pc[g] \in Inside PROVE dlock'[owner[g]] = g
    <3>1. dlock[owner[g]] = g /\ g # Nobody
      BY <2>3, StoreAssumption DEF LockInv
    <3>2. QED
      BY <2>2, <3>1 DEF TypeOK
  <2>4. dlock'[owner[f]] = f
    BY <2>1, <2>2 DEF TypeOK
  <2>5. QED
    BY <2>2, <2>3, <2>4 DEF TypeOK, LockInv
<1>11. ASSUME NEW f \in Fetches, Staged(f) \/ Received(f) \/ Interrupted(f) PROVE LockInv'
  <2>1. /\ pc[f] \in Inside
        /\ \E phase \in Inside : pc' = [pc EXCEPT ![f] = phase]
        /\ UNCHANGED <<dlock, owner>>
    BY <1>11 DEF Staged, Received, Interrupted, procVars, askVars
  <2>2. QED
    BY <2>1 DEF TypeOK, LockInv
<1>12. ASSUME NEW f \in Fetches, CallerLeaves(f) \/ DownloadLeaves(f) PROVE LockInv'
  BY <1>1, <1>12 DEF CallerLeaves, DownloadLeaves, procVars, askVars
<1>13. CASE UNCHANGED vars
  BY <1>1, <1>13 DEF vars, procVars, askVars
<1>14. QED
  BY <1>2, <1>3, <1>4, <1>5, <1>6, <1>7, <1>8, <1>9, <1>10, <1>11, <1>12, <1>13, StepCases

\* Directories appear and disappear with the phases of the worker they are of.
LEMMA SavedStep ==
  TypeOK /\ SavedInv /\ OutcomeInv /\ LookInv /\ [Next]_vars => SavedInv'
<1> SUFFICES ASSUME TypeOK, SavedInv, OutcomeInv, LookInv, [Next]_vars
             PROVE  SavedInv'
  OBVIOUS
<1> USE DEF Working, Inside
<1>1. ASSUME UNCHANGED <<pc, ending, published, staging>> PROVE SavedInv'
  BY <1>1 DEF SavedInv
<1>2. ASSUME NEW p \in Procs, StartProcess(p) \/ Close(p) \/ CloseReleases(p) PROVE SavedInv'
  BY <1>1, <1>2 DEF StartProcess, Close, CloseReleases, endVars, diskVars
<1>3. ASSUME NEW p \in Procs, Killed(p) PROVE SavedInv'
  <2>1. \A f \in Fetches : pc'[f] \in {"dead", pc[f]}
    BY <1>3 DEF Killed
  <2>2. QED
    BY <1>3, <2>1 DEF SavedInv, Killed, endVars, diskVars
<1>4. ASSUME NEW f \in Fetches, NEW p \in Procs, NEW r \in BOOLEAN, Begin(f, p, r) PROVE SavedInv'
  <2>1. /\ pc[f] = "idle"
        /\ \E phase \in {"done", "verifying", "queued"} : pc' = [pc EXCEPT ![f] = phase]
        /\ UNCHANGED <<ending, published, staging>>
    BY <1>4, Beginning DEF diskVars
  <2>2. QED
    BY <2>1 DEF TypeOK, SavedInv
<1>5. ASSUME NEW f \in Fetches, GivesUp(f) PROVE SavedInv'
  BY <1>5, GivingUp DEF TypeOK, SavedInv
<1>6. ASSUME NEW f \in Fetches, Ends(f) \/ Looks(f) PROVE SavedInv'
  <2>1. CASE Ends(f)
    BY <2>1, Ending DEF TypeOK, SavedInv, Looking, diskVars
  <2>2. CASE Looks(f)
    BY <2>2, LookingOn DEF TypeOK, SavedInv, Looking, diskVars
  <2>3. QED
    BY <1>6, <2>1, <2>2
<1>7. ASSUME NEW f \in Fetches, Signals(f) PROVE SavedInv'
  BY <1>1, <1>7, Signalling DEF Quiet, endVars
<1>8. ASSUME NEW f \in Fetches, LookupMisses(f) PROVE SavedInv'
  BY <1>8 DEF TypeOK, SavedInv, LookupMisses, Reads, Answer, diskVars
<1>9. ASSUME NEW f \in Fetches, LockTaken(f) \/ Received(f) PROVE SavedInv'
  BY <1>9 DEF TypeOK, SavedInv, LockTaken, Received, endVars, diskVars
<1>10. ASSUME NEW f \in Fetches, Staged(f) PROVE SavedInv'
  <2>1. f \notin published
    BY <1>10 DEF SavedInv, Staged
  <2>2. QED
    BY <1>10, <2>1 DEF TypeOK, SavedInv, Staged, endVars
<1>11. ASSUME NEW f \in Fetches, Interrupted(f) PROVE SavedInv'
  BY <1>11 DEF TypeOK, SavedInv, Interrupted, diskVars
<1>12. ASSUME NEW f \in Fetches, Published(f) PROVE SavedInv'
  BY <1>12 DEF TypeOK, SavedInv, Published, WorkerEnds
<1>13. ASSUME NEW f \in Fetches, CallerLeaves(f) \/ DownloadLeaves(f) PROVE SavedInv'
  BY <1>1, <1>13 DEF CallerLeaves, DownloadLeaves, endVars, diskVars
<1>14. CASE UNCHANGED vars
  BY <1>1, <1>14 DEF vars, endVars, diskVars
<1>15. QED
  BY <1>2, <1>3, <1>4, <1>5, <1>6, <1>7, <1>8, <1>9, <1>10, <1>11, <1>12, <1>13, <1>14, StepCases

\* A fetch is told something at its end, or when it leaves its worker.
LEMMA OutcomeStep ==
  TypeOK /\ SavedInv /\ OutcomeInv /\ LookInv /\ [Next]_vars => OutcomeInv'
<1> SUFFICES ASSUME TypeOK, SavedInv, OutcomeInv, LookInv, [Next]_vars
             PROVE  OutcomeInv'
  OBVIOUS
<1> USE DEF Working, Inside, Looking, Live
<1>1. ASSUME UNCHANGED <<pc, outcome, published, forgotten>> PROVE OutcomeInv'
  BY <1>1 DEF OutcomeInv
<1>2. ASSUME NEW p \in Procs, StartProcess(p) \/ Close(p) \/ CloseReleases(p) PROVE OutcomeInv'
  BY <1>1, <1>2 DEF StartProcess, Close, CloseReleases, endVars, diskVars, runVars
<1>3. ASSUME NEW p \in Procs, Killed(p) PROVE OutcomeInv'
  <2>1. \A f \in Fetches : pc'[f] = IF owner[f] = p /\ pc[f] \in Live THEN "dead" ELSE pc[f]
    BY <1>3 DEF Killed
  <2>2. QED
    BY <1>3, <2>1 DEF OutcomeInv, Killed, endVars, diskVars
<1>4. ASSUME NEW f \in Fetches, NEW p \in Procs, NEW r \in BOOLEAN, Begin(f, p, r) PROVE OutcomeInv'
  <2>1. f \notin published
    BY <1>4, Beginning DEF SavedInv
  <2>2. /\ UNCHANGED <<published, forgotten>>
        /\ \/ pc' = [pc EXCEPT ![f] = "done"]
              /\ outcome' = [outcome EXCEPT ![f] = IF outcome[f] = "none" THEN "error" ELSE outcome[f]]
           \/ /\ \E phase \in {"verifying", "queued"} : pc' = [pc EXCEPT ![f] = phase]
              /\ UNCHANGED outcome
    BY <1>4, Beginning DEF diskVars, runVars
  <2>3. pc[f] = "idle"
    BY <1>4, Beginning
  <2>4. QED
    BY <2>1, <2>2, <2>3 DEF TypeOK, OutcomeInv
<1>5. ASSUME NEW f \in Fetches, GivesUp(f) PROVE OutcomeInv'
  BY <1>5, GivingUp DEF TypeOK, OutcomeInv
<1>6. ASSUME NEW f \in Fetches, Ends(f) \/ Looks(f) PROVE OutcomeInv'
  <2>1. CASE Ends(f)
    BY <2>1, Ending DEF TypeOK, OutcomeInv, diskVars, runVars
  <2>2. CASE Looks(f)
    BY <2>2, LookingOn DEF TypeOK, OutcomeInv, Looking, diskVars, runVars
  <2>3. QED
    BY <1>6, <2>1, <2>2
<1>7. ASSUME NEW f \in Fetches, Signals(f) PROVE OutcomeInv'
  BY <1>1, <1>7, Signalling DEF Quiet, endVars
<1>8. ASSUME NEW f \in Fetches, LookupMisses(f) PROVE OutcomeInv'
  <2>1. f \notin published
    BY <1>8 DEF SavedInv, LookupMisses, Reads
  <2>2. QED
    BY <1>8, <2>1 DEF TypeOK, OutcomeInv, LookupMisses, Reads, Answer, diskVars, runVars
<1>9. ASSUME NEW f \in Fetches, LockTaken(f) \/ Staged(f) \/ Received(f) \/ Interrupted(f)
      PROVE  OutcomeInv'
  <2>1. /\ pc[f] # "done"
        /\ \E phase \in Inside : pc' = [pc EXCEPT ![f] = phase]
        /\ UNCHANGED <<outcome, published, forgotten>>
    BY <1>9 DEF LockTaken, Staged, Received, Interrupted, endVars, diskVars, runVars
  <2>2. QED
    BY <2>1 DEF TypeOK, OutcomeInv
<1>10. ASSUME NEW f \in Fetches, Published(f) PROVE OutcomeInv'
  BY <1>10 DEF TypeOK, OutcomeInv, Published, WorkerEnds, runVars
<1>11. ASSUME NEW f \in Fetches, CallerLeaves(f) PROVE OutcomeInv'
  BY <1>11 DEF TypeOK, OutcomeInv, CallerLeaves, diskVars, runVars
<1>12. ASSUME NEW f \in Fetches, DownloadLeaves(f) PROVE OutcomeInv'
  BY <1>12 DEF TypeOK, OutcomeInv, DownloadLeaves, diskVars
<1>13. CASE UNCHANGED vars
  BY <1>1, <1>13 DEF vars, endVars, diskVars, runVars
<1>14. QED
  BY <1>2, <1>3, <1>4, <1>5, <1>6, <1>7, <1>8, <1>9, <1>10, <1>11, <1>12, <1>13, StepCases

\* What was saved stays, nobody changes what was asked for, and what was
\* altered stays so: a lookup that passes a piece has not found it altered.
LEMMA LookStep ==
  TypeOK /\ SavedInv /\ OutcomeInv /\ LookInv /\ [Next]_vars => LookInv'
<1> SUFFICES ASSUME TypeOK, SavedInv, OutcomeInv, LookInv, [Next]_vars
             PROVE  LookInv'
  OBVIOUS
<1>1. ASSUME published \subseteq published', UNCHANGED <<want, lookVars>>,
             \A s \in Fetches : altered[s] \subseteq altered'[s],
             \A f \in Fetches : pc'[f] \in {"idle", "verifying", "hashing"} => pc[f] = pc'[f]
      PROVE  LookInv'
  <2>1. \A f \in Fetches : kept[f] \subseteq Fetches
    BY DEF TypeOK
  <2>2. QED
    BY <1>1, <2>1 DEF LookInv, lookVars
<1>2. ASSUME NEW p \in Procs, StartProcess(p) \/ Close(p) \/ CloseReleases(p) \/ Killed(p)
      PROVE  LookInv'
  <2>1. UNCHANGED <<published, altered, want, lookVars>>
    BY <1>2 DEF StartProcess, Close, CloseReleases, Killed, askVars, diskVars
  <2>2. \A f \in Fetches : pc'[f] \in {"dead", pc[f]}
    BY <1>2 DEF StartProcess, Close, CloseReleases, Killed
  <2>3. QED
    BY <1>1, <2>1, <2>2
<1>3. ASSUME NEW f \in Fetches, NEW p \in Procs, NEW r \in BOOLEAN, Begin(f, p, r) PROVE LookInv'
  <2>1. /\ UNCHANGED <<published, altered, want, kept, chosen, found, hashed>>
        /\ listed' = listed \/ listed' = [listed EXCEPT ![f] = Candidates(f)]
    BY <1>3, Beginning DEF diskVars
  <2>2. /\ pc[f] = "idle"
        /\ \E phase \in {"done", "verifying", "queued"} : pc' = [pc EXCEPT ![f] = phase]
    BY <1>3, Beginning
  <2>3. hashed[f] = 0
    BY <2>2 DEF LookInv
  <2>4. \A g \in Fetches : listed'[g] = listed[g] \/ (g = f /\ listed'[g] = Candidates(f))
    BY <2>1 DEF TypeOK
  <2>5. \A g \in Fetches : pc'[g] = pc[g] \/ (g = f /\ pc'[g] \in {"done", "verifying", "queued"})
    BY <2>2 DEF TypeOK
  <2>6. QED
    BY <2>1, <2>3, <2>4, <2>5 DEF LookInv, Candidates
<1>4. ASSUME NEW f \in Fetches, GivesUp(f) \/ Ends(f) PROVE LookInv'
  <2>1. UNCHANGED <<published, altered, want, lookVars>>
    BY <1>4, GivingUp, Ending DEF askVars, diskVars
  <2>2. pc' = [pc EXCEPT ![f] = "ended"] \/ pc' = [pc EXCEPT ![f] = "done"]
    BY <1>4, GivingUp, Ending
  <2>3. QED
    BY <1>1, <2>1, <2>2 DEF TypeOK
<1>5. ASSUME NEW f \in Fetches, Signals(f) PROVE LookInv'
  <2>1. UNCHANGED <<published, want, lookVars, pc>>
    BY <1>5, Signalling DEF Quiet, askVars
  <2>2. \A s \in Fetches : altered[s] \subseteq altered'[s]
    BY <1>5 DEF TypeOK, Signals, CallerCancelled, DeadlinePasses, RequestEnds, Tampered, diskVars
  <2>3. QED
    BY <1>1, <2>1, <2>2
<1>6. ASSUME NEW f \in Fetches,
             \/ LockTaken(f) \/ Staged(f) \/ Received(f) \/ Interrupted(f) \/ Published(f)
      PROVE  LookInv'
  <2>1. published \subseteq published' /\ UNCHANGED <<altered, want, lookVars>>
    BY <1>6 DEF LockTaken, Staged, Received, Interrupted, Published, askVars, diskVars
  <2>2. \E phase \in Inside \cup {"ended"} : pc' = [pc EXCEPT ![f] = phase]
    BY <1>6 DEF LockTaken, Staged, Received, Interrupted, Published, WorkerEnds, Inside
  <2>3. QED
    BY <1>1, <2>1, <2>2 DEF TypeOK, Inside
<1>7. ASSUME NEW f \in Fetches, CallerLeaves(f) \/ DownloadLeaves(f) PROVE LookInv'
  BY <1>1, <1>7 DEF CallerLeaves, DownloadLeaves, askVars, diskVars
<1>8. ASSUME NEW f \in Fetches, NEW s \in listed[f], Read(f, s)
      PROVE  /\ \A g \in Fetches : listed'[g] \cup kept'[g] \subseteq listed[g] \cup kept[g]
             /\ \A g \in Fetches : kept[g] \subseteq kept'[g]
             /\ kept'[f] = KeptWith(f, s)
  BY <1>8 DEF TypeOK, Read, KeptWith
<1>9. ASSUME NEW f \in Fetches, ManifestRead(f) \/ LookupMisses(f) PROVE LookInv'
  <2>1. PICK s \in listed[f] : Read(f, s)
    BY <1>9 DEF ManifestRead, LookupMisses
  <2>2. /\ UNCHANGED <<published, altered, want, chosen, found, hashed>>
        /\ UNCHANGED pc \/ \E phase \in {"done", "queued"} : pc' = [pc EXCEPT ![f] = phase]
    BY <1>9 DEF ManifestRead, LookupMisses, Answer, diskVars
  <2>3. \A g \in Fetches : pc'[g] = pc[g] \/ pc'[g] \in {"done", "queued"}
    BY <2>2 DEF TypeOK
  <2>4. QED
    BY <1>8, <2>1, <2>2, <2>3 DEF LookInv
<1>10. ASSUME NEW f \in Fetches, NewestChosen(f) PROVE LookInv'
  <2>1. PICK s \in listed[f] :
          /\ Read(f, s)
          /\ \E c \in Newest(KeptWith(f, s)) :
               /\ chosen' = [chosen EXCEPT ![f] = c]
               /\ found' = [found EXCEPT ![f] = altered[c]]
    BY <1>10 DEF NewestChosen
  <2>2. PICK c \in Newest(KeptWith(f, s)) :
          /\ chosen' = [chosen EXCEPT ![f] = c]
          /\ found' = [found EXCEPT ![f] = altered[c]]
    BY <2>1
  <2>3. /\ UNCHANGED <<published, altered, want, hashed>>
        /\ pc[f] = "verifying" /\ pc' = [pc EXCEPT ![f] = "hashing"]
    BY <1>10 DEF NewestChosen, Reads, diskVars
  <2>4. c \in KeptWith(f, s) /\ hashed[f] = 0
    BY <2>2, <2>3 DEF LookInv, Newest
  <2>5. c \in Fetches
    BY <1>8, <2>1, <2>4 DEF TypeOK, KeptWith
  <2>6. /\ chosen'[f] = c /\ found'[f] = altered[c]
        /\ \A g \in Fetches \ {f} : chosen'[g] = chosen[g] /\ found'[g] = found[g]
    BY <2>2 DEF TypeOK
  <2>7. \A n \in altered[c] : n > 0
    BY <2>5 DEF TypeOK
  <2>8. /\ pc'[f] = "hashing" /\ \A g \in Fetches \ {f} : pc'[g] = pc[g]
    BY <2>3 DEF TypeOK
  <2>9. QED
    BY <1>8, <2>1, <2>3, <2>4, <2>6, <2>7, <2>8 DEF LookInv
<1>11. ASSUME NEW f \in Fetches, PieceHashed(f) PROVE LookInv'
  <2>1. /\ UNCHANGED <<published, altered, want, listed, kept, chosen, found, pc>>
        /\ pc[f] = "hashing" /\ hashed[f] + 1 \notin altered[chosen[f]]
        /\ hashed' = [hashed EXCEPT ![f] = hashed[f] + 1]
    BY <1>11 DEF PieceHashed, Hashes, diskVars
  <2>2. ASSUME NEW n \in found[f] PROVE n > hashed[f] + 1
    <3>1. n > hashed[f] /\ n \in altered[chosen[f]] /\ n \in 1..Pieces /\ hashed[f] \in 0..Pieces
      BY <2>1, <2>2 DEF TypeOK, LookInv
    <3>2. n # hashed[f] + 1
      BY <2>1, <3>1
    <3>3. QED
      BY <3>1, <3>2, StoreAssumption
  <2>3. hashed'[f] = hashed[f] + 1 /\ \A g \in Fetches \ {f} : hashed'[g] = hashed[g]
    BY <2>1 DEF TypeOK
  <2>4. QED
    BY <2>1, <2>2, <2>3 DEF LookInv
<1>12. CASE UNCHANGED vars
  BY <1>1, <1>12 DEF vars, askVars, diskVars
<1>13. QED
  BY <1>2, <1>3, <1>4, <1>5, <1>6, <1>7, <1>9, <1>10, <1>11, <1>12, StepCases DEF Looks

\* Nobody is forgotten before the deadline, and past it nothing is published.
LEMMA LeaveStep ==
  TypeOK /\ SavedInv /\ OutcomeInv /\ LookInv /\ LeaveInv /\ [Next]_vars => LeaveInv'
<1> SUFFICES ASSUME TypeOK, SavedInv, OutcomeInv, LookInv, LeaveInv, [Next]_vars
             PROVE  LeaveInv'
  OBVIOUS
<1>1. ASSUME UNCHANGED <<outcome, published, forgotten, gaveUp, expired>>,
             \A f \in Fetches : pc[f] = "done" => pc'[f] = "done"
      PROVE  LeaveInv'
  BY <1>1 DEF LeaveInv
<1>2. ASSUME NEW p \in Procs, StartProcess(p) \/ Close(p) \/ CloseReleases(p) PROVE LeaveInv'
  BY <1>1, <1>2 DEF StartProcess, Close, CloseReleases, endVars, diskVars, runVars
<1>3. ASSUME NEW p \in Procs, Killed(p) PROVE LeaveInv'
  <2>1. \A f \in Fetches : pc[f] = "done" => pc'[f] = "done"
    BY <1>3 DEF Killed, Live, Looking, Working, Inside
  <2>2. QED
    BY <1>1, <1>3, <2>1 DEF Killed, endVars, diskVars
<1>4. ASSUME NEW f \in Fetches, NEW p \in Procs, NEW r \in BOOLEAN, Begin(f, p, r) PROVE LeaveInv'
  <2>1. /\ UNCHANGED <<published, forgotten, gaveUp, expired>>
        /\ pc[f] = "idle"
        /\ \/ pc' = [pc EXCEPT ![f] = "done"]
              /\ \E o \in {"error", outcome[f]} : outcome' = [outcome EXCEPT ![f] = o]
           \/ /\ \E phase \in {"verifying", "queued"} : pc' = [pc EXCEPT ![f] = phase]
              /\ UNCHANGED outcome
    BY <1>4, Beginning DEF diskVars, runVars
  <2>2. QED
    BY <2>1 DEF TypeOK, LeaveInv
<1>5. ASSUME NEW f \in Fetches, GivesUp(f) PROVE LeaveInv'
  <2>1. /\ UNCHANGED <<outcome, published, forgotten, gaveUp, expired>>
        /\ pc' = [pc EXCEPT ![f] = "ended"] /\ pc[f] # "done"
    BY <1>5, GivingUp DEF Working, Inside
  <2>2. QED
    BY <1>1, <2>1 DEF TypeOK
<1>6. ASSUME NEW f \in Fetches, Ends(f) PROVE LeaveInv'
  <2>1. /\ UNCHANGED <<published, forgotten, gaveUp, expired>>
        /\ pc' = [pc EXCEPT ![f] = "done"]
        /\ \E o : outcome' = [outcome EXCEPT ![f] = o]
    BY <1>6, Ending DEF diskVars, runVars
  <2>2. QED
    BY <2>1 DEF TypeOK, LeaveInv
<1>7. ASSUME NEW f \in Fetches, Signals(f) PROVE LeaveInv'
  <2>1. /\ UNCHANGED <<pc, outcome, published, forgotten>>
        /\ gaveUp' = gaveUp \/ gaveUp' = [gaveUp EXCEPT ![f] = TRUE]
        /\ expired' = expired \/ expired' = [expired EXCEPT ![f] = TRUE]
    BY <1>7 DEF Signals, CallerCancelled, DeadlinePasses, RequestEnds, Tampered,
       diskVars, endVars, runVars
  <2>2. QED
    BY <2>1 DEF TypeOK, LeaveInv
<1>8. ASSUME NEW f \in Fetches, LookupMisses(f) PROVE LeaveInv'
  <2>1. /\ UNCHANGED <<published, forgotten, gaveUp, expired>>
        /\ \/ pc' = [pc EXCEPT ![f] = "done"]
              /\ \E o : outcome' = [outcome EXCEPT ![f] = o]
           \/ pc[f] = "verifying" /\ pc' = [pc EXCEPT ![f] = "queued"] /\ UNCHANGED outcome
    BY <1>8 DEF LookupMisses, Reads, Answer, diskVars, runVars
  <2>2. QED
    BY <2>1 DEF TypeOK, LeaveInv
<1>9. ASSUME NEW f \in Fetches, LockTaken(f) \/ Staged(f) \/ Received(f) \/ Interrupted(f)
      PROVE  LeaveInv'
  <2>1. /\ UNCHANGED <<outcome, published, forgotten, gaveUp, expired>>
        /\ pc[f] # "done" /\ \E phase : pc' = [pc EXCEPT ![f] = phase]
    BY <1>9 DEF LockTaken, Staged, Received, Interrupted, endVars, diskVars, runVars
  <2>2. QED
    BY <1>1, <2>1 DEF TypeOK
<1>10. ASSUME NEW f \in Fetches, Published(f) PROVE LeaveInv'
  <2>1. /\ UNCHANGED <<outcome, forgotten, gaveUp, expired>> /\ published' = published \cup {f}
        /\ ~expired[f] /\ pc[f] # "done" /\ pc' = [pc EXCEPT ![f] = "ended"]
    BY <1>10 DEF Published, WorkerEnds, runVars
  <2>2. QED
    BY <2>1 DEF TypeOK, LeaveInv
<1>11. ASSUME NEW f \in Fetches, CallerLeaves(f) PROVE LeaveInv'
  <2>1. /\ UNCHANGED <<pc, published, forgotten, gaveUp, expired>>
        /\ gaveUp[f] /\ outcome' = [outcome EXCEPT ![f] = "cancelled"]
    BY <1>11 DEF CallerLeaves, diskVars, runVars
  <2>2. QED
    BY <2>1 DEF TypeOK, LeaveInv
<1>12. ASSUME NEW f \in Fetches, DownloadLeaves(f) PROVE LeaveInv'
  <2>1. /\ UNCHANGED <<pc, published, gaveUp, expired>> /\ forgotten' = forgotten \cup {f}
        /\ expired[f] /\ outcome' = [outcome EXCEPT ![f] = "timeout"]
    BY <1>12 DEF DownloadLeaves, diskVars
  <2>2. f \notin published
    BY <1>12 DEF DownloadLeaves, SavedInv, Working, Inside
  <2>3. QED
    BY <2>1, <2>2 DEF TypeOK, LeaveInv
<1>13. CASE UNCHANGED vars
  BY <1>1, <1>13 DEF vars, endVars, diskVars, runVars
<1>14. ASSUME NEW f \in Fetches, Looks(f) PROVE LeaveInv'
  <2>1. /\ UNCHANGED <<outcome, published, forgotten, gaveUp, expired>>
        /\ pc[f] # "done" /\ \E phase : pc' = [pc EXCEPT ![f] = phase]
    BY <1>14, LookingOn DEF Looking, diskVars, runVars
  <2>2. QED
    BY <1>1, <2>1 DEF TypeOK
<1>15. QED
  BY <1>2, <1>3, <1>4, <1>5, <1>6, <1>7, <1>8, <1>9, <1>10, <1>11, <1>12, <1>13, <1>14, StepCases

------------------------------------------------------------------------------
(* The invariant.                                                            *)

LEMMA Initially == Init => IInv
<1> SUFFICES ASSUME Init PROVE IInv
  OBVIOUS
<1>1. TypeOK
  BY StoreAssumption DEF Init, TypeOK, Live, Working, Inside
<1>2. ProcInv /\ OwnerInv /\ AwaitInv /\ LockInv
  BY StoreAssumption DEF Init, ProcInv, OwnerInv, AwaitInv, LockInv, Working, Inside
<1>3. SavedInv /\ OutcomeInv /\ LookInv /\ LeaveInv
  BY DEF Init, SavedInv, OutcomeInv, LookInv, LeaveInv
<1>4. QED
  BY <1>1, <1>2, <1>3 DEF IInv

LEMMA Inductive == IInv /\ [Next]_vars => IInv'
  BY TypeStep, ProcStep, OwnerStep, AwaitStep, LockStep, SavedStep, OutcomeStep, LookStep, LeaveStep
     DEF IInv

LEMMA Invariance == Spec => []IInv
  BY Initially, Inductive, PTL DEF Spec

------------------------------------------------------------------------------
(* What the runs check.                                                      *)

\* Every variable keeps its type.
THEOREM TypeCorrect == Spec => []TypeOK
<1>1. IInv => TypeOK
  BY DEF IInv
<1>2. QED
  BY <1>1, Invariance, PTL

\* With a wait_for that waits: at most one acquisition writes into the
\* directory, whichever processes were started on it and however they ended
\* (SparkEventLogAdapter._download and close).
THEOREM OneAtATime == PatientWaits => (Spec => []OneAcquisition)
<1> SUFFICES ASSUME PatientWaits PROVE Spec => []OneAcquisition
  OBVIOUS
<1>1. IInv => OneAcquisition
  <2> SUFFICES ASSUME IInv, NEW f \in Fetches, NEW g \in Fetches, pc[f] \in Inside
               PROVE  /\ flock = owner[f] /\ dlock[owner[f]] = f
                      /\ pc[g] \in Inside => f = g
    BY DEF OneAcquisition
  <2>1. /\ f \notin forgotten /\ g \notin forgotten
        /\ Inside \subseteq Working
    BY DEF IInv, OutcomeInv, Working
  <2>2. flock = owner[f] /\ dlock[owner[f]] = f
    BY <2>1 DEF IInv, OwnerInv, LockInv
  <2>3. pc[g] \in Inside => flock = owner[g] /\ dlock[owner[g]] = g
    BY <2>1 DEF IInv, OwnerInv, LockInv
  <2>4. QED
    BY <2>2, <2>3
<1>2. QED
  BY <1>1, Invariance, PTL

\* Whatever wait_for does: no acquisition leaves a staging directory behind a
\* final name, and an error means that nothing was saved.
THEOREM NothingLeft == Spec => []NoRemnants
<1>1. IInv => NoRemnants
  <2> SUFFICES ASSUME IInv, NEW f \in Fetches
               PROVE  /\ outcome[f] = "error" => f \notin published
                      /\ f \in staging =>
                           /\ f \notin published
                           /\ pc[f] \in {"receiving", "processing", "unwinding", "dead"}
                           /\ PatientWaits => outcome[f] = "none"
                           /\ outcome[f] \in {"none", "cancelled"} \/ f \in forgotten
    BY DEF NoRemnants
  <2>1. f \in staging => /\ f \notin published
                         /\ pc[f] \in {"receiving", "processing", "unwinding", "dead"}
    BY DEF IInv, SavedInv
  <2>2. QED
    BY <2>1 DEF IInv, OutcomeInv
<1>2. QED
  BY <1>1, Invariance, PTL

\* Who changes a directory of the store at a step, with a wait_for that waits.
LEMMA WriterHoldsLock ==
  ASSUME PatientWaits, IInv, [Next]_vars, NEW f \in Fetches,
         ((f \in staging) # (f \in staging')) \/ ((f \in published) # (f \in published'))
  PROVE  flock # Nobody /\ flock = owner[f]
<1> USE DEF IInv
<1>1. ASSUME UNCHANGED <<staging, published>> PROVE FALSE
  BY <1>1
<1>2. ASSUME NEW p \in Procs,
             \/ StartProcess(p) \/ Close(p) \/ CloseReleases(p) \/ Killed(p)
             \/ \E g \in Fetches, r \in BOOLEAN : Begin(g, p, r)
      PROVE  FALSE
  BY <1>1, <1>2 DEF StartProcess, Close, CloseReleases, Killed, Begin, diskVars
<1>3. ASSUME NEW g \in Fetches,
             Ends(g) \/ Looks(g) \/ LookupMisses(g) \/ LockTaken(g) \/ Received(g)
               \/ Interrupted(g) \/ CallerLeaves(g) \/ DownloadLeaves(g)
      PROVE  FALSE
  BY <1>1, <1>3, Ending, LookingOn DEF LookupMisses, LockTaken, Received, Interrupted, CallerLeaves,
     DownloadLeaves, diskVars
<1>4. ASSUME NEW g \in Fetches, Signals(g) PROVE FALSE
  BY <1>1, <1>4, Signalling DEF Quiet
<1>5. ASSUME NEW g \in Fetches, GivesUp(g) \/ Staged(g) \/ Published(g)
      PROVE  f = g /\ pc[g] \in Working
  <2>1. /\ pc[g] \in Working
        /\ \/ staging' \in {staging \ {g}, staging \cup {g}} /\ UNCHANGED published
           \/ staging' = staging \ {g} /\ published' = published \cup {g}
    BY <1>5, GivingUp DEF Staged, Published, Working, Inside
  <2>2. QED
    BY <2>1
<1>6. pc[f] \in Working
  BY <1>1, <1>2, <1>3, <1>4, <1>5, StepCases DEF vars, diskVars
<1>7. f \notin forgotten /\ pc[f] # "idle"
  BY <1>6 DEF OutcomeInv, Working, Inside
<1>8. owner[f] \in Procs /\ flock = owner[f]
  BY <1>6, <1>7 DEF OwnerInv
<1>9. QED
  BY <1>8, StoreAssumption

\* With a wait_for that waits: a directory of the store is created, removed or
\* renamed only while the process it is done for holds the lock.
THEOREM WritesGuarded == PatientWaits => (Spec => WritesUnderFlock)
<1> SUFFICES ASSUME PatientWaits PROVE Spec => WritesUnderFlock
  OBVIOUS
<1>1. IInv /\ [Next]_vars =>
        [\A f \in Fetches :
           ((f \in staging) # (f \in staging')) \/ ((f \in published) # (f \in published'))
             => flock # Nobody /\ flock = owner[f]]_vars
  BY WriterHoldsLock
<1>2. QED
  BY <1>1, Invariance, PTL DEF Spec, WritesUnderFlock

\* What a step can tell a fetch for the first time.
LEMMA ToldByStep ==
  ASSUME IInv, [Next]_vars, NEW f \in Fetches, outcome'[f] = "hit", outcome[f] = "none"
  PROVE  Ends(f)
<1> USE DEF IInv
<1>1. ASSUME UNCHANGED outcome PROVE FALSE
  BY <1>1
<1>2. ASSUME NEW p \in Procs, StartProcess(p) \/ Close(p) \/ CloseReleases(p) \/ Killed(p)
      PROVE  FALSE
  BY <1>1, <1>2 DEF StartProcess, Close, CloseReleases, Killed, endVars
<1>3. ASSUME NEW g \in Fetches, NEW p \in Procs, NEW r \in BOOLEAN, Begin(g, p, r) PROVE FALSE
  <2>1. \E o \in {"error", outcome[g]} : outcome' = [outcome EXCEPT ![g] = o] \/ outcome' = outcome
    BY <1>3, Beginning
  <2>2. QED
    BY <2>1 DEF TypeOK
<1>4. ASSUME NEW g \in Fetches, Ends(g) PROVE f = g
  BY <1>4, Ending DEF TypeOK
<1>5. ASSUME NEW g \in Fetches, GivesUp(g) \/ Signals(g) \/ Looks(g) PROVE FALSE
  BY <1>1, <1>5, GivingUp, Signalling, LookingOn DEF Quiet, endVars
<1>6. ASSUME NEW g \in Fetches,
             \/ LookupMisses(g) \/ LockTaken(g) \/ Staged(g) \/ Received(g)
             \/ Interrupted(g) \/ Published(g) \/ CallerLeaves(g) \/ DownloadLeaves(g)
      PROVE  FALSE
  BY <1>6 DEF TypeOK, LookupMisses, Answer, LockTaken, Staged, Received, Interrupted, Published,
     CallerLeaves, DownloadLeaves, endVars
<1>7. QED
  BY <1>1, <1>2, <1>3, <1>4, <1>5, <1>6, StepCases DEF vars, endVars

\* Whatever wait_for does, and whoever edits saved snapshots meanwhile, in
\* however many pieces they are hashed: what a lookup hands out was published
\* for that selection, and was as it was published when the lookup turned to
\* its files (SparkEventLogCache.lookup).
THEOREM HitsSound == Spec => HitIsSound
<1>1. ASSUME IInv, [Next]_vars, NEW f \in Fetches, outcome'[f] = "hit", outcome[f] = "none"
      PROVE  /\ got'[f] \in published /\ want[got'[f]] = want[f]
             /\ got'[f] = chosen[f] /\ found[f] = {}
  <2>1. Ends(f)
    BY <1>1, ToldByStep
  <2>2. PICK s \in published :
          /\ want[s] = want[f]
          /\ outcome' = [outcome EXCEPT ![f] = IF s = f THEN "downloaded" ELSE "hit"]
          /\ s # f => s = chosen[f] /\ found[f] = {}
          /\ got' = [got EXCEPT ![f] = s]
    BY <1>1, <2>1, Ending DEF IInv, TypeOK
  <2>3. s # f /\ got'[f] = s
    BY <1>1, <2>2 DEF IInv, TypeOK
  <2>4. QED
    BY <2>2, <2>3
<1>2. IInv /\ [Next]_vars =>
        [\A f \in Fetches :
           outcome'[f] = "hit" /\ outcome[f] = "none" =>
             LET s == got'[f]
             IN s \in published /\ want[s] = want[f] /\ s = chosen[f] /\ found[f] = {}]_vars
  BY <1>1
<1>3. QED
  BY <1>2, Invariance, PTL DEF Spec, HitIsSound

------------------------------------------------------------------------------
(* The promise.                                                              *)

LEMMA PromiseInit == Init => Promise!Init
  BY DEF Init, Promise!Init

\* Every step of the store is a step of the promise or changes nothing of it.
LEMMA PromiseStep ==
  ASSUME IInv, [Next]_vars
  PROVE  [Promise!Next]_(Promise!vars)
<1> USE DEF IInv
<1>1. ASSUME UNCHANGED <<flock, want, published, outcome, got>>
      PROVE  [Promise!Next]_(Promise!vars)
  BY <1>1 DEF Promise!vars
<1>2. ASSUME NEW p \in Procs, StartProcess(p) PROVE [Promise!Next]_(Promise!vars)
  <2>1. CASE flock' = flock
    BY <1>1, <1>2, <2>1 DEF StartProcess, askVars, diskVars, endVars
  <2>2. CASE flock = Nobody /\ flock' = p
    BY <1>2, <2>2 DEF StartProcess, askVars, diskVars, endVars, Promise!Next, Promise!Open
  <2>3. QED
    BY <1>2, <2>1, <2>2 DEF StartProcess, LockFree
<1>3. ASSUME NEW p \in Procs, CloseReleases(p) \/ Killed(p) PROVE [Promise!Next]_(Promise!vars)
  <2>1. flock # Nobody
    BY <1>3, StoreAssumption DEF ProcInv, CloseReleases, Killed
  <2>2. QED
    BY <1>3, <2>1 DEF CloseReleases, Killed, askVars, diskVars, endVars, Promise!Next, Promise!Release
<1>4. ASSUME NEW f \in Fetches, NEW how \in {"error", "timeout", "cancelled"},
             outcome[f] = "none", how = "error" => f \notin published,
             outcome' = [outcome EXCEPT ![f] = how],
             UNCHANGED <<flock, want, published, got>>
      PROVE  [Promise!Next]_(Promise!vars)
  BY <1>4 DEF Promise!Next, Promise!Fail
<1>5. ASSUME NEW f \in Fetches, NEW p \in Procs, NEW r \in BOOLEAN, Begin(f, p, r)
      PROVE  [Promise!Next]_(Promise!vars)
  <2>1. f \notin published
    BY <1>5, Beginning DEF SavedInv
  <2>2. UNCHANGED <<flock, want, published, got>>
    BY <1>5, Beginning DEF diskVars
  <2>3. \/ outcome[f] = "none" /\ outcome' = [outcome EXCEPT ![f] = "error"]
        \/ UNCHANGED outcome
    BY <1>5, Beginning DEF TypeOK
  <2>4. QED
    BY <1>1, <1>4, <2>1, <2>2, <2>3
<1>6. ASSUME NEW f \in Fetches, Ends(f) PROVE [Promise!Next]_(Promise!vars)
  <2>1. UNCHANGED <<flock, want, published>>
    BY <1>6, Ending DEF diskVars, askVars
  <2>2. outcome[f] # "none" => \A o : [outcome EXCEPT ![f] = outcome[f]] = outcome
    BY DEF TypeOK
  <2>3. CASE \E o \in {"error", "timeout", "cancelled"} :
               /\ outcome' = [outcome EXCEPT ![f] = IF outcome[f] = "none" THEN o ELSE outcome[f]]
               /\ o = "error" => f \notin published
               /\ UNCHANGED got
    BY <1>1, <1>4, <2>1, <2>2, <2>3
  <2>4. ASSUME NEW s \in published, want[s] = want[f], outcome[f] = "none",
               outcome' = [outcome EXCEPT ![f] = IF s = f THEN "downloaded" ELSE "hit"],
               got' = [got EXCEPT ![f] = s]
        PROVE  [Promise!Next]_(Promise!vars)
    <3>1. s \in Fetches
      BY DEF TypeOK
    <3>2. Promise!Give(f, s, IF s = f THEN "downloaded" ELSE "hit")
      BY <2>1, <2>4 DEF Promise!Give
    <3>3. QED
      BY <3>1, <3>2 DEF Promise!Next
  <2>5. QED
    BY <1>6, <2>3, <2>4, Ending
<1>7. ASSUME NEW f \in Fetches, Published(f) PROVE [Promise!Next]_(Promise!vars)
  <2>1. f \notin forgotten /\ outcome[f] \in {"none", "cancelled"} /\ f \notin published
    BY <1>7 DEF LeaveInv, OutcomeInv, SavedInv, Published
  <2>2. flock # Nobody
    BY <1>7, <2>1, StoreAssumption DEF OwnerInv, Published, Working, Inside
  <2>3. published' = published \cup {f} /\ UNCHANGED <<flock, want, outcome, got>>
    BY <1>7 DEF Published, askVars
  <2>4. QED
    BY <2>1, <2>2, <2>3 DEF Promise!Next, Promise!Save
<1>8. ASSUME NEW f \in Fetches, LookupMisses(f) PROVE [Promise!Next]_(Promise!vars)
  <2>1. outcome[f] = "none" /\ f \notin published
    BY <1>8 DEF SavedInv, LookupMisses, Reads
  <2>2. QED
    BY <1>1, <1>4, <1>8, <2>1 DEF LookupMisses, Answer, procVars, diskVars
<1>9. ASSUME NEW f \in Fetches, GivesUp(f) \/ Signals(f) \/ Looks(f)
      PROVE  [Promise!Next]_(Promise!vars)
  BY <1>1, <1>9, GivingUp, Signalling, LookingOn DEF Quiet, diskVars, askVars, endVars
<1>10. ASSUME NEW f \in Fetches, LockTaken(f) \/ Staged(f) \/ Received(f) \/ Interrupted(f)
       PROVE  [Promise!Next]_(Promise!vars)
  BY <1>1, <1>10 DEF LockTaken, Staged, Received, Interrupted, procVars, diskVars, askVars, endVars
<1>11. ASSUME NEW f \in Fetches, CallerLeaves(f) \/ DownloadLeaves(f)
       PROVE  [Promise!Next]_(Promise!vars)
  <2>1. UNCHANGED <<flock, want, published, got>>
    BY <1>11 DEF CallerLeaves, DownloadLeaves, procVars, diskVars, askVars
  <2>2. outcome[f] = "none"
    BY <1>11 DEF CallerLeaves, DownloadLeaves, OutcomeInv, LeaveInv, Working, Inside
  <2>3. \E how \in {"timeout", "cancelled"} : outcome' = [outcome EXCEPT ![f] = how]
    BY <1>11 DEF CallerLeaves, DownloadLeaves
  <2>4. QED
    BY <1>4, <2>1, <2>2, <2>3
<1>12. ASSUME NEW p \in Procs, Close(p) PROVE [Promise!Next]_(Promise!vars)
  BY <1>1, <1>12 DEF Close, diskVars, askVars, endVars
<1>13. CASE UNCHANGED vars
  BY <1>1, <1>13 DEF vars, procVars, diskVars, askVars, endVars
<1>14. QED
  BY <1>2, <1>3, <1>5, <1>6, <1>7, <1>8, <1>9, <1>10, <1>11, <1>12, <1>13, StepCases

\* The store implements its promise, whatever wait_for does: the directory
\* lock is the holder, what has its final name is saved.  A worker that was
\* forgotten writes without the lock, but past its deadline publishes nothing.
THEOREM PromiseKept == Spec => ImplementsPromise
<1>1. IInv /\ [Next]_vars => [Promise!Next]_(Promise!vars)
  BY PromiseStep
<1>2. QED
  BY <1>1, PromiseInit, Invariance, PTL DEF Spec, ImplementsPromise, Promise!Spec
=============================================================================
