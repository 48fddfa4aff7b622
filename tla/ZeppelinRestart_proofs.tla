----------------------- MODULE ZeppelinRestart_proofs -----------------------
(***************************************************************************)
(* Proofs about ZeppelinRestart, for any number of calls: the safety         *)
(* invariants from one inductive invariant, the guard of the restart         *)
(* request, and the refinement of the contract of InterpreterRestarts.       *)
(***************************************************************************)
EXTENDS ZeppelinRestart, TLAPS

------------------------------------------------------------------------------
(* The inductive invariant, in named parts.                                  *)

\* The task exists while the call is owned; an answer ends the call.
CallerInv == \A c \in Calls :
  /\ caller[c] = "idle" => task[c] = "none"
  /\ Owned(c) => task[c] # "none"
  /\ caller[c] = "returned" => task[c] \in {"none", "done"}
  /\ outcome[c] # "none" => caller[c] = "returned"

LockInv == SectionHoldsLock /\ LockNotLeaked

\* The socket and the inner task belong to a phase, except a PUT left behind;
\* a request is made in the phase put, for a restart whose setting is selected.
WorkInv == \A c \in Calls :
  /\ socket[c] => task[c] \in {"query", "qclose"}
  /\ inner[c] = "running" =>
       task[c] \in Section \/ (c \in Stubborn /\ server[c] # "none")
  /\ task[c] \in {"prepare", "query", "put"} => inner[c] # "none"
  /\ task[c] \in {"put", "putfinish"} => selected[c] /\ server[c] # "none"
  /\ server[c] # "none" =>
       c \in Restarts /\ task[c] \in {"put", "putfinish", "release", "done"}
  /\ task[c] \in {"release", "done"} => result[c] # "none"

\* What a restart may report, along the way to its answer.
AnswerInv == \A c \in Restarts :
  /\ result[c] # "transient" /\ outcome[c] # "transient"
  /\ task[c] = "put" /\ inner[c] = "ok" => server[c] = "performed"
  /\ task[c] = "putfinish" /\ result[c] = "none" => server[c] = "performed"
  /\ result[c] = "ok" =>
       task[c] \in {"release", "done"} /\ server[c] = "performed" /\ selected[c]
  /\ outcome[c] = "ok" =>
       task[c] = "done" /\ server[c] = "performed" /\ selected[c]

\* Once the gather is over no call has unfinished work, and then no client.
CloseInv ==
  /\ closed => closer # "none"
  /\ ~closed => closer = "none"
  /\ closer \in {"draining", "done"} => \A c \in Calls : Owned(c) => task[c] = "done"
  /\ closer = "done" => client = "none"

IInv == TypeOK /\ CallerInv /\ LockInv /\ WorkInv /\ AnswerInv /\ CloseInv

------------------------------------------------------------------------------
(* Lemmas about the helpers.                                                 *)

\* Every await of the owned task and the finally block it leaves through.
LEMMA CleanupPhases ==
  /\ Awaits = {"acquire", "prepare", "query", "put"}
  /\ CleanupOf["acquire"] = "release"
  /\ CleanupOf["prepare"] = "prejoin"
  /\ CleanupOf["query"] = "qclose"
  /\ CleanupOf["put"] = "putfinish"
BY DEF CleanupOf, Awaits

\* The two ways a call can begin, with all they leave alone.
LEMMA BeginEffect ==
  ASSUME NEW c \in Calls, Begin(c)
  PROVE  /\ caller[c] = "idle"
         /\ \/ /\ closed
               /\ caller' = [caller EXCEPT ![c] = "returned"]
               /\ outcome' = [outcome EXCEPT ![c] = "cancelled"]
               /\ task' = task
            \/ /\ ~closed
               /\ caller' = [caller EXCEPT ![c] = "awaiting"]
               /\ task' = [task EXCEPT ![c] = "created"]
               /\ outcome' = outcome
         /\ UNCHANGED <<cancelled, expired, result, pendingCancel, inner, socket,
                        selected, server, lock, closed, closer, client>>
BY DEF Begin, wireVars, closeVars

\* How a suspended step ends is an outcome, or that the task goes on.
LEMMA AfterJoinType ==
  ASSUME TypeOK, NEW c \in Calls
  PROVE  AfterJoin(c) \in Outcomes \cup {"none"}
BY DEF TypeOK, AfterJoin, Outcomes

\* Leaving for the release keeps the types of the task's variables.
LEMMA ToReleaseType ==
  ASSUME TypeOK, NEW c \in Calls, NEW r \in Outcomes, ToRelease(c, r)
  PROVE  /\ task' \in [Calls -> Phases]
         /\ result' \in [Calls -> Outcomes \cup {"none"}]
         /\ pendingCancel' \in [Calls -> BOOLEAN]
BY DEF TypeOK, ToRelease, Reported, Outcomes, Phases, Section

\* So does starting the next phase.
LEMMA ToPhaseType ==
  ASSUME TypeOK, NEW c \in Calls, NEW p \in Section, ToPhase(c, p)
  PROVE  /\ task' \in [Calls -> Phases]
         /\ result' \in [Calls -> Outcomes \cup {"none"}]
         /\ pendingCancel' \in [Calls -> BOOLEAN]
         /\ inner' \in [Calls -> {"none", "running", "ok", "transient", "permanent"}]
BY DEF TypeOK, ToPhase, Phases

\* So does leaving an await for its clean-up.
LEMMA LeaveAwaitType ==
  ASSUME TypeOK, NEW c \in Calls, NEW r \in Outcomes \cup {"none"},
         task[c] \in Awaits, LeaveAwait(c, r)
  PROVE  /\ task' \in [Calls -> Phases]
         /\ result' \in [Calls -> Outcomes \cup {"none"}]
BY CleanupPhases DEF TypeOK, LeaveAwait, Reported, Outcomes, Phases, Section

------------------------------------------------------------------------------
(* Each part of the invariant is preserved by every step.                    *)

\* Type correctness.
LEMMA TypeStep == TypeOK /\ [Next]_vars => TypeOK'
<1> SUFFICES ASSUME TypeOK, [Next]_vars
             PROVE  TypeOK'
  OBVIOUS
<1>1. ASSUME NEW c \in Calls, Begin(c) PROVE TypeOK'
  BY <1>1, BeginEffect DEF TypeOK, Phases, Outcomes
<1>2. ASSUME NEW c \in Calls, CallerCancelled(c) PROVE TypeOK'
  BY <1>2 DEF TypeOK, CallerCancelled, Forwarded, callVars, taskVars,
     wireVars, closeVars
<1>3. ASSUME NEW c \in Calls, CallerReturns(c) PROVE TypeOK'
  BY <1>3 DEF TypeOK, CallerReturns, Owned, Outcomes, callVars, taskVars,
     wireVars, closeVars
<1>4. ASSUME NEW c \in Calls, DeadlinePasses(c) PROVE TypeOK'
  BY <1>4 DEF TypeOK, DeadlinePasses, callVars, taskVars, wireVars,
     closeVars
<1>5. ASSUME NEW c \in Calls, TaskStarts(c) PROVE TypeOK'
  <2>1. UNCHANGED <<callVars, wireVars, lock, closeVars>>
    BY <1>5 DEF TaskStarts
  <2>2. \/ /\ task' = [task EXCEPT ![c] = "done"]
           /\ result' = [result EXCEPT ![c] = "cancelled"]
           /\ pendingCancel' = [pendingCancel EXCEPT ![c] = FALSE]
        \/ task' = [task EXCEPT ![c] = "acquire"] /\ UNCHANGED <<result, pendingCancel>>
    BY <1>5 DEF TaskStarts
  <2>3. /\ task' \in [Calls -> Phases]
        /\ result' \in [Calls -> Outcomes \cup {"none"}]
        /\ pendingCancel' \in [Calls -> BOOLEAN]
    BY <2>2 DEF TypeOK, Phases, Outcomes
  <2> QED
    BY <2>1, <2>3 DEF TypeOK, callVars, wireVars, closeVars
<1>6. ASSUME NEW c \in Calls, LockGranted(c) PROVE TypeOK'
  BY <1>6 DEF TypeOK, LockGranted, callVars, taskVars, wireVars, closeVars
<1>7. ASSUME NEW c \in Calls, CancelDelivered(c) PROVE TypeOK'
  BY <1>7, LeaveAwaitType DEF TypeOK, CancelDelivered, Outcomes, callVars,
     taskVars, wireVars, closeVars
<1>8. ASSUME NEW c \in Calls, TimedOut(c) PROVE TypeOK'
  BY <1>8, LeaveAwaitType DEF TypeOK, TimedOut, Outcomes, callVars,
     taskVars, wireVars, closeVars
<1>9. ASSUME NEW c \in Calls, LockAcquired(c) PROVE TypeOK'
  <2>1. CASE Stopped(c)
    BY <1>9, <2>1, ToReleaseType DEF TypeOK, LockAcquired, callVars, closeVars, Outcomes
  <2>2. CASE ~Stopped(c)
    BY <1>9, <2>2, ToPhaseType DEF TypeOK, LockAcquired, callVars, closeVars, Section
  <2> QED
    BY <2>1, <2>2
<1>10. ASSUME NEW c \in Calls, InnerReturned(c) PROVE TypeOK'
  <2> DEFINE r == IF inner[c] = "ok" THEN "none" ELSE inner[c]
  <2>1. r \in Outcomes \cup {"none"}
    BY <1>10 DEF TypeOK, InnerReturned, Outcomes
  <2>2. task[c] \in Awaits /\ LeaveAwait(c, r)
    BY <1>10, CleanupPhases DEF InnerReturned
  <2>3. /\ pendingCancel' = [pendingCancel EXCEPT ![c] = FALSE]
        /\ UNCHANGED <<callVars, wireVars, lock, closeVars>>
    BY <1>10 DEF InnerReturned
  <2> QED
    BY <2>1, <2>2, <2>3, LeaveAwaitType DEF TypeOK, callVars, wireVars, closeVars
<1>11. ASSUME NEW c \in Calls, PreparationJoined(c) PROVE TypeOK'
  <2> DEFINE r == IF AfterJoin(c) = "none" /\ expired[c] THEN "transient"
                  ELSE AfterJoin(c)
  <2>1. r \in Outcomes \cup {"none"}
    BY AfterJoinType DEF Outcomes
  <2>2. CASE r # "none" /\ ToRelease(c, r) /\ UNCHANGED inner
    BY <1>11, <2>1, <2>2, ToReleaseType DEF TypeOK, PreparationJoined, callVars, closeVars
  <2>3. CASE ToPhase(c, "query")
    BY <1>11, <2>3, ToPhaseType
       DEF TypeOK, PreparationJoined, callVars, closeVars, Section
  <2> QED
    BY <1>11, <2>2, <2>3 DEF PreparationJoined
<1>12. ASSUME NEW c \in Calls, QueryClosed(c) PROVE TypeOK'
  <2>1. /\ socket' = [socket EXCEPT ![c] = FALSE]
        /\ UNCHANGED <<callVars, selected, lock, closed, closer>>
    BY <1>12 DEF QueryClosed, Aborted
  <2>2. ASSUME NEW r \in Outcomes, ToRelease(c, r), UNCHANGED <<inner, server, client>>
        PROVE  TypeOK'
    BY <2>1, <2>2, ToReleaseType DEF TypeOK, callVars
  <2>3. CASE /\ ToPhase(c, "put")
             /\ server' = [server EXCEPT ![c] = "due"]
             /\ client' = "open"
    BY <2>1, <2>3, ToPhaseType DEF TypeOK, callVars, Section
  <2> QED
    BY <1>12, <2>2, <2>3, AfterJoinType DEF QueryClosed, AfterQuery, Outcomes
<1>13. ASSUME NEW c \in Calls, PutFinished(c) PROVE TypeOK'
  BY <1>13, AfterJoinType, ToReleaseType DEF TypeOK, PutFinished, Outcomes,
     callVars, taskVars, wireVars, closeVars
<1>14. ASSUME NEW c \in Calls, LockReleased(c) PROVE TypeOK'
  BY <1>14 DEF TypeOK, LockReleased, Unlocked, Outcomes, Phases, callVars,
     taskVars, wireVars, closeVars
<1>15. ASSUME NEW c \in Calls, PreparationEnds(c) \/ ClientBuilt(c) PROVE TypeOK'
  BY <1>15 DEF TypeOK, PreparationEnds, ClientBuilt, callVars, taskVars, wireVars,
     closeVars
<1>16. ASSUME NEW c \in Calls, SocketOpens(c) PROVE TypeOK'
  BY <1>16 DEF TypeOK, SocketOpens, callVars, taskVars, wireVars, closeVars
<1>17. ASSUME NEW c \in Calls, QueryEnds(c) PROVE TypeOK'
  BY <1>17 DEF TypeOK, QueryEnds, callVars, taskVars, wireVars, closeVars
<1>18. ASSUME NEW c \in Calls, PutEnds(c) PROVE TypeOK'
  BY <1>18 DEF TypeOK, PutEnds, callVars, taskVars, wireVars, closeVars
<1>19. ASSUME NEW c \in Calls, InnerStops(c) PROVE TypeOK'
  BY <1>19 DEF TypeOK, InnerStops, callVars, taskVars, wireVars, closeVars
<1>20. ASSUME NEW c \in Calls, PutLeaves(c) \/ ServerRestarts(c) PROVE TypeOK'
  BY <1>20 DEF TypeOK, PutLeaves, ServerRestarts, callVars, taskVars, wireVars,
     closeVars
<1>21. ASSUME Close PROVE TypeOK'
  BY <1>21 DEF TypeOK, Close, callVars, taskVars, wireVars, closeVars
<1>22. ASSUME CloseCancels PROVE TypeOK'
  BY <1>22 DEF TypeOK, CloseCancels, callVars, taskVars, wireVars, closeVars
<1>23. ASSUME CloseJoined PROVE TypeOK'
  BY <1>23 DEF TypeOK, CloseJoined, callVars, taskVars, wireVars, closeVars
<1>24. ASSUME CloseClient PROVE TypeOK'
  BY <1>24 DEF TypeOK, CloseClient, ClientForgotten, callVars, taskVars,
     wireVars, closeVars
<1>25. ASSUME UNCHANGED vars PROVE TypeOK'
  BY <1>25 DEF TypeOK, vars, callVars, taskVars, wireVars, closeVars
<1> QED
  BY <1>1, <1>2, <1>3, <1>4, <1>5, <1>6, <1>7, <1>8, <1>9, <1>10, <1>11,
     <1>12, <1>13, <1>14, <1>15, <1>16, <1>17, <1>18, <1>19, <1>20, <1>21,
     <1>22, <1>23, <1>24, <1>25 DEF Next, LoopStep, Environment, CloseStep,
     Finished

\* A call's own life: its task exists exactly while it is answered for.
LEMMA CallerStep == TypeOK /\ CallerInv /\ [Next]_vars => CallerInv'
<1> SUFFICES ASSUME TypeOK, CallerInv, [Next]_vars
             PROVE  CallerInv'
  OBVIOUS
<1>1. ASSUME NEW c \in Calls, Begin(c) PROVE CallerInv'
  BY <1>1, BeginEffect DEF TypeOK, CallerInv, Owned, Section
<1>2. ASSUME NEW c \in Calls, CallerCancelled(c) PROVE CallerInv'
  BY <1>2 DEF TypeOK, CallerInv, Owned, Section, CallerCancelled, callVars,
     taskVars, wireVars, closeVars
<1>3. ASSUME NEW c \in Calls, CallerReturns(c) PROVE CallerInv'
  BY <1>3 DEF TypeOK, CallerInv, Owned, Section, CallerReturns, Owned,
     callVars, taskVars, wireVars, closeVars
<1>4. ASSUME NEW c \in Calls, TaskStarts(c) PROVE CallerInv'
  BY <1>4 DEF TypeOK, CallerInv, Owned, Section, TaskStarts, callVars,
     taskVars, wireVars, closeVars
<1>5. ASSUME NEW c \in Calls, CancelDelivered(c) PROVE CallerInv'
  BY <1>5, CleanupPhases DEF TypeOK, CallerInv, Owned, Section,
     CancelDelivered, LeaveAwait, callVars, taskVars, wireVars, closeVars
<1>6. ASSUME NEW c \in Calls, TimedOut(c) PROVE CallerInv'
  BY <1>6, CleanupPhases DEF TypeOK, CallerInv, Owned, Section, TimedOut,
     LeaveAwait, callVars, taskVars, wireVars, closeVars
<1>7. ASSUME NEW c \in Calls, LockAcquired(c) PROVE CallerInv'
  BY <1>7 DEF TypeOK, CallerInv, Owned, Section, LockAcquired, Stopped,
     ToRelease, ToPhase, callVars, taskVars, wireVars, closeVars
<1>8. ASSUME NEW c \in Calls, InnerReturned(c) PROVE CallerInv'
  BY <1>8, CleanupPhases DEF TypeOK, CallerInv, Owned, Section,
     InnerReturned, LeaveAwait, callVars, taskVars, wireVars, closeVars
<1>9. ASSUME NEW c \in Calls, PreparationJoined(c) PROVE CallerInv'
  BY <1>9 DEF TypeOK, CallerInv, Owned, Section, PreparationJoined,
     ToRelease, ToPhase, Joined, callVars, taskVars, wireVars, closeVars
<1>10. ASSUME NEW c \in Calls, QueryClosed(c) PROVE CallerInv'
  BY <1>10 DEF TypeOK, CallerInv, Owned, Section, QueryClosed, ToRelease,
     ToPhase, Joined, callVars, taskVars, wireVars, closeVars
<1>11. ASSUME NEW c \in Calls, PutFinished(c) PROVE CallerInv'
  BY <1>11, CallsAssumption DEF TypeOK, CallerInv, Owned, Section,
     PutFinished, ToRelease, PutLetGo, callVars, taskVars, wireVars,
     closeVars
<1>12. ASSUME NEW c \in Calls, LockReleased(c) PROVE CallerInv'
  BY <1>12 DEF TypeOK, CallerInv, Owned, Section, LockReleased, Unlocked,
     callVars, taskVars, wireVars, closeVars
<1>13. ASSUME NEW c \in Calls,
            DeadlinePasses(c) \/ LockGranted(c) \/ ClientBuilt(c) \/ PreparationEnds(c) \/
            SocketOpens(c) \/ QueryEnds(c) \/ PutEnds(c) \/ InnerStops(c) \/
            PutLeaves(c) \/ ServerRestarts(c)
      PROVE  CallerInv'
  BY <1>13 DEF TypeOK, CallerInv, Owned, Section, DeadlinePasses,
     LockGranted, ClientBuilt, PreparationEnds, SocketOpens, QueryEnds, PutLeaves, PutEnds,
     InnerStops, ServerRestarts, callVars, taskVars, wireVars, closeVars
<1>14. ASSUME Close \/ CloseCancels \/ CloseJoined \/ CloseClient \/ UNCHANGED vars
      PROVE  CallerInv'
  BY <1>14 DEF TypeOK, CallerInv, Owned, Section, Close, CloseCancels,
     CloseJoined, CloseClient, vars, callVars, taskVars, wireVars, closeVars
<1> QED
  BY <1>1, <1>2, <1>3, <1>4, <1>5, <1>6, <1>7, <1>8, <1>9, <1>10, <1>11,
     <1>12, <1>13, <1>14 DEF Next, LoopStep, Environment, CloseStep,
     Finished

\* Only the owner of the lock enters or stays in the section, and only it
\* gives the lock back.
LEMMA LockStep == TypeOK /\ CallerInv /\ LockInv /\ [Next]_vars => LockInv'
<1> SUFFICES ASSUME TypeOK, CallerInv, LockInv, [Next]_vars
             PROVE  LockInv'
  OBVIOUS
<1>1. ASSUME NEW c \in Calls, Begin(c) PROVE LockInv'
  BY <1>1, CallsAssumption, BeginEffect DEF TypeOK, CallerInv, LockInv,
     SectionHoldsLock, LockNotLeaked, Section
<1>2. ASSUME NEW c \in Calls, TaskStarts(c) PROVE LockInv'
  BY <1>2, CallsAssumption DEF TypeOK, CallerInv, LockInv, SectionHoldsLock,
     LockNotLeaked, Section, TaskStarts, callVars, taskVars, wireVars,
     closeVars
<1>3. ASSUME NEW c \in Calls, LockGranted(c) PROVE LockInv'
  BY <1>3, CallsAssumption DEF TypeOK, CallerInv, LockInv, SectionHoldsLock,
     LockNotLeaked, Section, LockGranted, callVars, taskVars, wireVars,
     closeVars
<1>4. ASSUME NEW c \in Calls, CancelDelivered(c) PROVE LockInv'
  BY <1>4, CallsAssumption, CleanupPhases DEF TypeOK, CallerInv, LockInv,
     SectionHoldsLock, LockNotLeaked, Section, CancelDelivered, LeaveAwait,
     callVars, taskVars, wireVars, closeVars
<1>5. ASSUME NEW c \in Calls, TimedOut(c) PROVE LockInv'
  BY <1>5, CallsAssumption, CleanupPhases DEF TypeOK, CallerInv, LockInv,
     SectionHoldsLock, LockNotLeaked, Section, TimedOut, LeaveAwait,
     callVars, taskVars, wireVars, closeVars
<1>6. ASSUME NEW c \in Calls, LockAcquired(c) PROVE LockInv'
  BY <1>6, CallsAssumption DEF TypeOK, CallerInv, LockInv, SectionHoldsLock,
     LockNotLeaked, Section, LockAcquired, Stopped, ToRelease, ToPhase,
     callVars, taskVars, wireVars, closeVars
<1>7. ASSUME NEW c \in Calls, InnerReturned(c) PROVE LockInv'
  BY <1>7, CallsAssumption, CleanupPhases DEF TypeOK, CallerInv, LockInv,
     SectionHoldsLock, LockNotLeaked, Section, InnerReturned, LeaveAwait,
     callVars, taskVars, wireVars, closeVars
<1>8. ASSUME NEW c \in Calls, PreparationJoined(c) PROVE LockInv'
  BY <1>8, CallsAssumption DEF TypeOK, CallerInv, LockInv, SectionHoldsLock,
     LockNotLeaked, Section, PreparationJoined, ToRelease, ToPhase, Joined,
     callVars, taskVars, wireVars, closeVars
<1>9. ASSUME NEW c \in Calls, QueryClosed(c) PROVE LockInv'
  BY <1>9, CallsAssumption DEF TypeOK, CallerInv, LockInv, SectionHoldsLock,
     LockNotLeaked, Section, QueryClosed, ToRelease, ToPhase, Joined,
     callVars, taskVars, wireVars, closeVars
<1>10. ASSUME NEW c \in Calls, PutFinished(c) PROVE LockInv'
  BY <1>10, CallsAssumption DEF TypeOK, CallerInv, LockInv,
     SectionHoldsLock, LockNotLeaked, Section, PutFinished, ToRelease,
     PutLetGo, callVars, taskVars, wireVars, closeVars
<1>11. ASSUME NEW c \in Calls, LockReleased(c) PROVE LockInv'
  BY <1>11, CallsAssumption DEF TypeOK, CallerInv, LockInv,
     SectionHoldsLock, LockNotLeaked, Section, LockReleased, Unlocked,
     callVars, taskVars, wireVars, closeVars
<1>12. ASSUME NEW c \in Calls,
            CallerCancelled(c) \/ CallerReturns(c) \/ DeadlinePasses(c) \/
            ClientBuilt(c) \/ PreparationEnds(c) \/ SocketOpens(c) \/ QueryEnds(c) \/
            PutLeaves(c) \/ PutEnds(c) \/ InnerStops(c) \/ ServerRestarts(c)
      PROVE  LockInv'
  BY <1>12 DEF TypeOK, CallerInv, LockInv, SectionHoldsLock, LockNotLeaked,
     Section, CallerCancelled, CallerReturns, DeadlinePasses,
     ClientBuilt, PreparationEnds, SocketOpens, QueryEnds, PutLeaves, PutEnds, InnerStops,
     ServerRestarts, callVars, taskVars, wireVars, closeVars
<1>13. ASSUME Close \/ CloseCancels \/ CloseJoined \/ CloseClient \/ UNCHANGED vars
      PROVE  LockInv'
  BY <1>13 DEF TypeOK, CallerInv, LockInv, SectionHoldsLock, LockNotLeaked,
     Section, Close, CloseCancels, CloseJoined, CloseClient, vars, callVars,
     taskVars, wireVars, closeVars
<1> QED
  BY <1>1, <1>2, <1>3, <1>4, <1>5, <1>6, <1>7, <1>8, <1>9, <1>10, <1>11,
     <1>12, <1>13 DEF Next, LoopStep, Environment, CloseStep, Finished

\* Inner work and the socket belong to the phase that started them.
LEMMA WorkStep == TypeOK /\ CallerInv /\ WorkInv /\ [Next]_vars => WorkInv'
<1> SUFFICES ASSUME TypeOK, CallerInv, WorkInv, [Next]_vars
             PROVE  WorkInv'
  OBVIOUS
<1>1. ASSUME NEW c \in Calls, Begin(c) PROVE WorkInv'
  BY <1>1, BeginEffect DEF TypeOK, CallerInv, WorkInv, Section
<1>2. ASSUME NEW c \in Calls, TaskStarts(c) PROVE WorkInv'
  BY <1>2 DEF TypeOK, CallerInv, WorkInv, Section, TaskStarts, callVars,
     taskVars, wireVars, closeVars
<1>3. ASSUME NEW c \in Calls, CancelDelivered(c) PROVE WorkInv'
  BY <1>3, CleanupPhases DEF TypeOK, CallerInv, WorkInv, Section,
     CancelDelivered, LeaveAwait, Reported, AfterJoin, Outcomes, callVars,
     taskVars, wireVars, closeVars
<1>4. ASSUME NEW c \in Calls, TimedOut(c) PROVE WorkInv'
  BY <1>4, CleanupPhases DEF TypeOK, CallerInv, WorkInv, Section, TimedOut,
     LeaveAwait, Reported, AfterJoin, Outcomes, callVars, taskVars,
     wireVars, closeVars
<1>5. ASSUME NEW c \in Calls, LockAcquired(c) PROVE WorkInv'
  BY <1>5 DEF TypeOK, CallerInv, WorkInv, Section, LockAcquired, Stopped,
     ToRelease, ToPhase, Reported, AfterJoin, Outcomes, callVars, taskVars,
     wireVars, closeVars
<1>6. ASSUME NEW c \in Calls, InnerReturned(c) PROVE WorkInv'
  BY <1>6, CleanupPhases DEF TypeOK, CallerInv, WorkInv, Section,
     InnerReturned, LeaveAwait, Reported, AfterJoin, Outcomes, callVars,
     taskVars, wireVars, closeVars
<1>7. ASSUME NEW c \in Calls, PreparationJoined(c) PROVE WorkInv'
  BY <1>7 DEF TypeOK, CallerInv, WorkInv, Section, PreparationJoined,
     ToRelease, ToPhase, Joined, Reported, AfterJoin, Outcomes, callVars,
     taskVars, wireVars, closeVars
<1>8. ASSUME NEW c \in Calls, QueryClosed(c) PROVE WorkInv'
  BY <1>8 DEF TypeOK, CallerInv, WorkInv, Section, QueryClosed, Aborted, AfterQuery, ToRelease,
     ToPhase, Joined, Reported, AfterJoin, Outcomes, callVars, taskVars,
     wireVars, closeVars
<1>9. ASSUME NEW c \in Calls, PutFinished(c) PROVE WorkInv'
  BY <1>9, CallsAssumption DEF TypeOK, CallerInv, WorkInv, Section,
     PutFinished, ToRelease, PutLetGo, Reported, AfterJoin, Outcomes,
     callVars, taskVars, wireVars, closeVars
<1>10. ASSUME NEW c \in Calls, LockReleased(c) PROVE WorkInv'
  BY <1>10 DEF TypeOK, CallerInv, WorkInv, Section, LockReleased, Unlocked,
     callVars, taskVars, wireVars, closeVars
<1>11. ASSUME NEW c \in Calls, PreparationEnds(c) \/ ClientBuilt(c) PROVE WorkInv'
  BY <1>11 DEF TypeOK, CallerInv, WorkInv, Section, PreparationEnds, ClientBuilt,
     callVars, taskVars, wireVars, closeVars
<1>12. ASSUME NEW c \in Calls, SocketOpens(c) PROVE WorkInv'
  BY <1>12 DEF TypeOK, CallerInv, WorkInv, Section, SocketOpens, callVars,
     taskVars, wireVars, closeVars
<1>13. ASSUME NEW c \in Calls, QueryEnds(c) PROVE WorkInv'
  BY <1>13 DEF TypeOK, CallerInv, WorkInv, Section, QueryEnds, callVars,
     taskVars, wireVars, closeVars
<1>14. ASSUME NEW c \in Calls, PutEnds(c) PROVE WorkInv'
  BY <1>14 DEF TypeOK, CallerInv, WorkInv, Section, PutEnds, callVars,
     taskVars, wireVars, closeVars
<1>15. ASSUME NEW c \in Calls, InnerStops(c) PROVE WorkInv'
  BY <1>15 DEF TypeOK, CallerInv, WorkInv, Section, InnerStops, callVars,
     taskVars, wireVars, closeVars
<1>16. ASSUME NEW c \in Calls, PutLeaves(c) \/ ServerRestarts(c) PROVE WorkInv'
  BY <1>16 DEF TypeOK, CallerInv, WorkInv, Section, PutLeaves, ServerRestarts,
     callVars, taskVars, wireVars, closeVars
<1>17. ASSUME NEW c \in Calls,
            CallerCancelled(c) \/ CallerReturns(c) \/ DeadlinePasses(c) \/
            LockGranted(c)
      PROVE  WorkInv'
  BY <1>17 DEF TypeOK, CallerInv, WorkInv, Section, CallerCancelled,
     CallerReturns, DeadlinePasses, LockGranted, callVars, taskVars,
     wireVars, closeVars
<1>18. ASSUME Close \/ CloseCancels \/ CloseJoined \/ CloseClient \/ UNCHANGED vars
      PROVE  WorkInv'
  BY <1>18 DEF TypeOK, CallerInv, WorkInv, Section, Close, CloseCancels,
     CloseJoined, CloseClient, vars, callVars, taskVars, wireVars, closeVars
<1> QED
  BY <1>1, <1>2, <1>3, <1>4, <1>5, <1>6, <1>7, <1>8, <1>9, <1>10, <1>11,
     <1>12, <1>13, <1>14, <1>15, <1>16, <1>17, <1>18 DEF Next, LoopStep,
     Environment, CloseStep, Finished

\* A restart is "ok" only by way of a PUT that was answered OK, and no error
\* of a restart stays retryable.
LEMMA AnswerStep == TypeOK /\ CallerInv /\ WorkInv /\ AnswerInv /\ [Next]_vars => AnswerInv'
<1> SUFFICES ASSUME TypeOK, CallerInv, WorkInv, AnswerInv, [Next]_vars
             PROVE  AnswerInv'
  OBVIOUS
<1>1. ASSUME NEW c \in Calls, Begin(c) PROVE AnswerInv'
  BY <1>1, CallsAssumption, BeginEffect DEF TypeOK, CallerInv, WorkInv,
     AnswerInv
<1>2. ASSUME NEW c \in Calls, CallerReturns(c) PROVE AnswerInv'
  BY <1>2, CallsAssumption DEF TypeOK, CallerInv, WorkInv, AnswerInv,
     CallerReturns, Owned, callVars, taskVars, wireVars, closeVars
<1>3. ASSUME NEW c \in Calls, TaskStarts(c) PROVE AnswerInv'
  BY <1>3, CallsAssumption DEF TypeOK, CallerInv, WorkInv, AnswerInv,
     TaskStarts, callVars, taskVars, wireVars, closeVars
<1>4. ASSUME NEW c \in Calls, CancelDelivered(c) PROVE AnswerInv'
  BY <1>4, CallsAssumption, CleanupPhases DEF TypeOK, CallerInv, WorkInv,
     AnswerInv, CancelDelivered, LeaveAwait, Reported, AfterJoin, Outcomes,
     callVars, taskVars, wireVars, closeVars
<1>5. ASSUME NEW c \in Calls, TimedOut(c) PROVE AnswerInv'
  BY <1>5, CallsAssumption, CleanupPhases DEF TypeOK, CallerInv, WorkInv,
     AnswerInv, TimedOut, LeaveAwait, Reported, AfterJoin, Outcomes,
     callVars, taskVars, wireVars, closeVars
<1>6. ASSUME NEW c \in Calls, LockAcquired(c) PROVE AnswerInv'
  BY <1>6, CallsAssumption DEF TypeOK, CallerInv, WorkInv, AnswerInv,
     LockAcquired, Stopped, ToRelease, ToPhase, Reported, AfterJoin,
     Outcomes, callVars, taskVars, wireVars, closeVars
<1>7. ASSUME NEW c \in Calls, InnerReturned(c) PROVE AnswerInv'
  BY <1>7, CallsAssumption, CleanupPhases DEF TypeOK, CallerInv, WorkInv,
     AnswerInv, InnerReturned, LeaveAwait, Reported, AfterJoin, Outcomes,
     callVars, taskVars, wireVars, closeVars
<1>8. ASSUME NEW c \in Calls, PreparationJoined(c) PROVE AnswerInv'
  BY <1>8, CallsAssumption DEF TypeOK, CallerInv, WorkInv, AnswerInv,
     PreparationJoined, ToRelease, ToPhase, Joined, Reported, AfterJoin,
     Outcomes, callVars, taskVars, wireVars, closeVars
<1>9. ASSUME NEW c \in Calls, QueryClosed(c) PROVE AnswerInv'
  BY <1>9, CallsAssumption DEF TypeOK, CallerInv, WorkInv, AnswerInv,
     QueryClosed, AfterQuery, ToRelease, ToPhase, Joined, Reported, AfterJoin, Outcomes,
     callVars, taskVars, wireVars, closeVars
<1>10. ASSUME NEW c \in Calls, PutFinished(c) PROVE AnswerInv'
  BY <1>10, CallsAssumption DEF TypeOK, CallerInv, WorkInv, AnswerInv,
     PutFinished, ToRelease, PutLetGo, Reported, AfterJoin, Outcomes,
     callVars, taskVars, wireVars, closeVars
<1>11. ASSUME NEW c \in Calls, LockReleased(c) PROVE AnswerInv'
  BY <1>11, CallsAssumption DEF TypeOK, CallerInv, WorkInv, AnswerInv,
     LockReleased, Unlocked, Reported, AfterJoin, Outcomes, callVars,
     taskVars, wireVars, closeVars
<1>12. ASSUME NEW c \in Calls, PreparationEnds(c) \/ ClientBuilt(c) PROVE AnswerInv'
  BY <1>12, CallsAssumption DEF TypeOK, CallerInv, WorkInv, AnswerInv,
     PreparationEnds, ClientBuilt, callVars, taskVars, wireVars, closeVars
<1>13. ASSUME NEW c \in Calls, QueryEnds(c) PROVE AnswerInv'
  BY <1>13, CallsAssumption DEF TypeOK, CallerInv, WorkInv, AnswerInv,
     QueryEnds, callVars, taskVars, wireVars, closeVars
<1>14. ASSUME NEW c \in Calls, PutEnds(c) PROVE AnswerInv'
  BY <1>14, CallsAssumption DEF TypeOK, CallerInv, WorkInv, AnswerInv,
     PutEnds, callVars, taskVars, wireVars, closeVars
<1>15. ASSUME NEW c \in Calls, InnerStops(c) PROVE AnswerInv'
  BY <1>15, CallsAssumption DEF TypeOK, CallerInv, WorkInv, AnswerInv,
     InnerStops, callVars, taskVars, wireVars, closeVars
<1>16. ASSUME NEW c \in Calls, PutLeaves(c) \/ ServerRestarts(c) PROVE AnswerInv'
  BY <1>16, CallsAssumption DEF TypeOK, CallerInv, WorkInv, AnswerInv,
     PutLeaves, ServerRestarts, callVars, taskVars, wireVars, closeVars
<1>17. ASSUME NEW c \in Calls,
            CallerCancelled(c) \/ DeadlinePasses(c) \/ LockGranted(c) \/
            SocketOpens(c)
      PROVE  AnswerInv'
  BY <1>17 DEF TypeOK, CallerInv, WorkInv, AnswerInv, CallerCancelled,
     DeadlinePasses, LockGranted, SocketOpens, callVars, taskVars, wireVars,
     closeVars
<1>18. ASSUME Close \/ CloseCancels \/ CloseJoined \/ CloseClient \/ UNCHANGED vars
      PROVE  AnswerInv'
  BY <1>18 DEF TypeOK, CallerInv, WorkInv, AnswerInv, Close, CloseCancels,
     CloseJoined, CloseClient, vars, callVars, taskVars, wireVars, closeVars
<1> QED
  BY <1>1, <1>2, <1>3, <1>4, <1>5, <1>6, <1>7, <1>8, <1>9, <1>10, <1>11,
     <1>12, <1>13, <1>14, <1>15, <1>16, <1>17, <1>18 DEF Next, LoopStep,
     Environment, CloseStep, Finished

\* Nothing starts after the gather of _close has ended.
LEMMA CloseInvStep == TypeOK /\ CallerInv /\ CloseInv /\ [Next]_vars => CloseInv'
<1> SUFFICES ASSUME TypeOK, CallerInv, CloseInv, [Next]_vars
             PROVE  CloseInv'
  OBVIOUS
<1>1. ASSUME NEW c \in Calls, Begin(c) PROVE CloseInv'
  BY <1>1, BeginEffect DEF TypeOK, CallerInv, CloseInv, Owned, Section
<1>2. ASSUME NEW c \in Calls, CallerCancelled(c) PROVE CloseInv'
  BY <1>2 DEF TypeOK, CallerInv, CloseInv, Owned, Section, CallerCancelled,
     callVars, taskVars, wireVars, closeVars
<1>3. ASSUME NEW c \in Calls, CallerReturns(c) PROVE CloseInv'
  BY <1>3 DEF TypeOK, CallerInv, CloseInv, Owned, Section, CallerReturns,
     Owned, callVars, taskVars, wireVars, closeVars
<1>4. ASSUME NEW c \in Calls, TaskStarts(c) PROVE CloseInv'
  BY <1>4 DEF TypeOK, CallerInv, CloseInv, Owned, Section, TaskStarts,
     callVars, taskVars, wireVars, closeVars
<1>5. ASSUME NEW c \in Calls, CancelDelivered(c) PROVE CloseInv'
  BY <1>5, CleanupPhases DEF TypeOK, CallerInv, CloseInv, Owned, Section,
     CancelDelivered, LeaveAwait, callVars, taskVars, wireVars, closeVars
<1>6. ASSUME NEW c \in Calls, TimedOut(c) PROVE CloseInv'
  BY <1>6, CleanupPhases DEF TypeOK, CallerInv, CloseInv, Owned, Section,
     TimedOut, LeaveAwait, callVars, taskVars, wireVars, closeVars
<1>7. ASSUME NEW c \in Calls, LockAcquired(c) PROVE CloseInv'
  BY <1>7 DEF TypeOK, CallerInv, CloseInv, Owned, Section, LockAcquired,
     Stopped, ToRelease, ToPhase, callVars, taskVars, wireVars, closeVars
<1>8. ASSUME NEW c \in Calls, InnerReturned(c) PROVE CloseInv'
  BY <1>8, CleanupPhases DEF TypeOK, CallerInv, CloseInv, Owned, Section,
     InnerReturned, LeaveAwait, callVars, taskVars, wireVars, closeVars
<1>9. ASSUME NEW c \in Calls, PreparationJoined(c) PROVE CloseInv'
  BY <1>9 DEF TypeOK, CallerInv, CloseInv, Owned, Section,
     PreparationJoined, ToRelease, ToPhase, Joined, callVars, taskVars,
     wireVars, closeVars
<1>10. ASSUME NEW c \in Calls, QueryClosed(c) PROVE CloseInv'
  BY <1>10 DEF TypeOK, CallerInv, CloseInv, Owned, Section, QueryClosed, AfterQuery,
     ToRelease, ToPhase, Joined, callVars, taskVars, wireVars, closeVars
<1>11. ASSUME NEW c \in Calls, PutFinished(c) PROVE CloseInv'
  BY <1>11, CallsAssumption DEF TypeOK, CallerInv, CloseInv, Owned, Section,
     PutFinished, ToRelease, PutLetGo, callVars, taskVars, wireVars,
     closeVars
<1>12. ASSUME NEW c \in Calls, LockReleased(c) PROVE CloseInv'
  BY <1>12 DEF TypeOK, CallerInv, CloseInv, Owned, Section, LockReleased,
     Unlocked, callVars, taskVars, wireVars, closeVars
<1>13. ASSUME Close PROVE CloseInv'
  BY <1>13 DEF TypeOK, CallerInv, CloseInv, Owned, Section, Close, callVars,
     taskVars, wireVars, closeVars
<1>14. ASSUME CloseCancels PROVE CloseInv'
  BY <1>14 DEF TypeOK, CallerInv, CloseInv, Owned, Section, CloseCancels,
     callVars, taskVars, wireVars, closeVars
<1>15. ASSUME CloseJoined PROVE CloseInv'
  BY <1>15 DEF TypeOK, CallerInv, CloseInv, Owned, Section, CloseJoined,
     Gathered, Owned, callVars, taskVars, wireVars, closeVars
<1>16. ASSUME CloseClient PROVE CloseInv'
  BY <1>16 DEF TypeOK, CallerInv, CloseInv, Owned, Section, CloseClient,
     ClientForgotten, callVars, taskVars, wireVars, closeVars
<1>17. ASSUME NEW c \in Calls,
            DeadlinePasses(c) \/ LockGranted(c) \/ ClientBuilt(c) \/ PreparationEnds(c) \/
            SocketOpens(c) \/ QueryEnds(c) \/ PutEnds(c) \/ InnerStops(c) \/
            PutLeaves(c) \/ ServerRestarts(c)
      PROVE  CloseInv'
  BY <1>17 DEF TypeOK, CallerInv, CloseInv, Owned, Section, DeadlinePasses,
     LockGranted, ClientBuilt, PreparationEnds, SocketOpens, QueryEnds, PutLeaves, PutEnds,
     InnerStops, ServerRestarts, callVars, taskVars, wireVars, closeVars
<1>18. ASSUME UNCHANGED vars
      PROVE  CloseInv'
  BY <1>18 DEF TypeOK, CallerInv, CloseInv, Owned, Section, vars, callVars,
     taskVars, wireVars, closeVars
<1> QED
  BY <1>1, <1>2, <1>3, <1>4, <1>5, <1>6, <1>7, <1>8, <1>9, <1>10, <1>11,
     <1>12, <1>13, <1>14, <1>15, <1>16, <1>17, <1>18 DEF Next, LoopStep,
     Environment, CloseStep, Finished

------------------------------------------------------------------------------
(* The theorems.                                                             *)

\* The new client satisfies the inductive invariant.
LEMMA Initially == Init => IInv
<1> SUFFICES ASSUME Init PROVE IInv
  OBVIOUS
<1>1. TypeOK
  BY DEF Init, TypeOK, Phases, Outcomes
<1>2. CallerInv
  BY DEF Init, CallerInv, Owned
<1>3. LockInv
  BY CallsAssumption DEF Init, LockInv, SectionHoldsLock, LockNotLeaked, Section
<1>4. WorkInv /\ AnswerInv
  BY CallsAssumption DEF Init, WorkInv, AnswerInv
<1>5. CloseInv
  BY DEF Init, CloseInv
<1> QED
  BY <1>1, <1>2, <1>3, <1>4, <1>5 DEF IInv

\* Every step of the calls, the server and close() preserves it.
LEMMA Inductive == IInv /\ [Next]_vars => IInv'
BY TypeStep, CallerStep, LockStep, WorkStep, AnswerStep, CloseInvStep DEF IInv

\* Every reachable state satisfies the inductive invariant.
THEOREM Invariance == Spec => []IInv
BY Initially, Inductive, PTL DEF Spec

\* The variables keep their types.
THEOREM TypeCorrect == Spec => []TypeOK
<1>1. IInv => TypeOK
  BY DEF IInv
<1> QED
  BY <1>1, Invariance, PTL

\* Discovery is serialized, for any number of calls: whoever prepares,
\* queries or restarts owns the lock.
THEOREM SectionsExclusive == Spec => []SectionHoldsLock
<1>1. IInv => SectionHoldsLock
  BY DEF IInv, LockInv
<1> QED
  BY <1>1, Invariance, PTL

\* No interleaving of grants, timeouts and cancellations leaks the lock.
THEOREM LockReturned == Spec => []LockNotLeaked
<1>1. IInv => LockNotLeaked
  BY DEF IInv, LockInv
<1> QED
  BY <1>1, Invariance, PTL

\* A finished task leaves nothing behind but a PUT that will not stop.
THEOREM WorkEnds == Spec => []OwnedWorkEnded
<1>1. IInv => OwnedWorkEnded
  BY DEF IInv, WorkInv, OwnedWorkEnded, Section
<1> QED
  BY <1>1, Invariance, PTL

\* What the caller of a restart is told agrees with what the server did.
THEOREM AnswersTruthful == Spec => []AnswerTruthful
<1>1. IInv => AnswerTruthful
  BY DEF IInv, AnswerInv, AnswerTruthful
<1> QED
  BY <1>1, Invariance, PTL

\* A finished shutdown leaves no lock, client or task.
THEOREM ShutdownComplete == Spec => []ShutdownQuiescent
<1>1. ASSUME IInv PROVE ShutdownQuiescent
  <2> SUFFICES ASSUME closer = "done" PROVE ShutdownQuiescent
    BY DEF ShutdownQuiescent
  <2>1. \A c \in Calls : task[c] \in {"none", "done"}
    BY <1>1 DEF IInv, TypeOK, CallerInv, CloseInv, Owned
  <2>2. \A c \in Calls : ~socket[c] /\ (inner[c] = "running" => c \in Stubborn)
    BY <1>1, <2>1 DEF IInv, WorkInv, Section
  <2>3. lock = NoCall
    BY <1>1, <2>1 DEF IInv, TypeOK, LockInv, LockNotLeaked, Section
  <2> QED
    BY <1>1, <2>1, <2>2, <2>3 DEF ShutdownQuiescent, IInv, CloseInv
<1> QED
  BY <1>1, Invariance, PTL

\* A restart request is made only from inside the call's tenure, for a setting
\* that was read selected, and never after a cancellation, the deadline or
\* the start of the shutdown.
LEMMA GuardedStep ==
  ASSUME IInv, [Next]_vars, NEW c \in Calls, server[c] = "none", server'[c] # "none"
  PROVE  /\ lock = c /\ selected[c] /\ c \in Restarts
         /\ ~closed /\ ~cancelled[c] /\ ~expired[c]
<1>1. PICK d \in Calls : QueryClosed(d)
  <2>1. ~ UNCHANGED server
    OBVIOUS
  <2>2. ASSUME NEW d \in Calls, PutLeaves(d) \/ ServerRestarts(d) PROVE FALSE
    BY <2>2 DEF PutLeaves, ServerRestarts, IInv, TypeOK
  <2> QED
    BY <2>1, <2>2 DEF Next, LoopStep, Environment, CloseStep, Finished, vars, callVars,
       taskVars, wireVars, closeVars, Begin, CallerCancelled, CallerReturns,
       DeadlinePasses, TaskStarts, LockGranted, CancelDelivered, TimedOut,
       LockAcquired, InnerReturned, PreparationJoined, PutFinished, LockReleased,
       ClientBuilt, PreparationEnds, SocketOpens, QueryEnds, PutEnds, InnerStops, Close,
       CloseCancels, CloseJoined, CloseClient
<1>2. d = c
  BY <1>1 DEF QueryClosed, IInv, TypeOK
<1>3. /\ AfterJoin(c) = "none" /\ c \in Restarts /\ selected[c] /\ ~expired[c]
  BY <1>1, <1>2 DEF QueryClosed, AfterQuery
<1>4. ~closed /\ ~cancelled[c]
  BY <1>3 DEF AfterJoin, Stopped
<1>5. lock = c
  BY <1>1, <1>2 DEF QueryClosed, IInv, LockInv, SectionHoldsLock, Section
<1> QED
  BY <1>3, <1>4, <1>5

\* It leaves while its task runs, and that task is cancelled and joined before
\* the lock is given back, if its transport lets it be.
LEMMA LeavesInTenure ==
  ASSUME IInv, [Next]_vars, NEW c \in Calls, server[c] = "due", server'[c] = "sent"
  PROVE  lock = c \/ c \in Stubborn
<1>1. PICK d \in Calls : PutLeaves(d)
  <2>1. ~ UNCHANGED server
    OBVIOUS
  <2>2. ASSUME NEW d \in Calls, QueryClosed(d) \/ ServerRestarts(d) PROVE FALSE
    BY <2>2 DEF QueryClosed, ServerRestarts, IInv, TypeOK
  <2> QED
    BY <2>1, <2>2 DEF Next, LoopStep, Environment, CloseStep, Finished, vars, callVars,
       taskVars, wireVars, closeVars, Begin, CallerCancelled, CallerReturns,
       DeadlinePasses, TaskStarts, LockGranted, CancelDelivered, TimedOut,
       LockAcquired, InnerReturned, PreparationJoined, PutFinished, LockReleased,
       ClientBuilt, PreparationEnds, SocketOpens, QueryEnds, PutEnds, InnerStops, Close,
       CloseCancels, CloseJoined, CloseClient
<1>2. d = c
  BY <1>1 DEF PutLeaves, IInv, TypeOK
<1>3. task[c] \in Section \/ c \in Stubborn
  BY <1>1, <1>2 DEF PutLeaves, IInv, WorkInv
<1> QED
  BY <1>3 DEF IInv, LockInv, SectionHoldsLock

\* No restart request is ever made without its guard: the lock, the selected
\* setting, and neither cancellation nor deadline nor shutdown so far; and none
\* leaves once the lock was given back, but by a transport that will not stop.
THEOREM RequestGuarded == Spec => RestartGuarded
<1>1. IInv /\ [Next]_vars =>
        [\A c \in Calls :
           /\ server[c] = "none" /\ server'[c] # "none" =>
                /\ lock = c /\ selected[c] /\ c \in Restarts
                /\ ~closed /\ ~cancelled[c] /\ ~expired[c]
           /\ server[c] = "due" /\ server'[c] = "sent" => lock = c \/ c \in Stubborn]_vars
  BY GuardedStep, LeavesInTenure
<1> QED
  BY <1>1, Invariance, PTL DEF Spec, RestartGuarded

------------------------------------------------------------------------------
(* Refinement of the contract.                                               *)

\* Under mutual exclusion the holder is the owner of the lock, if it is in
\* its section.
LEMMA SectionHolderIs ==
  ASSUME IInv, IInv'
  PROVE  /\ SectionHolder = IF lock \in Calls /\ task[lock] \in Section THEN lock ELSE NoCall
         /\ SectionHolder' = IF lock' \in Calls /\ task'[lock'] \in Section THEN lock' ELSE NoCall
BY DEF IInv, LockInv, SectionHoldsLock, SectionHolder

\* A step that moves no task in or out of the section keeps its holder.
LEMMA HolderStays ==
  ASSUME IInv, IInv', UNCHANGED lock,
         \A c \in Calls : lock = c => (task[c] \in Section <=> task'[c] \in Section)
  PROVE  SectionHolder' = SectionHolder
BY SectionHolderIs

\* The task that leaves the section for the release leaves it empty.
LEMMA HolderLeaves ==
  ASSUME IInv, IInv', UNCHANGED lock, NEW c \in Calls,
         task[c] \in Section, task'[c] \notin Section
  PROVE  SectionHolder = c /\ SectionHolder' = NoCall
<1>1. lock = c
  BY DEF IInv, LockInv, SectionHoldsLock
<1> QED
  BY <1>1, SectionHolderIs

\* A step of the client is a step of the contract or leaves it unchanged.
LEMMA ContractStep ==
  ASSUME IInv, IInv', [Next]_vars
  PROVE  [Contract!Next]_(Contract!vars)
<1> DEFINE Stutters == UNCHANGED <<SectionHolder, server, outcome, closed, closer = "done">>
<1>0. ASSUME Stutters PROVE [Contract!Next]_(Contract!vars)
  BY <1>0 DEF Contract!vars
<1>1. ASSUME NEW c \in Calls, Begin(c) PROVE [Contract!Next]_(Contract!vars)
  <2>1. SectionHolder' = SectionHolder
    <3>1. \A d \in Calls : task'[d] \in Section <=> task[d] \in Section
      <4>1. task' = task \/ task' = [task EXCEPT ![c] = "created"]
        BY <1>1, BeginEffect
      <4>2. task[c] = "none" /\ task \in [Calls -> Phases]
        BY <1>1, BeginEffect DEF IInv, TypeOK, CallerInv
      <4> QED
        BY <4>1, <4>2 DEF Section
    <3>2. UNCHANGED lock
      BY <1>1, BeginEffect
    <3> QED
      BY <3>1, <3>2, HolderStays
  <2>2. SectionHolder # c
    BY <1>1, BeginEffect, SectionHolderIs, CallsAssumption DEF IInv, CallerInv, Section
  <2>3. CASE UNCHANGED outcome
    BY <1>0, <1>1, <2>1, <2>3, BeginEffect
  <2>4. CASE outcome' = [outcome EXCEPT ![c] = "cancelled"]
    <3>1. outcome[c] = "none"
      BY <1>1, BeginEffect DEF IInv, CallerInv
    <3>2. Contract!Answer(c, "cancelled")
      BY <1>1, <2>1, <2>2, <2>4, <3>1, BeginEffect DEF Contract!Answer
    <3> QED
      BY <3>2 DEF Contract!Next, Contract!Answers
  <2> QED
    BY <1>1, <2>3, <2>4, BeginEffect
<1>2. ASSUME NEW c \in Calls, CallerReturns(c) PROVE [Contract!Next]_(Contract!vars)
  <2> DEFINE a == IF caller[c] = "cancelling" THEN "cancelled" ELSE result[c]
  <2>1. /\ Owned(c) /\ task[c] = "done"
        /\ outcome' = [outcome EXCEPT ![c] = a]
        /\ UNCHANGED <<task, server, lock, closed, closer>>
    BY <1>2 DEF CallerReturns, taskVars, wireVars, closeVars
  <2>2. SectionHolder' = SectionHolder
    BY <2>1, HolderStays
  <2>3. SectionHolder # c
    BY <2>1, SectionHolderIs, CallsAssumption DEF Section
  <2>4. outcome[c] = "none"
    BY <2>1 DEF IInv, CallerInv, Owned
  <2>5. a \in Contract!Answers
    BY <2>1 DEF IInv, TypeOK, WorkInv, Contract!Answers, Outcomes
  <2>6. a = "ok" /\ c \in Restarts => server[c] = "performed"
    BY DEF IInv, AnswerInv
  <2>7. a = "transient" => server[c] = "none"
    BY DEF IInv, AnswerInv, WorkInv
  <2>8. Contract!Answer(c, a)
    BY <2>1, <2>2, <2>3, <2>4, <2>6, <2>7 DEF Contract!Answer
  <2> QED
    BY <2>5, <2>8 DEF Contract!Next
<1>3. ASSUME NEW c \in Calls, LockAcquired(c) PROVE [Contract!Next]_(Contract!vars)
  <2>1. /\ task[c] = "acquire" /\ lock = c
        /\ UNCHANGED <<server, outcome, lock, closed, closer>>
    BY <1>3 DEF LockAcquired, callVars, closeVars
  <2>2. SectionHolder = NoCall
    BY <2>1, SectionHolderIs DEF Section
  <2>3. CASE Stopped(c)
    <3>1. task'[c] = "release"
      BY <1>3, <2>3 DEF LockAcquired, ToRelease, IInv, TypeOK
    <3> QED
      BY <1>0, <2>1, <3>1, HolderStays DEF Section
  <2>4. CASE ~Stopped(c)
    <3>1. task'[c] = "prepare"
      BY <1>3, <2>4 DEF LockAcquired, ToPhase, IInv, TypeOK
    <3>2. SectionHolder' = c
      BY <2>1, <3>1, SectionHolderIs DEF Section
    <3>3. ~closed /\ outcome[c] = "none"
      BY <2>1, <2>4 DEF Stopped, IInv, CallerInv
    <3>4. Contract!Enter(c)
      BY <2>1, <2>2, <3>2, <3>3 DEF Contract!Enter
    <3> QED
      BY <3>4 DEF Contract!Next
  <2> QED
    BY <2>3, <2>4
<1>4. ASSUME NEW c \in Calls, PreparationJoined(c) \/ PutFinished(c)
      PROVE  [Contract!Next]_(Contract!vars)
  <2>1. /\ task[c] \in Section
        /\ UNCHANGED <<server, outcome, lock, closed, closer>>
        /\ task'[c] \in {"query", "release"}
        /\ \A d \in Calls : d # c => task'[d] = task[d]
    BY <1>4 DEF PreparationJoined, PutFinished, ToRelease, ToPhase, Section, IInv, TypeOK,
       callVars, wireVars, closeVars
  <2>2. CASE task'[c] = "query"
    BY <1>0, <2>1, <2>2, HolderStays DEF Section
  <2>3. CASE task'[c] = "release"
    <3>1. SectionHolder = c /\ SectionHolder' = NoCall
      BY <2>1, <2>3, HolderLeaves DEF Section
    <3>2. Contract!Leave(c)
      BY <2>1, <3>1 DEF Contract!Leave
    <3> QED
      BY <3>2 DEF Contract!Next
  <2> QED
    BY <2>1, <2>2, <2>3
<1>5. ASSUME NEW c \in Calls, QueryClosed(c) PROVE [Contract!Next]_(Contract!vars)
  <2>1. /\ task[c] = "qclose"
        /\ UNCHANGED <<outcome, lock, closed, closer>>
        /\ \/ task' = [task EXCEPT ![c] = "release"] /\ UNCHANGED server
           \/ /\ task' = [task EXCEPT ![c] = "put"]
              /\ server' = [server EXCEPT ![c] = "due"]
    BY <1>5 DEF QueryClosed, ToRelease, ToPhase, callVars
  <2>2. CASE task' = [task EXCEPT ![c] = "release"] /\ UNCHANGED server
    <3>1. SectionHolder = c /\ SectionHolder' = NoCall
      BY <2>1, <2>2, HolderLeaves DEF Section, IInv, TypeOK
    <3>2. Contract!Leave(c)
      BY <2>1, <2>2, <3>1 DEF Contract!Leave
    <3> QED
      BY <3>2 DEF Contract!Next
  <2>3. CASE /\ task' = [task EXCEPT ![c] = "put"]
             /\ server' = [server EXCEPT ![c] = "due"]
    <3>1. server[c] = "none" /\ lock = c
      BY <2>1 DEF IInv, TypeOK, WorkInv, LockInv, SectionHoldsLock, Section
    <3>2. server'[c] # "none"
      BY <2>3 DEF IInv, TypeOK
    <3>3. c \in Restarts /\ ~closed
      BY <3>1, <3>2, GuardedStep
    <3>4. SectionHolder = c /\ SectionHolder' = c
      BY <2>1, <2>3, <3>1, SectionHolderIs DEF Section, IInv, TypeOK
    <3>5. Contract!Request(c)
      BY <2>1, <2>3, <3>1, <3>3, <3>4 DEF Contract!Request
    <3> QED
      BY <3>5 DEF Contract!Next
  <2> QED
    BY <2>1, <2>2, <2>3
<1>6. ASSUME NEW c \in Calls, PutLeaves(c) \/ ServerRestarts(c)
      PROVE  [Contract!Next]_(Contract!vars)
  <2>1. UNCHANGED <<task, outcome, lock, closed, closer>>
    BY <1>6 DEF PutLeaves, ServerRestarts, callVars, taskVars, closeVars
  <2>2. Contract!Send(c) \/ Contract!Perform(c)
    BY <1>6, <2>1, HolderStays DEF PutLeaves, ServerRestarts, Contract!Send, Contract!Perform
  <2> QED
    BY <2>2 DEF Contract!Next
<1>7. ASSUME Close PROVE [Contract!Next]_(Contract!vars)
  <2>1. UNCHANGED <<task, outcome, server, lock>> /\ ~closed /\ closed' = TRUE
    BY <1>7 DEF Close, callVars, taskVars, wireVars
  <2>2. closer # "done" /\ closer' # "done"
    BY <1>7 DEF Close, IInv, CloseInv
  <2>3. Contract!Shut
    BY <2>1, <2>2, HolderStays DEF Contract!Shut
  <2> QED
    BY <2>3 DEF Contract!Next
<1>8. ASSUME CloseJoined \/ CloseClient PROVE [Contract!Next]_(Contract!vars)
  <2>1. /\ UNCHANGED <<task, outcome, server, lock, closed>>
        /\ closer \in {"joining", "draining"} /\ closer' \in {"draining", "done"}
    BY <1>8 DEF CloseJoined, CloseClient, callVars, taskVars, wireVars
  <2>2. SectionHolder' = SectionHolder
    BY <2>1, HolderStays
  <2>3. CASE closer' = "draining"
    BY <1>0, <2>1, <2>2, <2>3
  <2>4. CASE closer' = "done"
    <3>1. closed /\ SectionHolder = NoCall
      <4>1. \A c \in Calls : task[c] \in {"none", "done"}
        BY <2>1, <2>4 DEF IInv, TypeOK, CallerInv, CloseInv, Owned
      <4> QED
        BY <2>1, <4>1, SectionHolderIs DEF IInv, CloseInv, Section
    <3>2. Contract!Down
      BY <2>1, <2>2, <2>4, <3>1 DEF Contract!Down
    <3> QED
      BY <3>2 DEF Contract!Next
  <2> QED
    BY <2>1, <2>3, <2>4
<1>9. ASSUME NEW c \in Calls,
             \/ TaskStarts(c) \/ CancelDelivered(c) \/ TimedOut(c) \/ InnerReturned(c)
             \/ LockGranted(c) \/ LockReleased(c)
      PROVE  [Contract!Next]_(Contract!vars)
  <2>1. UNCHANGED <<server, outcome, closed, closer>>
    BY <1>9 DEF TaskStarts, CancelDelivered, TimedOut, InnerReturned, LockGranted,
       LockReleased, callVars, taskVars, wireVars, closeVars
  <2>2. SectionHolder' = SectionHolder
    <3>1. CASE TaskStarts(c)
      BY <3>1, HolderStays DEF TaskStarts, IInv, TypeOK, Section
    <3>2. CASE CancelDelivered(c) \/ TimedOut(c) \/ InnerReturned(c)
      BY <3>2, HolderStays, CleanupPhases DEF CancelDelivered, TimedOut, InnerReturned,
         LeaveAwait, IInv, TypeOK, Section
    <3>3. CASE LockGranted(c)
      BY <3>3, SectionHolderIs, CallsAssumption DEF LockGranted, taskVars, Section
    <3>4. CASE LockReleased(c)
      BY <3>4, SectionHolderIs, CallsAssumption DEF LockReleased, Unlocked, IInv, TypeOK, Section
    <3> QED
      BY <1>9, <3>1, <3>2, <3>3, <3>4
  <2> QED
    BY <1>0, <2>1, <2>2
<1>10. ASSUME NEW c \in Calls,
              \/ CallerCancelled(c) \/ DeadlinePasses(c) \/ ClientBuilt(c) \/ PreparationEnds(c)
              \/ SocketOpens(c) \/ QueryEnds(c) \/ PutEnds(c) \/ InnerStops(c)
       PROVE  [Contract!Next]_(Contract!vars)
  <2>1. UNCHANGED <<task, lock, server, outcome, closed, closer>>
    BY <1>10 DEF CallerCancelled, DeadlinePasses, ClientBuilt, PreparationEnds, SocketOpens, QueryEnds,
       PutEnds, InnerStops, callVars, taskVars, wireVars, closeVars
  <2> QED
    BY <1>0, <2>1, HolderStays
<1>11. ASSUME CloseCancels \/ UNCHANGED vars PROVE [Contract!Next]_(Contract!vars)
  <2>1. /\ UNCHANGED <<task, lock, server, outcome, closed>>
        /\ closer' = "done" <=> closer = "done"
    BY <1>11 DEF CloseCancels, vars, callVars, taskVars, wireVars, closeVars
  <2> QED
    BY <1>0, <2>1, HolderStays
<1> QED
  BY <1>1, <1>2, <1>3, <1>4, <1>5, <1>6, <1>7, <1>8, <1>9, <1>10, <1>11
     DEF Next, LoopStep, Environment, CloseStep, Finished

\* The client implements the contract, for any number of calls.
THEOREM ContractImplemented == Spec => ImplementsContract
<1>1. Init => Contract!Init
  BY CallsAssumption DEF Init, Contract!Init, SectionHolder, Section
<1>2. IInv /\ IInv' /\ [Next]_vars => [Contract!Next]_(Contract!vars)
  BY ContractStep
<1> QED
  BY <1>1, <1>2, Invariance, PTL DEF Spec, ImplementsContract, Contract!Spec
=============================================================================
