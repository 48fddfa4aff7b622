--------------------------- MODULE ZeppelinRestart ---------------------------
(***************************************************************************)
(* Interpreter-binding discovery, notebook-scoped restart and shutdown of   *)
(* ZeppelinHttpClient.  Every call runs in a task the client owns; the task *)
(* takes the discovery lock through a separate acquisition task, logs in    *)
(* and fetches a ticket (preparation), asks the bindings over one           *)
(* WebSocket, and, for a restart, sends one PUT.  At every await the        *)
(* caller's cancellation, close() and the call's deadline may strike.       *)
(*                                                                          *)
(* The awaited inner task of a call (preparation, query.work or put) is one *)
(* variable because the three follow one another.  A cancellation that was  *)
(* requested but not yet delivered is pendingCancel; wait_for may swallow   *)
(* it when the inner result is already there (Python 3.10 and 3.11).        *)
(***************************************************************************)
CONSTANTS Calls,      \* the calls made during the life of the process
          Restarts,   \* restart_interpreter calls with a notebook_id;
                      \* the others are get_interpreter_bindings calls
          Stubborn,   \* calls whose PUT transport ignores cancellation
          NoCall

ASSUME CallsAssumption == /\ Restarts \subseteq Calls
                          /\ Stubborn \subseteq Restarts
                          /\ NoCall \notin Calls

VARIABLES
  caller,         \* the coroutine that called the client
  outcome,        \* what it got
  task,           \* where the owned task is
  result,         \* what the owned task is about to return or raise
  cancelled,      \* the call's asyncio.Event `cancelled`
  pendingCancel,  \* task.cancel() requested, CancelledError not yet raised
  expired,        \* the loop clock has passed the call's deadline
  inner,          \* the inner task awaited in this phase
  socket,         \* the query's WebSocket is open
  selected,       \* the bindings read name the setting, selected
  server,         \* the restart request: a task has it to send ("due"), it has
                  \* left ("sent"), performed by the Zeppelin server
  lock,           \* owner of _discovery_lock
  closed,         \* self._closed
  closer,         \* self._close_task
  client          \* self._client

callVars == <<caller, outcome, cancelled, expired>>
taskVars == <<task, result, pendingCancel>>
wireVars == <<inner, socket, selected, server>>
closeVars == <<closed, closer, client>>
vars == <<callVars, taskVars, wireVars, lock, closeVars>>

Outcomes == {"ok", "transient", "permanent", "cancelled"}

\* Phases in which the task suspends on inner work, and the clean-up phase
\* (the finally block) that each of them leaves through.
CleanupOf == [acquire |-> "release", prepare |-> "prejoin",
              query |-> "qclose", put |-> "putfinish"]
Awaits == DOMAIN CleanupOf
Section == {"prepare", "prejoin", "query", "qclose", "put", "putfinish"}
Phases == {"none", "created", "acquire", "release", "done"} \cup Section

TypeOK ==
  /\ caller \in [Calls -> {"idle", "awaiting", "cancelling", "returned"}]
  /\ outcome \in [Calls -> Outcomes \cup {"none"}]
  /\ task \in [Calls -> Phases]
  /\ result \in [Calls -> Outcomes \cup {"none"}]
  /\ cancelled \in [Calls -> BOOLEAN]
  /\ pendingCancel \in [Calls -> BOOLEAN]
  /\ expired \in [Calls -> BOOLEAN]
  /\ inner \in [Calls -> {"none", "running", "ok", "transient", "permanent"}]
  /\ socket \in [Calls -> BOOLEAN]
  /\ selected \in [Calls -> BOOLEAN]
  /\ server \in [Calls -> {"none", "due", "sent", "performed"}]
  /\ lock \in Calls \cup {NoCall}
  /\ closed \in BOOLEAN
  /\ closer \in {"none", "created", "joining", "draining", "done"}
  /\ client \in {"none", "open"}

Init ==
  /\ caller = [c \in Calls |-> "idle"]
  /\ outcome = [c \in Calls |-> "none"]
  /\ task = [c \in Calls |-> "none"]
  /\ result = [c \in Calls |-> "none"]
  /\ cancelled = [c \in Calls |-> FALSE]
  /\ pendingCancel = [c \in Calls |-> FALSE]
  /\ expired = [c \in Calls |-> FALSE]
  /\ inner = [c \in Calls |-> "none"]
  /\ socket = [c \in Calls |-> FALSE]
  /\ selected = [c \in Calls |-> FALSE]
  /\ server = [c \in Calls |-> "none"]
  /\ lock = NoCall
  /\ closed = FALSE
  /\ closer = "none"
  /\ client = "none"

------------------------------------------------------------------------------
(* Helpers.                                                                 *)

Owned(c) == caller[c] \in {"awaiting", "cancelling"}

\* The recheck after every await: `if self._closed or cancelled.is_set()`.
\* The variant forgets the shutdown.
StoppedByCallerOnly(c) == cancelled[c]
Stopped(c) == closed \/ cancelled[c]

\* Every error of a notebook-scoped restart is re-raised with
\* retryable=False; a discovery error keeps its own flag.  The variant keeps
\* the flag of every error.
ReportedAsRaised(c, r) == r
Reported(c, r) == IF c \in Restarts /\ r = "transient" THEN "permanent" ELSE r

\* How a suspended step ends: a cancellation that arrived during it beats
\* its result or error, a failure beats the rechecks.  The variant drops the
\* rechecks.
AfterJoinUnchecked(c) == IF pendingCancel[c] THEN "cancelled" ELSE result[c]
AfterJoin(c) == CASE pendingCancel[c] -> "cancelled"
                  [] ~pendingCancel[c] /\ result[c] # "none" -> result[c]
                  [] ~pendingCancel[c] /\ result[c] = "none" /\ Stopped(c) -> "cancelled"
                  [] OTHER -> "none"

\* The clean-up of a preparation or a query joins the inner task; the variant
\* only cancels it.
JoinsNothing(c) == TRUE
Joined(c) == inner[c] # "running"

\* _finish_http_work waits for the PUT a bounded time, and so gives up on one
\* whose transport does not stop; the variant waits until it has ended.
PutAwaited(c) == inner[c] # "running"
PutLetGo(c) == inner[c] = "running" => c \in Stubborn

\* _release_discovery_lock releases iff the acquisition succeeded.  The
\* variant takes a call that timed out for one that was never given the lock.
UnlockedUnlessExpired(c) == IF lock = c /\ ~expired[c] THEN NoCall ELSE lock
Unlocked(c) == IF lock = c THEN NoCall ELSE lock

\* The task leaves its section with result r; its finally block is next.
ToRelease(c, r) == /\ task' = [task EXCEPT ![c] = "release"]
                   /\ result' = [result EXCEPT ![c] = Reported(c, r)]
                   /\ pendingCancel' = [pendingCancel EXCEPT ![c] = FALSE]

\* The task goes on to phase p, whose inner task starts now.
ToPhase(c, p) == /\ task' = [task EXCEPT ![c] = p]
                 /\ inner' = [inner EXCEPT ![c] = "running"]
                 /\ pendingCancel' = [pendingCancel EXCEPT ![c] = FALSE]
                 /\ UNCHANGED result

\* The await of the phase ends with r; its clean-up starts.
LeaveAwait(c, r) == /\ task' = [task EXCEPT ![c] = CleanupOf[task[c]]]
                    /\ result' = [result EXCEPT ![c] = Reported(c, r)]

------------------------------------------------------------------------------
(* The caller.                                                              *)

\* get_interpreter_bindings, restart_interpreter(notebook_id=...)
Begin(c) ==
  /\ caller[c] = "idle"
  /\ \/ /\ closed
        /\ caller' = [caller EXCEPT ![c] = "returned"]
        /\ outcome' = [outcome EXCEPT ![c] = "cancelled"]
        /\ UNCHANGED task
     \/ /\ ~closed
        /\ caller' = [caller EXCEPT ![c] = "awaiting"]
        /\ task' = [task EXCEPT ![c] = "created"]
        /\ UNCHANGED outcome
  /\ UNCHANGED <<cancelled, expired, result, pendingCancel, wireVars, lock, closeVars>>

\* task.cancel() on a task that is not over; the variant forgets it.
NotForwarded(c) == FALSE
Forwarded(c) == task[c] # "done"

\* The MCP request is cancelled while _await_owned_task shields the task.
CallerCancelled(c) ==
  /\ caller[c] = "awaiting"
  /\ caller' = [caller EXCEPT ![c] = "cancelling"]
  /\ cancelled' = [cancelled EXCEPT ![c] = TRUE]
  /\ pendingCancel' = [pendingCancel EXCEPT ![c] = Forwarded(c)]
  /\ UNCHANGED <<outcome, expired, task, result, wireVars, lock, closeVars>>

\* The owned task is over: its result, or the caller's own cancellation.
CallerReturns(c) ==
  /\ Owned(c) /\ task[c] = "done"
  /\ caller' = [caller EXCEPT ![c] = "returned"]
  /\ outcome' = [outcome EXCEPT ![c] =
                   IF caller[c] = "cancelling" THEN "cancelled" ELSE result[c]]
  /\ UNCHANGED <<cancelled, expired, taskVars, wireVars, lock, closeVars>>

DeadlinePasses(c) ==
  /\ Owned(c) /\ ~expired[c]
  /\ expired' = [expired EXCEPT ![c] = TRUE]
  /\ UNCHANGED <<caller, outcome, cancelled, taskVars, wireVars, lock, closeVars>>

------------------------------------------------------------------------------
(* The owned task: _serialized_discovery and _serialized_restart.           *)

\* A task cancelled before its first step never runs its body.
TaskStarts(c) ==
  /\ task[c] = "created"
  /\ \/ /\ pendingCancel[c]
        /\ task' = [task EXCEPT ![c] = "done"]
        /\ result' = [result EXCEPT ![c] = "cancelled"]
        /\ pendingCancel' = [pendingCancel EXCEPT ![c] = FALSE]
     \/ /\ ~pendingCancel[c]
        /\ task' = [task EXCEPT ![c] = "acquire"]
        /\ UNCHANGED <<result, pendingCancel>>
  /\ UNCHANGED <<callVars, wireVars, lock, closeVars>>

\* asyncio.Lock wakes a waiting acquisition task (any of them: the order in
\* which waiters are served plays no part here).
LockGranted(c) ==
  /\ task[c] = "acquire" /\ lock = NoCall
  /\ lock' = c
  /\ UNCHANGED <<callVars, taskVars, wireVars, closeVars>>

\* CancelledError is raised inside the await the task is suspended on.
CancelDelivered(c) ==
  /\ task[c] \in Awaits /\ pendingCancel[c]
  /\ LeaveAwait(c, "cancelled")
  /\ pendingCancel' = [pendingCancel EXCEPT ![c] = FALSE]
  /\ UNCHANGED <<callVars, wireVars, lock, closeVars>>

\* wait_for, or asyncio.wait in query_bindings, gives up at the deadline.
\* Behind wait_for's shield the acquisition or the inner task may have ended
\* in the meantime; asyncio.wait sees a query that did.
TimedOut(c) ==
  /\ task[c] \in Awaits /\ expired[c]
  /\ task[c] = "query" => inner[c] = "running"
  /\ LeaveAwait(c, "transient")
  /\ UNCHANGED <<pendingCancel, callVars, wireVars, lock, closeVars>>

\* The lock is ours; _discover_locked creates the preparation task.
LockAcquired(c) ==
  /\ task[c] = "acquire" /\ lock = c
  /\ \/ Stopped(c) /\ ToRelease(c, "cancelled") /\ UNCHANGED inner
     \/ ~Stopped(c) /\ ToPhase(c, "prepare")
  /\ UNCHANGED <<callVars, socket, selected, server, lock, closeVars>>

\* The awaited inner task is over; a cancellation pending at this moment is
\* either swallowed here (wait_for) or delivered by CancelDelivered.
InnerReturned(c) ==
  /\ task[c] \in {"prepare", "query", "put"} /\ inner[c] # "running"
  /\ pendingCancel[c] => task[c] # "query"
  /\ LeaveAwait(c, IF inner[c] = "ok" THEN "none" ELSE inner[c])
  /\ pendingCancel' = [pendingCancel EXCEPT ![c] = FALSE]
  /\ UNCHANGED <<callVars, wireVars, lock, closeVars>>

\* _discover_locked has joined the preparation task (a context it refuses
\* counts as a failed preparation); query_bindings refuses to connect when no
\* time remains.
PreparationJoined(c) ==
  /\ task[c] = "prejoin" /\ Joined(c)
  /\ LET r == IF AfterJoin(c) = "none" /\ expired[c] THEN "transient" ELSE AfterJoin(c)
     IN \/ r # "none" /\ ToRelease(c, r) /\ UNCHANGED inner
        \/ r = "none" /\ ToPhase(c, "query")
  /\ UNCHANGED <<callVars, socket, selected, server, lock, closeVars>>

\* What follows the query, "none" being the PUT: a restart checks that the
\* setting is selected, that time remains, and that its cookies parse.
AfterQuery(c) ==
  CASE AfterJoin(c) # "none" -> {AfterJoin(c)}
    [] AfterJoin(c) = "none" /\ c \notin Restarts -> {"ok"}
    [] AfterJoin(c) = "none" /\ c \in Restarts /\ ~selected[c] -> {"permanent"}
    [] AfterJoin(c) = "none" /\ c \in Restarts /\ selected[c] /\ expired[c] -> {"transient"}
    [] OTHER -> {"none", "permanent"}

\* What is left of a socket whose closing failed or took too long: _close
\* aborts its transport.  The variant leaves it at that.
LeftOpen(c) == socket[c]
Aborted(c) == FALSE

\* The receive task is over and the socket is closed, or aborted; a restart
\* creates the task of its PUT.
QueryClosed(c) ==
  /\ task[c] = "qclose" /\ Joined(c)
  /\ \E failed \in BOOLEAN :
       socket' = [socket EXCEPT ![c] = IF failed THEN Aborted(c) ELSE FALSE]
  /\ \E r \in AfterQuery(c) :
       \/ r # "none" /\ ToRelease(c, r) /\ UNCHANGED <<inner, server, client>>
       \/ /\ r = "none"
          /\ ToPhase(c, "put")
          /\ server' = [server EXCEPT ![c] = "due"]
          /\ client' = "open"
  /\ UNCHANGED <<callVars, selected, lock, closed, closer>>

\* _finish_http_work is over: the PUT task ended, or it ignored both the
\* cancellation and the abort and stays behind.  The answer is then parsed.
PutFinished(c) ==
  /\ task[c] = "putfinish" /\ PutLetGo(c)
  /\ \E parsed \in {"ok", "permanent"} :
       ToRelease(c, IF AfterJoin(c) = "none" THEN parsed ELSE AfterJoin(c))
  /\ UNCHANGED <<callVars, wireVars, lock, closeVars>>

\* _release_discovery_lock: an acquisition that succeeded is given back, one
\* that did not was cancelled; a cancellation during it replaces the result.
LockReleased(c) ==
  /\ task[c] = "release"
  /\ lock' = Unlocked(c)
  /\ task' = [task EXCEPT ![c] = "done"]
  /\ result' = [result EXCEPT ![c] = IF pendingCancel[c] THEN "cancelled" ELSE result[c]]
  /\ pendingCancel' = [pendingCancel EXCEPT ![c] = FALSE]
  /\ UNCHANGED <<callVars, wireVars, closeVars>>

------------------------------------------------------------------------------
(* The inner tasks and the Zeppelin server.                                 *)

\* The preparation's first step: _ensure_client.
ClientBuilt(c) ==
  /\ task[c] = "prepare" /\ inner[c] = "running" /\ client = "none"
  /\ client' = "open"
  /\ UNCHANGED <<callVars, taskVars, wireVars, lock, closed, closer>>

\* Login, notebook precheck and ticket: succeed or fail.  An unusable base
\* URL fails before the client is built.
PreparationEnds(c) ==
  /\ task[c] = "prepare" /\ inner[c] = "running"
  /\ \E r \in {"ok", "transient", "permanent"} :
       /\ r # "permanent" => client = "open"
       /\ inner' = [inner EXCEPT ![c] = r]
  /\ UNCHANGED <<callVars, taskVars, socket, selected, server, lock, closeVars>>

SocketOpens(c) ==
  /\ task[c] = "query" /\ inner[c] = "running" /\ ~socket[c]
  /\ socket' = [socket EXCEPT ![c] = TRUE]
  /\ UNCHANGED <<callVars, taskVars, inner, selected, server, lock, closeVars>>

\* The bindings arrive over the open socket, or connecting, sending or
\* receiving fails.
QueryEnds(c) ==
  /\ task[c] = "query" /\ inner[c] = "running"
  /\ \/ /\ socket[c]
        /\ inner' = [inner EXCEPT ![c] = "ok"]
        /\ \E s \in BOOLEAN : selected' = [selected EXCEPT ![c] = s]
     \/ /\ \E r \in {"transient", "permanent"} : inner' = [inner EXCEPT ![c] = r]
        /\ UNCHANGED selected
  /\ UNCHANGED <<callVars, taskVars, socket, server, lock, closeVars>>

\* The PUT's task first runs a turn of the loop after it was created, and then
\* hands the request to the transport, which may have to connect.  It may leave
\* as long as that task runs.
PutLeaves(c) ==
  /\ server[c] = "due" /\ inner[c] = "running"
  /\ server' = [server EXCEPT ![c] = "sent"]
  /\ UNCHANGED <<callVars, taskVars, inner, socket, selected, lock, closeVars>>

\* The PUT is answered OK only by a server that did the restart; it may
\* fail, with a body or without, whether it left, and the server did it, or not.
PutEnds(c) ==
  /\ server[c] # "none" /\ inner[c] = "running"
  /\ \/ server[c] = "performed" /\ inner' = [inner EXCEPT ![c] = "ok"]
     \/ \E r \in {"transient", "permanent"} : inner' = [inner EXCEPT ![c] = r]
  /\ UNCHANGED <<callVars, taskVars, socket, selected, server, lock, closeVars>>

\* A cancelled inner task stops: at once, except a PUT whose transport does
\* not cooperate.
InnerStops(c) ==
  /\ task[c] \in {"prejoin", "qclose", "putfinish"} /\ inner[c] = "running"
  /\ task[c] = "putfinish" => c \notin Stubborn
  /\ inner' = [inner EXCEPT ![c] = "permanent"]
  /\ UNCHANGED <<callVars, taskVars, socket, selected, server, lock, closeVars>>

\* The server processes a request that has left, in its own time.
ServerRestarts(c) ==
  /\ server[c] = "sent"
  /\ server' = [server EXCEPT ![c] = "performed"]
  /\ UNCHANGED <<callVars, taskVars, inner, socket, selected, lock, closeVars>>

------------------------------------------------------------------------------
(* Shutdown.                                                                *)

Close ==
  /\ ~closed
  /\ closed' = TRUE
  /\ closer' = "created"
  /\ UNCHANGED <<callVars, taskVars, wireVars, lock, client>>

\* The tasks _close cancels, and the condition for its gather to end.  The
\* variant forgets the gather.
OwnedTasks == {c \in Calls : Owned(c) /\ task[c] # "done"}
GatheredNone == TRUE
Gathered == \A c \in Calls : Owned(c) => task[c] = "done"

\* _close cancels every owned task once and gathers them.
CloseCancels ==
  /\ closer = "created"
  /\ closer' = "joining"
  /\ pendingCancel' = [c \in Calls |-> pendingCancel[c] \/ c \in OwnedTasks]
  /\ UNCHANGED <<callVars, task, result, wireVars, lock, closed, client>>

CloseJoined ==
  /\ closer = "joining" /\ Gathered
  /\ closer' = IF client = "open" THEN "draining" ELSE "done"
  /\ UNCHANGED <<callVars, taskVars, wireVars, lock, closed, client>>

\* aclose of the client, bounded, then abort of whatever is still open; the
\* client is forgotten.
ClientForgotten == "none"
CloseClient ==
  /\ closer = "draining"
  /\ closer' = "done"
  /\ client' = ClientForgotten
  /\ UNCHANGED <<callVars, taskVars, wireVars, lock, closed>>

------------------------------------------------------------------------------

\* Steps the event loop or the deadline timers take without outside help.
LoopStep(c) == \/ TaskStarts(c) \/ LockGranted(c) \/ LockAcquired(c)
               \/ CancelDelivered(c) \/ TimedOut(c) \/ InnerReturned(c)
               \/ PreparationJoined(c) \/ QueryClosed(c) \/ PutFinished(c)
               \/ LockReleased(c) \/ InnerStops(c) \/ ClientBuilt(c)
               \/ CallerReturns(c)

Environment(c) == \/ PreparationEnds(c) \/ SocketOpens(c) \/ QueryEnds(c)
                  \/ PutLeaves(c) \/ PutEnds(c) \/ ServerRestarts(c)
                  \/ Begin(c) \/ CallerCancelled(c)

CloseStep == CloseCancels \/ CloseJoined \/ CloseClient

\* The process is shut down and every call that was made has returned.
Finished == /\ closer = "done"
            /\ \A c \in Calls : caller[c] = "returned"
            /\ UNCHANGED vars

Next == \/ \E c \in Calls : LoopStep(c) \/ Environment(c) \/ DeadlinePasses(c)
        \/ Close
        \/ CloseStep
        \/ Finished

Spec == Init /\ [][Next]_vars

(***************************************************************************)
(* The event loop runs every task that is ready; nothing is assumed of the  *)
(* server, the callers, the moment of close() or the clock.  Timers says    *)
(* that the loop's clock advances: what deadlines add to cancellation.      *)
(***************************************************************************)
FairSpec == Spec /\ (\A c \in Calls : WF_vars(LoopStep(c))) /\ WF_vars(CloseStep)

Timers == \A c \in Calls : WF_vars(DeadlinePasses(c))

------------------------------------------------------------------------------
(* Properties.                                                              *)

\* Discovery is serialized: a call that prepares, queries or restarts owns
\* the discovery lock, whatever timed out or was cancelled around it.
SectionHoldsLock == \A c \in Calls : task[c] \in Section => lock = c

\* The lock is never left with a call whose task has ended, in particular
\* not when the acquisition succeeded while its waiter was giving up.
LockNotLeaked == \A c \in Calls :
  lock = c => task[c] \in Section \cup {"acquire", "release"}

\* When an owned task ends its socket is closed and its inner work is over;
\* only a PUT whose transport ignores cancellation is left behind.
OwnedWorkEnded == \A c \in Calls :
  task[c] = "done" =>
    /\ ~socket[c]
    /\ inner[c] = "running" => c \in Stubborn /\ server[c] # "none"

\* A caller told "ok" has had the selected setting restarted by the server,
\* and of a caller invited to retry no request was even made.
AnswerTruthful == \A c \in Restarts :
  /\ outcome[c] = "ok" => server[c] = "performed" /\ selected[c]
  /\ outcome[c] = "transient" => server[c] = "none"

\* After close() nothing of the client is left: no lock, no HTTP client, no
\* unfinished task, and no inner work but a PUT that cannot be stopped.
ShutdownQuiescent ==
  closer = "done" =>
    /\ lock = NoCall /\ client = "none"
    /\ \A c \in Calls : /\ task[c] \in {"none", "done"} /\ ~socket[c]
                        /\ inner[c] = "running" => c \in Stubborn

\* A PUT is made only for a call that holds the lock and has read in this
\* very tenure that the setting is selected, that nobody cancelled, whose
\* deadline has not passed, and never once close() was called.  It leaves a
\* turn of the loop later or more, when a cancellation or close() may have come
\* between; but the call still holds the lock then, unless its transport
\* ignores cancellation.
RestartGuarded ==
  [][\A c \in Calls :
       /\ server[c] = "none" /\ server'[c] # "none" =>
            /\ lock = c /\ selected[c] /\ c \in Restarts
            /\ ~closed /\ ~cancelled[c] /\ ~expired[c]
       /\ server[c] = "due" /\ server'[c] = "sent" => lock = c \/ c \in Stubborn]_vars

\* Every call ends, by its deadline at the latest, with any lock contention
\* and any server.
CallsEnd == Timers => \A c \in Calls : Owned(c) ~> caller[c] = "returned"

\* A cancelled caller and a shutdown do not have to wait for a deadline.
LeavesPromptly ==
  /\ \A c \in Calls : caller[c] = "cancelling" ~> caller[c] = "returned"
  /\ closed ~> closer = "done"

------------------------------------------------------------------------------
(* Refinement of the contract.                                              *)

\* The call that is inside its section, if any.
SectionHolder == IF \E c \in Calls : task[c] \in Section
                 THEN CHOOSE c \in Calls : task[c] \in Section
                 ELSE NoCall

Contract == INSTANCE InterpreterRestarts
              WITH holder <- SectionHolder, effect <- server, answer <- outcome,
                   shut <- closed, down <- closer = "done"

\* Every behaviour of the client is one the contract allows: calls take turns
\* at the session, a restart request is made only in the call's turn and before
\* the shutdown, and answers agree with what the server did.
ImplementsContract == Contract!Spec
=============================================================================
