------------------------------ MODULE HiveQuery ------------------------------
(***************************************************************************)
(* PyHiveMetadataAdapter: each metadata statement opens a connection of its *)
(* own in a thread of the pool, and a cancelled caller waits for that       *)
(* thread to close it.  get_table_schema with include_ddl makes an          *)
(* invocation of two statements.                                            *)
(***************************************************************************)
EXTENDS Naturals, FiniteSets

CONSTANTS Calls,     \* uncached tool invocations
          Workers    \* threads of the executor behind asyncio.to_thread

VARIABLES
  caller,    \* the coroutine in _execute
  left,      \* statements the invocation still has to run
  thread,    \* step of _execute_blocking
  conn,      \* the PyHive connection of the current statement
  cursor,    \* its cursor
  failure,   \* primary_failure of the current statement
  opened,    \* connections opened by the invocation (history)
  outcome    \* what the caller got

vars == <<caller, left, thread, conn, cursor, failure, opened, outcome>>

Steps == {"connect", "cursor", "execute", "closeCursor", "closeConnection"}
Failures == {"connect", "cursor", "execute", "closeCursor", "closeConnection"}

TypeOK ==
  /\ caller \in [Calls -> {"idle", "awaiting", "cancelling", "returned"}]
  /\ left \in [Calls -> 0..2]
  /\ thread \in [Calls -> Steps \cup {"none", "queued", "done"}]
  /\ conn \in [Calls -> {"none", "open", "closed", "leaked"}]
  /\ cursor \in [Calls -> {"none", "open", "closed", "broken"}]
  /\ failure \in [Calls -> Failures \cup {"none"}]
  /\ opened \in [Calls -> 0..2]
  /\ outcome \in [Calls -> Failures \cup {"none", "ok", "shape", "cancelled"}]

Init ==
  /\ caller = [c \in Calls |-> "idle"]
  /\ left = [c \in Calls |-> 0]
  /\ thread = [c \in Calls |-> "none"]
  /\ conn = [c \in Calls |-> "none"]
  /\ cursor = [c \in Calls |-> "none"]
  /\ failure = [c \in Calls |-> "none"]
  /\ opened = [c \in Calls |-> 0]
  /\ outcome = [c \in Calls |-> "none"]

------------------------------------------------------------------------------
(* The coroutine.                                                           *)

\* A tool call that misses the cache: one statement, or two with the DDL.
Begin(c) ==
  /\ caller[c] = "idle"
  /\ caller' = [caller EXCEPT ![c] = "awaiting"]
  /\ \E n \in 1..2 : left' = [left EXCEPT ![c] = n]
  /\ thread' = [thread EXCEPT ![c] = "queued"]
  /\ UNCHANGED <<conn, cursor, failure, opened, outcome>>

\* Any number of cancellations: _wait_for_worker_cleanup absorbs them.
Cancelled(c) ==
  /\ caller[c] = "awaiting"
  /\ caller' = [caller EXCEPT ![c] = "cancelling"]
  /\ UNCHANGED <<left, thread, conn, cursor, failure, opened, outcome>>

Returns(c, how) == /\ caller' = [caller EXCEPT ![c] = "returned"]
                   /\ outcome' = [outcome EXCEPT ![c] = how]

\* There is another statement.
More(c) == left[c] > 1

\* The rows of a statement that was not the last are parsed and the next
\* statement starts in a new thread task.
NextStatement(c) ==
  /\ caller[c] = "awaiting" /\ thread[c] = "done" /\ failure[c] = "none"
  /\ More(c)
  /\ left' = [left EXCEPT ![c] = @ - 1]
  /\ thread' = [thread EXCEPT ![c] = "queued"]
  /\ conn' = [conn EXCEPT ![c] = "none"]
  /\ cursor' = [cursor EXCEPT ![c] = "none"]
  /\ UNCHANGED <<caller, failure, opened, outcome>>

\* The last statement's rows are returned, any statement's failure is
\* raised, or its rows have an unexpected shape.
Resumes(c) ==
  /\ caller[c] = "awaiting" /\ thread[c] = "done"
  /\ \/ failure[c] # "none" /\ Returns(c, failure[c])
     \/ failure[c] = "none" /\ left[c] = 1 /\ Returns(c, "ok")
     \/ failure[c] = "none" /\ Returns(c, "shape")
  /\ UNCHANGED <<left, thread, conn, cursor, failure, opened>>

\* The thread is over: the cancellation propagates.  The variant waits
\* for a result it may not have.
CancelAfterRows(c) ==
  /\ caller[c] = "cancelling" /\ thread[c] = "done" /\ failure[c] = "none"
  /\ Returns(c, "cancelled")
  /\ UNCHANGED <<left, thread, conn, cursor, failure, opened>>
CancelPropagates(c) ==
  /\ caller[c] = "cancelling" /\ thread[c] = "done"
  /\ Returns(c, "cancelled")
  /\ UNCHANGED <<left, thread, conn, cursor, failure, opened>>

------------------------------------------------------------------------------
(* The thread: _execute_blocking.                                           *)

Busy == {c \in Calls : thread[c] \in Steps}

ThreadStarts(c) ==
  /\ thread[c] = "queued" /\ Cardinality(Busy) < Workers
  /\ thread' = [thread EXCEPT ![c] = "connect"]
  /\ UNCHANGED <<caller, left, conn, cursor, failure, opened, outcome>>

\* The first exception is the primary failure; later ones do not replace it.
\* The variant does not count those of the clean-up.
FailsUnlessClosing(c, at) ==
  failure' = [failure EXCEPT ![c] =
                IF @ = "none" /\ at \notin {"closeCursor", "closeConnection"} THEN at ELSE @]
Fails(c, at) ==
  failure' = [failure EXCEPT ![c] = IF @ = "none" THEN at ELSE @]

Goes(c, step) == thread' = [thread EXCEPT ![c] = step]

Connects(c) ==
  /\ thread[c] = "connect"
  /\ \/ /\ conn' = [conn EXCEPT ![c] = "open"]
        /\ opened' = [opened EXCEPT ![c] = @ + 1]
        /\ Goes(c, "cursor")
        /\ UNCHANGED failure
     \/ Fails(c, "connect") /\ Goes(c, "done") /\ UNCHANGED <<conn, opened>>
  /\ UNCHANGED <<caller, left, cursor, outcome>>

MakesCursor(c) ==
  /\ thread[c] = "cursor"
  /\ \/ cursor' = [cursor EXCEPT ![c] = "open"] /\ Goes(c, "execute") /\ UNCHANGED failure
     \/ Fails(c, "cursor") /\ Goes(c, "closeConnection") /\ UNCHANGED cursor
  /\ UNCHANGED <<caller, left, conn, opened, outcome>>

\* execute, fetchall and the snapshot of the rows.
Executes(c) ==
  /\ thread[c] = "execute"
  /\ Goes(c, "closeCursor")
  /\ Fails(c, "execute") \/ UNCHANGED failure
  /\ UNCHANGED <<caller, left, conn, cursor, opened, outcome>>

ClosesCursor(c) ==
  /\ thread[c] = "closeCursor"
  /\ Goes(c, "closeConnection")
  /\ \/ cursor' = [cursor EXCEPT ![c] = "closed"] /\ UNCHANGED failure
     \/ cursor' = [cursor EXCEPT ![c] = "broken"] /\ Fails(c, "closeCursor")
  /\ UNCHANGED <<caller, left, conn, opened, outcome>>

\* close() may raise before it reached the transport; the transport is then
\* closed directly, and if that raises too nothing more can be done.
ClosesConnection(c) ==
  /\ thread[c] = "closeConnection"
  /\ Goes(c, "done")
  /\ \/ conn' = [conn EXCEPT ![c] = "closed"] /\ UNCHANGED failure
     \/ /\ \E end \in {"closed", "leaked"} : conn' = [conn EXCEPT ![c] = end]
        /\ Fails(c, "closeConnection")
  /\ UNCHANGED <<caller, left, cursor, opened, outcome>>

------------------------------------------------------------------------------

Resume(c) == NextStatement(c) \/ Resumes(c) \/ CancelPropagates(c)

ThreadStep(c) == \/ Connects(c) \/ MakesCursor(c) \/ Executes(c)
                 \/ ClosesCursor(c) \/ ClosesConnection(c)

Finished == (\A c \in Calls : caller[c] = "returned") /\ UNCHANGED vars

Next == \/ \E c \in Calls : \/ Begin(c) \/ Cancelled(c) \/ Resume(c)
                            \/ ThreadStarts(c) \/ ThreadStep(c)
        \/ Finished

\* The loop and the pool make progress, and every PyHive call returns or
\* raises: no timeout of the adapter's own would end one that does not.
Spec == /\ Init /\ [][Next]_vars
        /\ \A c \in Calls : WF_vars(Resume(c)) /\ WF_vars(ThreadStarts(c))
                            /\ WF_vars(ThreadStep(c))

------------------------------------------------------------------------------
(* Properties.                                                              *)

\* However the invocation ends, cancelled while queued or running included,
\* its thread has ended and its last connection and cursor were closed.
ReleasedOnReturn == \A c \in Calls :
  caller[c] = "returned" =>
    thread[c] = "done" /\ conn[c] # "open" /\ cursor[c] # "open"

\* Rows are returned only if every clean-up succeeded: an invocation whose
\* connection may still be open at the server never reports success.
RowsNeedCleanClose == \A c \in Calls :
  outcome[c] \in {"ok", "shape"} =>
    failure[c] = "none" /\ conn[c] = "closed" /\ cursor[c] = "closed"

\* Everybody is served, and a cancelled caller gets away.
CallsEnd == \A c \in Calls : caller[c] = "awaiting" ~> caller[c] = "returned"

\* What the documentation says of an uncached invocation.
OneConnection == \A c \in Calls : opened[c] <= 1
=============================================================================
