----------------------------- MODULE DolphinCalls -----------------------------
(***************************************************************************)
(* One caller of start_workflow and get_object: the requests a call makes, *)
(* what the server does with them, and what the caller is told.  A request *)
(* whose call has given up may still reach the server and be carried out.  *)
(* The caller repeats a call when, and only when, the error says that it   *)
(* is retryable.                                                           *)
(***************************************************************************)
EXTENDS Integers, FiniteSets

CONSTANT MaxRepeats    \* bound: repetitions of a call

ASSUME RepeatsAssumption == MaxRepeats \in Nat

VARIABLES
  op,         \* the operation called
  pc,         \* "idle", "sent" while a request is out, "done"
  step,       \* which of the call's requests is out
  arrived,    \* the request that is out has reached the server
  strays,     \* start requests that were given up before they arrived
  started,    \* instances the server started for this caller
  attempts,   \* calls made of the operation: the first and its repetitions
  answer      \* what the last call returned

vars == <<op, pc, step, arrived, strays, started, attempts, answer>>

Operations == {"start_workflow", "dry_run", "get_project", "get_workflow",
               "get_process_instance", "get_task_instance"}

Reply(category, retryable, replied) ==
  [category |-> category, retryable |-> retryable, replied |-> replied]
NoAnswer == Reply("NONE", FALSE, FALSE)

Init ==
  /\ op \in Operations /\ pc = "idle" /\ step = 0 /\ arrived = FALSE
  /\ strays = 0 /\ started = 0 /\ attempts = 0
  /\ answer = NoAnswer

-----------------------------------------------------------------------------
(* The client. *)

Transport == {"ConnectTimeout", "ReadTimeout", "ConnectError", "RemoteProtocolError", "HTTPError"}
Unsent == {"ConnectTimeout", "ConnectError"}
Replies == {"too_large", "401", "403", "400+", "not_a_result", "code", "bad_data", "absent", "ok"}

\* What _request, the parser of its data and the service make of it.
Category(what) ==
  CASE what \in {"ConnectTimeout", "ReadTimeout"} -> "TIMEOUT"
    [] what \in {"ConnectError", "RemoteProtocolError"} -> "CONNECTION_FAILED"
    [] what \in {"HTTPError", "400+", "code"} -> "UPSTREAM_ERROR"
    [] what = "401" -> "AUTHENTICATION_FAILED"
    [] what = "403" -> "PERMISSION_DENIED"
    [] what = "absent" -> "INVALID_INPUT"
    [] what = "ok" -> "OK"
    [] OTHER -> "UNEXPECTED_RESPONSE"

Retryable(category) == category \in {"TIMEOUT", "CONNECTION_FAILED"}

Ended(what) == Reply(Category(what), Retryable(Category(what)), what \in Replies)

\* The requests of an operation: the object, then what belongs to it.
RequestsOf(o) == IF o \in {"get_workflow", "get_process_instance"} THEN 2 ELSE 1

Starts == op = "start_workflow"
Count(condition) == IF condition THEN 1 ELSE 0

Send == pc' = "sent" /\ arrived' = FALSE

\* The caller calls: at first, or again after an error that is retryable.
\* A reference that is refused (no code, a dry_run that is neither 0 nor 1)
\* is refused before anything is sent.
Call(refused) ==
  /\ \/ pc = "idle"
     \/ pc = "done" /\ answer.retryable /\ attempts <= MaxRepeats
  /\ attempts' = attempts + 1
  /\ IF refused
     THEN /\ pc' = "done" /\ answer' = Reply("INVALID_INPUT", FALSE, FALSE)
          /\ UNCHANGED <<step, arrived>>
     ELSE Send /\ step' = 1 /\ answer' = NoAnswer
  /\ UNCHANGED <<op, strays, started>>

\* The server carries out the request that is out, or one that was given up.
Arrives ==
  /\ pc = "sent" /\ ~arrived
  /\ arrived' = TRUE
  /\ started' = started + Count(Starts)
  /\ UNCHANGED <<op, pc, step, strays, attempts, answer>>

StrayArrives ==
  /\ strays > 0
  /\ strays' = strays - 1
  /\ started' = started + 1
  /\ UNCHANGED <<op, pc, step, arrived, attempts, answer>>

\* The request is given up: it may be on its way, unless it was never sent.
GivenUp(unsent) == strays' = strays + Count(Starts /\ ~arrived /\ ~unsent)

\* Variant: the request is sent again when its answer does not come in time.
FailsAndResends(what) ==
  /\ pc = "sent" /\ (what \in Unsent => ~arrived)
  /\ GivenUp(what \in Unsent)
  /\ IF what = "ReadTimeout"
     THEN Send /\ UNCHANGED answer
     ELSE pc' = "done" /\ answer' = Ended(what) /\ UNCHANGED arrived
  /\ UNCHANGED <<op, step, started, attempts>>

Fails(what) ==
  /\ pc = "sent" /\ (what \in Unsent => ~arrived)
  /\ GivenUp(what \in Unsent)
  /\ pc' = "done" /\ answer' = Ended(what)
  /\ UNCHANGED <<op, step, arrived, started, attempts>>

\* An answer to start_workflow is not looked into but for an instance id; only
\* a task instance may be absent from the list that was asked for.
Possible(what) ==
  /\ what = "bad_data" => op \notin {"start_workflow", "dry_run"}
  /\ what = "absent" => op = "get_task_instance"

Replied(what) ==
  /\ pc = "sent" /\ arrived /\ Possible(what)
  /\ IF what = "ok" /\ step < RequestsOf(op)
     THEN Send /\ step' = step + 1 /\ UNCHANGED answer
     ELSE /\ pc' = "done" /\ answer' = Ended(what)
          /\ UNCHANGED <<step, arrived>>
  /\ UNCHANGED <<op, strays, started, attempts>>

\* The session cancels the call.
Cancelled ==
  /\ pc = "sent"
  /\ GivenUp(FALSE)
  /\ pc' = "done" /\ answer' = Reply("CANCELLED", FALSE, FALSE)
  /\ UNCHANGED <<op, step, arrived, started, attempts>>

Over == pc = "done" /\ strays = 0 /\ ~(answer.retryable /\ attempts <= MaxRepeats) /\ UNCHANGED vars

Next ==
  \/ \E refused \in BOOLEAN : Call(refused)
  \/ Arrives \/ StrayArrives \/ Cancelled
  \/ \E what \in Transport : Fails(what)
  \/ \E what \in Replies : Replied(what)
  \/ Over

Spec == Init /\ [][Next]_vars

-----------------------------------------------------------------------------
Categories == {Category(what) : what \in Transport \cup Replies} \cup {"NONE", "CANCELLED"}

TypeOK ==
  /\ op \in Operations /\ pc \in {"idle", "sent", "done"}
  /\ step \in 0..2 /\ arrived \in BOOLEAN
  /\ {strays, started} \subseteq 0..(MaxRepeats + 1)
  /\ attempts \in 0..(MaxRepeats + 1)
  /\ answer \in [category : Categories, retryable : BOOLEAN, replied : BOOLEAN]

(* The tool never retries: the server has started, or may yet start, at most
   one instance for each call that was made.  A caller who repeats a retryable
   error can start the workflow twice, and no other way. *)
OneStartPerCall == started + strays <= attempts

(* Once the server has replied, no error invites to repeat the call. *)
RepliesAreFinal == answer.replied => ~answer.retryable
=============================================================================
