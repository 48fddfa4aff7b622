--------------------------- MODULE ServerLifecycle ---------------------------
(***************************************************************************)
(* One mcp-stdio process: bootstrap.main, StdioMcpServer and a runtime     *)
(* whose HTTP client is built by the first call that needs it, as those    *)
(* of DolphinScheduler and, for its plain calls, of Zeppelin.              *)
(*                                                                         *)
(* A gateway that is closed does not refuse a call: it would build another *)
(* client, which nobody closes.  What keeps that from happening is that    *)
(* serve closes the runtime only after run_stdio_async has returned, and   *)
(* that it waits for the handlers it started, or cancels and waits.        *)
(***************************************************************************)
EXTENDS Naturals

CONSTANT Calls      \* calls the host makes

VARIABLES
  phase,       \* how far main is
  session,     \* the MCP session: open, or how it ended
  call,        \* how far the handler of a call is
  client,      \* the gateway's client: "none", "open", "closing" or "closed"
  built,       \* clients ever built
  closed       \* _closed of the runtime and of the gateway

vars == <<phase, session, call, client, built, closed>>

Init ==
  /\ phase = "constructing"
  /\ session = "open"
  /\ call = [c \in Calls |-> "new"]
  /\ client = "none"
  /\ built = 0
  /\ closed = FALSE

-----------------------------------------------------------------------------
(* main. *)

\* Unknown plugin or refused configuration: ConfigError, exit status 2.
StartFails ==
  /\ phase = "constructing"
  /\ phase' = "exited"
  /\ UNCHANGED <<session, call, client, built, closed>>

\* The runtime is composed without a client and its tools are registered.
Serve ==
  /\ phase = "constructing"
  /\ phase' = "serving"
  /\ UNCHANGED <<session, call, client, built, closed>>

\* stdin ends, or the session is cancelled; handlers go on or are cancelled.
SessionEnds ==
  /\ phase = "serving" /\ session = "open"
  /\ session' \in {"ended", "cancelled"}
  /\ UNCHANGED <<phase, call, client, built, closed>>

Running(c) == call[c] \in {"handler", "request", "cancelling"}

\* Variant: a session that was cancelled never returns.
ReturnedOnEnd == session = "ended" /\ \A c \in Calls : ~Running(c)

\* run_stdio_async has returned or raised.
Returned == session # "open" /\ \A c \in Calls : ~Running(c)

\* The finally of serve, on every way out: close of the runtime and of the
\* gateway, up to the await of aclose.
Close ==
  /\ phase = "serving" /\ Returned
  /\ phase' = IF client = "none" THEN "exited" ELSE "closing"
  /\ closed' = TRUE
  /\ client' = IF client = "none" THEN client ELSE "closing"
  /\ UNCHANGED <<session, call, built>>

\* aclose returns, or raises what close only logs.
ClientCloses ==
  /\ phase = "closing"
  /\ phase' = "exited"
  /\ client' = "closed"
  /\ UNCHANGED <<session, call, built, closed>>

-----------------------------------------------------------------------------
(* Calls. *)

To(c, state) ==
  /\ call' = [call EXCEPT ![c] = state]
  /\ UNCHANGED <<phase, session, closed>>

\* call_tool: arguments the model refuses never reach a handler.
CallTool(c) ==
  /\ phase = "serving" /\ session = "open" /\ call[c] = "new"
  /\ To(c, "INVALID_INPUT") \/ To(c, "handler")
  /\ UNCHANGED <<client, built>>

\* The service refuses what it was asked for.
ServiceRefuses(c) ==
  /\ call[c] = "handler"
  /\ To(c, "GATEWAY_ERROR")
  /\ UNCHANGED <<client, built>>

\* Variant: every call builds the client it uses.
BuildsAlways == TRUE

Builds == client \in {"none", "closed"}

\* _ensure_client, without an await between the test and the assignment.
Request(c) ==
  /\ call[c] = "handler"
  /\ client' = IF Builds THEN "open" ELSE client
  /\ built' = IF Builds THEN built + 1 ELSE built
  /\ To(c, "request")

\* The answer, a gateway error, or an exception nobody foresaw.
Answered(c) ==
  /\ call[c] = "request"
  /\ \E answer \in {"result", "GATEWAY_ERROR", "UPSTREAM_ERROR"} : To(c, answer)
  /\ UNCHANGED <<client, built>>

\* The host cancels a request, or the session cancels what it started.
Cancelled(c) ==
  /\ phase = "serving" /\ call[c] \in {"handler", "request"}
  /\ To(c, "cancelling")
  /\ UNCHANGED <<client, built>>

CancelEnds(c) ==
  /\ call[c] = "cancelling"
  /\ To(c, "cancelled")
  /\ UNCHANGED <<client, built>>

Handler(c) == ServiceRefuses(c) \/ Request(c) \/ Answered(c) \/ CancelEnds(c)

Next ==
  \/ StartFails \/ Serve \/ SessionEnds \/ Close \/ ClientCloses
  \/ \E c \in Calls : CallTool(c) \/ Cancelled(c) \/ Handler(c)

Spec == Init /\ [][Next]_vars

\* Requests have a timeout, aclose and the event loop do not stop.
FairSpec ==
  /\ Spec
  /\ WF_vars(Close) /\ WF_vars(ClientCloses)
  /\ \A c \in Calls : WF_vars(Handler(c))

-----------------------------------------------------------------------------
(* Properties. *)

\* No request is sent through a client that is being closed or was: a handler
\* that holds one finds it open until it has ended.
RequestsOnOpenClient ==
  \A c \in Calls : call[c] = "request" => client = "open"

\* However the calls interleave the process builds one client, and the one
\* it built is closed when it exits: nothing is left open, and nothing is built
\* after close.
OneClientAndClosed ==
  /\ built <= 1
  /\ phase = "exited" => client \in {"none", "closed"}
  /\ closed => \A c \in Calls : ~Running(c)

\* When the session ends, by end of stdin or by cancellation, the process
\* comes to its end, with every call it took answered or cancelled.
ShutdownEnds ==
  (session # "open") ~> (phase = "exited" /\ \A c \in Calls : ~Running(c))
=============================================================================
