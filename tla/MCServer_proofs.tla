--------------------------- MODULE MCServer_proofs ---------------------------
(***************************************************************************)
(* Proofs about the parts of a process: the calls of the DolphinScheduler  *)
(* plugin, the life of the server, the statements of the Hive plugin, the  *)
(* loading of a configuration, and the pages and logs of DolphinScheduler, *)
(* for any calls, sizes, threads and fields.  The parts share no variable, *)
(* so that each has an invariant of its own, which the steps of the others *)
(* keep.                                                                   *)
(***************************************************************************)
EXTENDS MCServer, DataLemmas, TLAPS

-----------------------------------------------------------------------------
(* A call of DolphinScheduler.  What is not inductive as it stands is       *)
(* OneStartPerCall: a start request that is out and has not arrived will    *)
(* still start an instance, so it is counted with those that have.          *)

\* What the server has started, may start for a call that gave up, and will
\* start when the request that is out arrives.
Outstanding == Count(pc = "sent" /\ Starts /\ ~arrived)

CallInv ==
  /\ TypeOK
  /\ pc = "idle" => attempts = 0 /\ started = 0 /\ strays = 0
  /\ pc = "sent" => step \in 1..2
  /\ started + strays + Outstanding <= attempts

LEMMA PartsOfSum ==
  ASSUME NEW a \in Nat, NEW b \in Nat, NEW c \in Nat, NEW m \in Nat, NEW d \in 0..(m + 1),
         a + b + c <= d
  PROVE  a \in 0..(m + 1) /\ b \in 0..(m + 1)
  BY SMT

LEMMA Replying ==
  ASSUME NEW c \in Categories, NEW retryable \in BOOLEAN, NEW replied \in BOOLEAN
  PROVE  /\ Reply(c, retryable, replied)
              \in [category : Categories, retryable : BOOLEAN, replied : BOOLEAN]
         /\ Reply(c, retryable, replied).retryable = retryable
         /\ Reply(c, retryable, replied).replied = replied
  BY DEF Reply

\* The outcomes of a request are classified, and no reply is retryable.
LEMMA OutcomesClassified ==
  ASSUME NEW what \in Transport \cup Replies
  PROVE  /\ Ended(what) \in [category : Categories, retryable : BOOLEAN, replied : BOOLEAN]
         /\ Ended(what).replied => ~Ended(what).retryable
<1>1. Category(what) \in Categories
  BY DEF Categories
<1>2. Retryable(Category(what)) \in BOOLEAN
  BY DEF Retryable
<1>3. what \in Replies => ~Retryable(Category(what))
  BY Zenon DEF Retryable, Category, Replies
<1>4. (what \in Replies) \in BOOLEAN
  OBVIOUS
<1>5. QED
  BY <1>1, <1>2, <1>3, <1>4, Replying, Zenon DEF Ended

LEMMA ConstantAnswers ==
  /\ NoAnswer \in [category : Categories, retryable : BOOLEAN, replied : BOOLEAN]
  /\ Reply("CANCELLED", FALSE, FALSE) \in [category : Categories, retryable : BOOLEAN, replied : BOOLEAN]
  /\ Reply("INVALID_INPUT", FALSE, FALSE) \in [category : Categories, retryable : BOOLEAN, replied : BOOLEAN]
<1>1. Category("absent") = "INVALID_INPUT"
  BY DEF Category
<1>2. "absent" \in Transport \cup Replies
  BY DEF Replies
<1>3. {"NONE", "CANCELLED", "INVALID_INPUT"} \subseteq Categories
  BY <1>1, <1>2 DEF Categories
<1>4. QED
  BY <1>3 DEF NoAnswer, Reply

LEMMA CallsInitial == Init => CallInv
<1> SUFFICES ASSUME Init PROVE CallInv
  OBVIOUS
<1>1. /\ pc = "idle" /\ step = 0 /\ strays = 0 /\ started = 0 /\ attempts = 0
      /\ op \in Operations /\ arrived \in BOOLEAN /\ answer = NoAnswer
  BY DEF Init
<1>2. Outstanding = 0
  BY <1>1, SMT DEF Outstanding, Count
<1>3. 0 \in 0..(MaxRepeats + 1) /\ 0 \in 0..2
  BY RepeatsAssumption, SMT
<1>4. TypeOK
  BY <1>1, <1>3, ConstantAnswers DEF TypeOK
<1>5. started + strays + Outstanding <= attempts
  BY <1>1, <1>2, SMT
<1>6. QED
  BY <1>1, <1>4, <1>5 DEF CallInv

\* Every step keeps the count.
LEMMA CallsKeep == CallInv /\ [Next]_vars => CallInv'
<1> SUFFICES ASSUME CallInv, [Next]_vars PROVE CallInv'
  OBVIOUS
<1> USE RepeatsAssumption
<1> DEFINE Answers == [category : Categories, retryable : BOOLEAN, replied : BOOLEAN]
           Counted == started + strays + Outstanding <= attempts
\* The part of CallInv that is about types follows from the count.
<1>0. ASSUME op' = op, pc' \in {"sent", "done"}, step' \in 0..2, arrived' \in BOOLEAN,
             strays' \in Nat, started' \in Nat, attempts' \in 0..(MaxRepeats + 1),
             answer' \in Answers, pc' = "sent" => step' \in 1..2, Counted'
      PROVE  CallInv'
  <2>1. Outstanding' \in Nat
    BY SMT DEF Outstanding, Count
  <2>2. strays' \in 0..(MaxRepeats + 1) /\ started' \in 0..(MaxRepeats + 1)
    <3>1. /\ strays' \in Nat /\ started' \in Nat /\ attempts' \in 0..(MaxRepeats + 1)
          /\ started' + strays' + Outstanding' <= attempts'
      BY <1>0
    <3>2. QED
      BY <2>1, <3>1, PartsOfSum, Zenon
  <2>3. op' \in Operations
    BY <1>0 DEF CallInv, TypeOK
  <2>4. QED
    BY <1>0, <2>2, <2>3 DEF CallInv, TypeOK
<1>a. /\ op \in Operations /\ pc \in {"idle", "sent", "done"} /\ step \in 0..2
      /\ arrived \in BOOLEAN /\ strays \in Nat /\ started \in Nat
      /\ attempts \in 0..(MaxRepeats + 1) /\ answer \in Answers
      /\ pc = "idle" => attempts = 0
      /\ pc = "sent" => step \in 1..2
  BY SMT DEF CallInv, TypeOK
<1>b. Counted /\ Outstanding \in Nat
  BY SMT DEF CallInv, Outstanding, Count
<1>1. ASSUME NEW refused \in BOOLEAN, Call(refused) PROVE CallInv'
  <2>1. attempts' = attempts + 1 /\ attempts' \in 0..(MaxRepeats + 1)
    BY <1>1, <1>a, SMT DEF Call
  <2>2. op' = op /\ strays' = strays /\ started' = started
    BY <1>1 DEF Call
  <2>3. /\ pc' \in {"sent", "done"} /\ step' \in 0..2 /\ arrived' \in BOOLEAN
        /\ answer' \in Answers
        /\ pc' = "sent" => step' \in 1..2
    <3>1. CASE refused
      BY <1>1, <1>a, <3>1, ConstantAnswers DEF Call
    <3>2. CASE ~refused
      BY <1>1, <1>a, <3>2, ConstantAnswers, 1 \in 1..2, 1 \in 0..2 DEF Call, Send
    <3>3. QED
      BY <3>1, <3>2
  <2>4. Outstanding = 0 /\ Outstanding' \in 0..1
    BY <1>1, SMT DEF Call, Outstanding, Count
  <2>5. Counted'
    <3>1. started \in Nat /\ strays \in Nat /\ attempts \in Nat
      BY <1>a, SMT
    <3>2. QED
      BY <3>1, <1>b, <2>1, <2>2, <2>4, SMT DEF Outstanding, Count
  <2>6. QED
    BY <1>0, <1>a, <2>1, <2>2, <2>3, <2>5
<1>2. CASE Arrives
  <2>1. Outstanding' = 0 /\ Outstanding = Count(Starts)
    BY <1>2, SMT DEF Arrives, Outstanding, Count, Starts
  <2>2. Count(Starts) \in Nat
    BY SMT DEF Count
  <2>3. Counted'
    BY <1>2, <1>a, <1>b, <2>1, <2>2, SMT DEF Arrives
  <2>4. started' \in Nat
    BY <1>2, <1>a, <2>2, SMT DEF Arrives
  <2>5. QED
    BY <1>0, <1>2, <1>a, <2>3, <2>4 DEF Arrives
<1>3. CASE StrayArrives
  <2>1. Outstanding' = Outstanding /\ pc # "idle"
    BY <1>3, <1>a, SMT DEF StrayArrives, Outstanding, Starts, CallInv
  <2>2. Counted' /\ strays' \in Nat /\ started' \in Nat
    BY <1>3, <1>a, <1>b, <2>1, SMT DEF StrayArrives
  <2>3. QED
    BY <1>0, <1>3, <1>a, <2>1, <2>2 DEF StrayArrives
\* A request that is given up moves from those outstanding to the strays.
<1>4. ASSUME NEW unsent \in BOOLEAN, GivenUp(unsent), pc = "sent", pc' = "done",
             op' = op, started' = started, attempts' = attempts
      PROVE  Counted' /\ strays' \in Nat
  <2>1. Outstanding' = 0
    BY <1>4, SMT DEF Outstanding, Count
  <2>2. Count(Starts /\ ~arrived /\ ~unsent) \in Nat
    BY SMT DEF Count
  <2>3. Count(Starts /\ ~arrived /\ ~unsent) <= Outstanding
    BY <1>4, SMT DEF Outstanding, Count
  <2>4. QED
    BY <1>4, <1>a, <1>b, <2>1, <2>2, <2>3, SMT DEF GivenUp
<1>5. CASE Cancelled
  BY <1>0, <1>4, <1>5, <1>a, ConstantAnswers DEF Cancelled
<1>6. ASSUME NEW what \in Transport, Fails(what) PROVE CallInv'
  <2>1. Ended(what) \in Answers
    BY OutcomesClassified
  <2>2. (what \in Unsent) \in BOOLEAN
    OBVIOUS
  <2>3. Counted' /\ strays' \in Nat
    BY <1>4, <1>6, <2>2 DEF Fails
  <2>4. QED
    BY <1>0, <1>6, <1>a, <2>1, <2>3 DEF Fails
<1>7. ASSUME NEW what \in Replies, Replied(what) PROVE CallInv'
  <2>1. Ended(what) \in Answers
    BY OutcomesClassified
  <2>2. Outstanding = 0
    BY <1>7, SMT DEF Replied, Outstanding, Count
  <2>3. op' = op /\ strays' = strays /\ started' = started /\ attempts' = attempts
    BY <1>7 DEF Replied
  <2>4. CASE what = "ok" /\ step < RequestsOf(op)
    <3>1. /\ pc' = "sent" /\ arrived' = FALSE /\ step' = step + 1 /\ answer' = answer
      BY <1>7, <2>4 DEF Replied, Send
    <3>2. ~Starts /\ step' \in 0..2 /\ step' \in 1..2
      <4>1. step \in 1..2 /\ step < RequestsOf(op) /\ step' = step + 1
        BY <1>7, <1>a, <2>4, <3>1 DEF Replied
      <4>2. RequestsOf(op) \in {1, 2} /\ (Starts => RequestsOf(op) = 1)
        BY SMT DEF RequestsOf, Starts
      <4>3. CASE RequestsOf(op) = 1
        BY <4>1, <4>3, SMT
      <4>4. CASE RequestsOf(op) = 2
        BY <4>1, <4>2, <4>4, SMT
      <4>5. QED
        BY <4>2, <4>3, <4>4
    <3>3. Outstanding' = 0
      BY <2>3, <3>2, SMT DEF Outstanding, Count, Starts
    <3>4. Counted'
      BY <1>b, <2>2, <2>3, <3>3
    <3>5. QED
      BY <1>0, <1>a, <2>3, <3>1, <3>2, <3>4
  <2>5. CASE ~(what = "ok" /\ step < RequestsOf(op))
    <3>1. pc' = "done" /\ answer' = Ended(what) /\ step' = step /\ arrived' = arrived
      BY <1>7, <2>5 DEF Replied
    <3>2. Outstanding' = 0
      BY <3>1, SMT DEF Outstanding, Count
    <3>3. Counted'
      BY <1>b, <2>2, <2>3, <3>2
    <3>4. QED
      BY <1>0, <1>a, <2>1, <2>3, <3>1, <3>3
  <2>6. QED
    BY <2>4, <2>5
<1>8. CASE UNCHANGED vars
  BY <1>8 DEF vars, Starts, CallInv, TypeOK, Outstanding, Count
<1>9. QED
  BY <1>1, <1>2, <1>3, <1>5, <1>6, <1>7, <1>8 DEF Next, Over

\* The calls take the steps of their own module, whatever part runs.
LEMMA CallsAsPart == ServerSpec => Spec
<1>1. ServerInit => Init
  BY DEF ServerInit
<1>2. [ServerNext]_allVars => [Next]_vars
  BY DEF ServerNext, InCalls, InPages, InLogs, InConfig, InServer, InQuery, allVars
<1>3. QED
  BY <1>1, <1>2, PTL DEF ServerSpec, Spec

\* The variables keep their types.
THEOREM CallTypes == ServerSpec => []TypeOK
<1>1. CallInv => TypeOK
  BY DEF CallInv
<1>2. QED
  BY <1>1, CallsInitial, CallsKeep, CallsAsPart, PTL DEF Spec

\* The tool never starts a workflow more often than it was called, whatever
\* is lost, late or cancelled.
THEOREM NoRepeatedStart == ServerSpec => []OneStartPerCall
<1>1. CallInv => OneStartPerCall
  BY SMT DEF CallInv, TypeOK, Outstanding, Count, OneStartPerCall
<1>2. QED
  BY <1>1, CallsInitial, CallsKeep, CallsAsPart, PTL DEF Spec

\* An answer that tells of a reply of the server's never invites to call again.
THEOREM RepliesFinal == ServerSpec => []RepliesAreFinal
<1>1. Init => RepliesAreFinal
  BY DEF Init, RepliesAreFinal, NoAnswer, Reply
<1>2. RepliesAreFinal /\ [Next]_vars => RepliesAreFinal'
  <2> SUFFICES ASSUME RepliesAreFinal, [Next]_vars PROVE RepliesAreFinal'
    OBVIOUS
  <2> USE DEF RepliesAreFinal
  <2>1. ASSUME NEW refused \in BOOLEAN, Call(refused) PROVE RepliesAreFinal'
    BY <2>1 DEF Call, NoAnswer, Reply
  <2>2. CASE Arrives \/ StrayArrives
    BY <2>2 DEF Arrives, StrayArrives
  <2>3. CASE Cancelled
    BY <2>3 DEF Cancelled, Reply
  <2>4. ASSUME NEW what \in Transport, Fails(what) PROVE RepliesAreFinal'
    BY <2>4, OutcomesClassified DEF Fails
  <2>5. ASSUME NEW what \in Replies, Replied(what) PROVE RepliesAreFinal'
    BY <2>5, OutcomesClassified DEF Replied
  <2>6. CASE UNCHANGED vars
    BY <2>6 DEF vars
  <2>7. QED
    BY <2>1, <2>2, <2>3, <2>4, <2>5, <2>6 DEF Next, Over
<1>3. QED
  BY <1>1, <1>2, CallsAsPart, PTL DEF Spec


-----------------------------------------------------------------------------
(* The server.  Why nothing is built after close: a handler runs only while *)
(* main is serving, and close is reached only when none runs.               *)

ServerTypes ==
  /\ phase \in {"constructing", "serving", "closing", "exited"}
  /\ session \in {"open", "ended", "cancelled"}
  /\ call \in [ServerCalls -> {"new", "handler", "request", "cancelling", "result",
                               "INVALID_INPUT", "GATEWAY_ERROR", "UPSTREAM_ERROR", "cancelled"}]
  /\ client \in {"none", "open", "closing", "closed"}
  /\ built \in 0..1
  /\ closed \in BOOLEAN

\* The client is that of the phase, and was built once if there is one.
ClientOfPhase ==
  /\ client = "none" <=> built = 0
  /\ phase = "constructing" => client = "none"
  /\ phase = "serving" => client \in {"none", "open"}
  /\ phase = "closing" <=> client = "closing"
  /\ phase = "exited" => client \in {"none", "closed"}
  /\ closed => phase \in {"closing", "exited"}

HandlersServed ==
  /\ phase # "serving" => \A c \in ServerCalls : ~Server!Running(c)
  /\ \A c \in ServerCalls : call[c] = "request" => client = "open"

ServerInv == ServerTypes /\ ClientOfPhase /\ HandlersServed

-----------------------------------------------------------------------------
(* A Hive statement.  What is open follows from the step its thread is at,  *)
(* and a step that went wrong is in its failure.                            *)

HeldAt(c) ==
  /\ thread[c] \in {"none", "queued", "connect"} =>
       conn[c] = "none" /\ cursor[c] = "none" /\ failure[c] = "none"
  /\ thread[c] = "cursor" => conn[c] = "open" /\ cursor[c] = "none" /\ failure[c] = "none"
  /\ thread[c] = "execute" => conn[c] = "open" /\ cursor[c] = "open" /\ failure[c] = "none"
  /\ thread[c] = "closeCursor" => conn[c] = "open" /\ cursor[c] = "open"
  /\ thread[c] = "closeConnection" =>
       conn[c] = "open" /\ cursor[c] # "open" /\ (failure[c] = "none" => cursor[c] = "closed")
  /\ thread[c] = "done" =>
       /\ conn[c] # "open" /\ cursor[c] # "open"
       /\ failure[c] = "none" => conn[c] = "closed" /\ cursor[c] = "closed"

\* The caller is idle before its first thread and leaves after its last.
CallerOf(c) ==
  /\ caller[c] = "idle" <=> thread[c] = "none"
  /\ caller[c] = "returned" => thread[c] = "done"
  /\ outcome[c] # "none" => caller[c] = "returned"
  /\ outcome[c] \in {"ok", "shape"} => failure[c] = "none"

\* A connection is opened by each statement, and there are two at most.
OpenedOf(c) ==
  /\ thread[c] = "none" => opened[c] = 0 /\ left[c] = 0
  /\ thread[c] \in {"queued", "connect"} => opened[c] + left[c] <= 2 /\ left[c] >= 1
  /\ thread[c] \notin {"none", "queued", "connect"} => opened[c] + left[c] <= 3 /\ left[c] >= 1

QueryInv == Query!TypeOK /\ \A c \in QueryCalls : HeldAt(c) /\ CallerOf(c) /\ OpenedOf(c)

-----------------------------------------------------------------------------
(* The loading of a configuration, which is sequential: what is known at    *)
(* each of its steps.                                                       *)

SettingsGiven == Config!SettingsInEffect
SecretsGiven == Config!SecretsInEffect

\* The settings without the variables with the prefix of the plugin.
SettingsBefore == [f \in Config!Given("file") \cup Config!Given("generic") |->
                     IF "generic" \in input.given[f] THEN "generic" ELSE "file"]

SecretsOfFile == [f \in {g \in SecretFields : input.reference[g] = "set"} |-> "file"]

DocumentRead == input.document \in {"none", "valid"}
SettingsHold == Config!Valid(SettingsGiven, SettingFields, input.schema.settings)
SecretsHold == Config!Valid(SecretsGiven, SecretFields, input.schema.secrets)
ReferencesHold == \A f \in SecretFields : input.reference[f] \in {"absent", "set"}

ConfigSteps ==
  {"document", "generic", "prefix", "validate", "references", "secrets", "loaded", "CONFIG_ERROR"}

StepInv ==
  /\ stage = "generic" => settings = [f \in Config!Given("file") |-> "file"]
  /\ stage = "prefix" => settings = SettingsBefore
  /\ stage \in {"validate", "references", "secrets", "loaded"} => settings = SettingsGiven
  /\ stage \in ConfigSteps \ {"document", "CONFIG_ERROR"} => DocumentRead
  /\ stage \in {"references", "secrets", "loaded"} => SettingsHold
  /\ stage \in {"secrets", "loaded"} => ReferencesHold
  /\ stage = "secrets" => secrets = SecretsOfFile
  /\ stage = "loaded" => secrets = SecretsGiven /\ SecretsHold

ConfigInv ==
  part = "config" =>
    /\ input \in Config!Inputs
    /\ stage \in ConfigSteps
    /\ StepInv
    /\ Config!FailsForAReason

-----------------------------------------------------------------------------
(* A step of the process is a step of one part.                              *)

LEMMA PartSteps ==
  ASSUME [ServerNext]_allVars
  PROVE  /\ Server!Next \/ UNCHANGED serverVars
         /\ Query!Next \/ UNCHANGED queryVars
         /\ part' = part
         /\ part = "config" => Config!Next \/ UNCHANGED configVars
<1>1. CASE InCalls /\ Next
  BY <1>1, Zenon DEF InCalls
<1>2. CASE InPages /\ Pages!Next
  BY <1>2, Zenon DEF InPages
<1>3. CASE InLogs /\ Logs!Next
  BY <1>3, Zenon DEF InLogs
<1>4. CASE InConfig /\ Config!Next
  BY <1>4, Zenon DEF InConfig
<1>5. CASE InServer /\ Server!Next
  BY <1>5, Zenon DEF InServer
<1>6. CASE InQuery /\ Query!Next
  BY <1>6, Zenon DEF InQuery
<1>7. CASE UNCHANGED allVars
  BY <1>7, Zenon DEF allVars
<1>8. QED
  BY <1>1, <1>2, <1>3, <1>4, <1>5, <1>6, <1>7, Zenon DEF ServerNext

-----------------------------------------------------------------------------
(* The server. *)

LEMMA ServerInitial == ServerInit => ServerInv
<1>1. ServerInit => Server!Init
  BY Zenon DEF ServerInit
<1>2. Server!Init => ServerTypes
  <2>1. Server!Init => closed \in BOOLEAN
    BY Zenon DEF Server!Init
  <2>2. Server!Init => call \in [ServerCalls -> {"new"}]
    BY Zenon DEF Server!Init
  <2>3. QED
    BY <2>1, <2>2 DEF Server!Init, ServerTypes
<1>3. Server!Init => ClientOfPhase
  BY DEF Server!Init, ClientOfPhase
<1>4. Server!Init => HandlersServed
  BY DEF Server!Init, HandlersServed, Server!Running
<1>5. QED
  BY <1>1, <1>2, <1>3, <1>4 DEF ServerInv

\* The steps of main.
LEMMA MainSteps ==
  ASSUME ServerInv,
         Server!StartFails \/ Server!Serve \/ Server!SessionEnds \/ Server!Close
           \/ Server!ClientCloses
  PROVE  ServerInv'
<1> USE DEF ServerInv, ServerTypes, ClientOfPhase, HandlersServed, Server!Running
<1>1. CASE Server!StartFails
  BY <1>1 DEF Server!StartFails
<1>2. CASE Server!Serve
  BY <1>2 DEF Server!Serve
<1>3. CASE Server!SessionEnds
  BY <1>3 DEF Server!SessionEnds
<1>4. CASE Server!Close
  BY <1>4 DEF Server!Close, Server!Returned
<1>5. CASE Server!ClientCloses
  BY <1>5 DEF Server!ClientCloses
<1>6. QED
  BY <1>1, <1>2, <1>3, <1>4, <1>5

\* The steps of a handler and of what starts and cancels it.
LEMMA CallSteps ==
  ASSUME ServerInv, NEW c \in ServerCalls,
         Server!CallTool(c) \/ Server!Cancelled(c) \/ Server!Handler(c)
  PROVE  ServerInv'
<1> USE DEF ServerInv, ServerTypes, ClientOfPhase, HandlersServed, Server!Running, Server!To
<1>1. CASE Server!CallTool(c)
  BY <1>1 DEF Server!CallTool
<1>2. CASE Server!Cancelled(c)
  BY <1>2 DEF Server!Cancelled
<1>3. CASE Server!ServiceRefuses(c)
  BY <1>3 DEF Server!ServiceRefuses
<1>4. CASE Server!Request(c)
  BY <1>4 DEF Server!Request, Server!Builds
<1>5. CASE Server!Answered(c)
  BY <1>5 DEF Server!Answered
<1>6. CASE Server!CancelEnds(c)
  BY <1>6 DEF Server!CancelEnds
<1>7. QED
  BY <1>1, <1>2, <1>3, <1>4, <1>5, <1>6 DEF Server!Handler

LEMMA ServerStep ==
  ASSUME ServerInv, [ServerNext]_allVars
  PROVE  ServerInv'
<1>1. CASE Server!Next
  BY <1>1, MainSteps, CallSteps, Zenon DEF Server!Next
<1>2. CASE UNCHANGED serverVars
  BY <1>2 DEF serverVars, ServerInv, ServerTypes, ClientOfPhase, HandlersServed, Server!Running
<1>3. QED
  BY <1>1, <1>2, PartSteps

\* The whole life of a server has one client, which is open while any handler
\* sends a request through it and closed when the process exits; nothing runs
\* or is built after close, although the gateway itself would not refuse it
\* (StdioMcpServer.serve, _ensure_client, close).
THEOREM OneClient == ServerSpec => []ClientRight
<1>1. ServerInv => ClientRight
  BY DEF ServerInv, ServerTypes, ClientOfPhase, HandlersServed, ClientRight,
         Server!RequestsOnOpenClient, Server!OneClientAndClosed, Server!Running
<1>2. ServerInv /\ [ServerNext]_allVars => ServerInv'
  BY ServerStep
<1>3. QED
  BY ServerInitial, <1>1, <1>2, PTL DEF ServerSpec

-----------------------------------------------------------------------------
(* Hive statements. *)

LEMMA QueryInitial == ServerInit => QueryInv
<1>1. ServerInit => Query!Init
  BY Zenon DEF ServerInit
<1>2. Query!Init => QueryInv
  BY DEF Query!Init, QueryInv, Query!TypeOK, HeldAt, CallerOf, OpenedOf, Query!Steps,
         Query!Failures
<1>3. QED
  BY <1>1, <1>2

\* The steps of the coroutine.
LEMMA CoroutineSteps ==
  ASSUME QueryInv, NEW c \in QueryCalls,
         Query!Begin(c) \/ Query!Cancelled(c) \/ Query!Resume(c)
  PROVE  QueryInv'
<1> USE DEF QueryInv, Query!TypeOK, HeldAt, CallerOf, OpenedOf, Query!Steps, Query!Failures
<1>1. CASE Query!Begin(c)
  BY <1>1 DEF Query!Begin
<1>2. CASE Query!Cancelled(c)
  BY <1>2 DEF Query!Cancelled
<1>3. CASE Query!NextStatement(c)
  BY <1>3 DEF Query!NextStatement, Query!More
<1>4. CASE Query!Resumes(c)
  BY <1>4 DEF Query!Resumes, Query!Returns
<1>5. CASE Query!CancelPropagates(c)
  BY <1>5 DEF Query!CancelPropagates, Query!Returns
<1>6. QED
  BY <1>1, <1>2, <1>3, <1>4, <1>5 DEF Query!Resume

\* The steps of the thread.
LEMMA ThreadSteps ==
  ASSUME QueryInv, NEW c \in QueryCalls,
         Query!ThreadStarts(c) \/ Query!ThreadStep(c)
  PROVE  QueryInv'
<1> USE DEF QueryInv, Query!TypeOK, HeldAt, CallerOf, OpenedOf, Query!Steps, Query!Failures,
            Query!Goes, Query!Fails
<1>1. CASE Query!ThreadStarts(c)
  BY <1>1 DEF Query!ThreadStarts
<1>2. CASE Query!Connects(c)
  BY <1>2 DEF Query!Connects
<1>3. CASE Query!MakesCursor(c)
  BY <1>3 DEF Query!MakesCursor
<1>4. CASE Query!Executes(c)
  BY <1>4 DEF Query!Executes
<1>5. CASE Query!ClosesCursor(c)
  BY <1>5 DEF Query!ClosesCursor
<1>6. CASE Query!ClosesConnection(c)
  BY <1>6 DEF Query!ClosesConnection
<1>7. QED
  BY <1>1, <1>2, <1>3, <1>4, <1>5, <1>6 DEF Query!ThreadStep

LEMMA QueryUnchanged == QueryInv /\ UNCHANGED queryVars => QueryInv'
  BY DEF queryVars, QueryInv, Query!TypeOK, HeldAt, CallerOf, OpenedOf

LEMMA QueryStep ==
  ASSUME QueryInv, [ServerNext]_allVars
  PROVE  QueryInv'
<1>1. CASE \E c \in QueryCalls : Query!Begin(c) \/ Query!Cancelled(c) \/ Query!Resume(c)
  BY <1>1, CoroutineSteps
<1>2. CASE \E c \in QueryCalls : Query!ThreadStarts(c) \/ Query!ThreadStep(c)
  BY <1>2, ThreadSteps
<1>3. Query!Finished => UNCHANGED queryVars
  BY DEF Query!Finished, Query!vars, queryVars
<1>4. QED
  BY <1>1, <1>2, <1>3, QueryUnchanged, PartSteps, Zenon DEF Query!Next

\* However an invocation ends, cancelled before its thread began included, its
\* thread is over and its connection and cursor are closed or known to be lost,
\* and it gives rows only if nothing was lost (_execute, _execute_blocking).
THEOREM QueriesRelease == ServerSpec => []QueryReleased
<1>1. QueryInv => QueryReleased
  BY DEF QueryInv, Query!TypeOK, HeldAt, CallerOf, QueryReleased, Query!ReleasedOnReturn,
         Query!RowsNeedCleanClose
<1>2. QueryInv /\ [ServerNext]_allVars => QueryInv'
  BY QueryStep
<1>3. QED
  BY QueryInitial, <1>1, <1>2, PTL DEF ServerSpec

-----------------------------------------------------------------------------
(* The configuration. *)

LEMMA ConfigInitial == ServerInit => ConfigInv
<1>1. ServerInit /\ part = "config" => Config!Init
  BY Zenon DEF ServerInit
<1>2. Config!Init => ConfigInv
  BY DEF Config!Init, ConfigInv, ConfigSteps, StepInv, Config!FailsForAReason
<1>3. QED
  BY <1>1, <1>2 DEF ConfigInv

\* What the values of a setting come to when a source is laid over the others.
LEMMA Overlaid ==
  ASSUME input \in Config!Inputs
  PROVE  /\ SettingsBefore =
              Config!Overridden([f \in Config!Given("file") |-> "file"], "generic",
                                Config!Given("generic"))
         /\ SettingsGiven = Config!Overridden(SettingsBefore, "prefix", Config!Given("prefix"))
         /\ DOMAIN SettingsBefore = Config!Given("file") \cup Config!Given("generic")
         /\ DOMAIN SettingsGiven = {f \in SettingFields : input.given[f] # {}}
<1>1. \A f \in SettingFields : input.given[f] \in SUBSET {"file", "generic", "prefix"}
  BY DEF Config!Inputs, Config!Sources
<1>2. {f \in SettingFields : input.given[f] # {}}
        = Config!Given("prefix") \cup (Config!Given("file") \cup Config!Given("generic"))
  BY <1>1 DEF Config!Given
<1>3. DOMAIN SettingsBefore = Config!Given("file") \cup Config!Given("generic")
  BY DEF SettingsBefore
<1>4. SettingsBefore =
        Config!Overridden([f \in Config!Given("file") |-> "file"], "generic",
                          Config!Given("generic"))
  BY DEF SettingsBefore, Config!Overridden, Config!Given
<1>5. SettingsGiven = Config!Overridden(SettingsBefore, "prefix", Config!Given("prefix"))
  BY <1>2, <1>3 DEF SettingsGiven, Config!SettingsInEffect, SettingsBefore, Config!Overridden,
     Config!Given
<1>6. DOMAIN SettingsGiven = {f \in SettingFields : input.given[f] # {}}
  BY DEF SettingsGiven, Config!SettingsInEffect
<1>7. QED
  BY <1>3, <1>4, <1>5, <1>6

\* The values of the secrets, likewise.
LEMMA SecretsOverlaid ==
  ASSUME input \in Config!Inputs
  PROVE  /\ SecretsGiven = Config!PrefixWins(SecretsOfFile, input.secretPrefix)
         /\ DOMAIN SecretsGiven = input.secretPrefix \cup DOMAIN SecretsOfFile
<1>1. input.secretPrefix \subseteq SecretFields
  BY DEF Config!Inputs
<1>2. {g \in SecretFields : g \in input.secretPrefix \/ input.reference[g] = "set"}
        = input.secretPrefix \cup {g \in SecretFields : input.reference[g] = "set"}
  BY <1>1
<1>3. QED
  BY <1>2 DEF SecretsGiven, Config!SecretsInEffect, SecretsOfFile, Config!PrefixWins,
     Config!Overridden

\* The refusals of the settings and of the secrets are for a reason: a required
\* field has no value, an entry does not resolve, or the model refuses values
\* in effect.
SettingRefused ==
  \/ \E f \in SettingFields \cap RequiredFields : input.given[f] = {}
  \/ \E fault \in input.schema.settings : Config!Has(SettingsGiven, fault)

SecretRefused ==
  \/ \E f \in SecretFields :
       \/ input.reference[f] \in {"unset", "literal"}
       \/ f \in RequiredFields /\ input.reference[f] = "absent" /\ f \notin input.secretPrefix
  \/ \E fault \in input.schema.secrets : Config!Has(SecretsGiven, fault)

LEMMA MissingSetting ==
  ASSUME input \in Config!Inputs,
         Config!Missing(SettingsBefore, SettingFields, Config!Given("prefix"))
  PROVE  SettingRefused
<1>1. PICK f \in (SettingFields \cap RequiredFields) \ Config!Given("prefix") :
        f \notin DOMAIN SettingsBefore
  BY DEF Config!Missing
<1>2. input.given[f] \in SUBSET {"file", "generic", "prefix"}
  BY DEF Config!Inputs, Config!Sources
<1>3. input.given[f] = {}
  BY <1>1, <1>2, Overlaid DEF Config!Given
<1>4. QED
  BY <1>1, <1>3 DEF SettingRefused

LEMMA InvalidSetting ==
  ASSUME input \in Config!Inputs, ~SettingsHold
  PROVE  SettingRefused
<1>1. CASE ~(SettingFields \cap RequiredFields \subseteq DOMAIN SettingsGiven)
  BY <1>1, Overlaid DEF SettingRefused
<1>2. CASE \E fault \in input.schema.settings : Config!Has(SettingsGiven, fault)
  BY <1>2 DEF SettingRefused
<1>3. QED
  BY <1>1, <1>2 DEF SettingsHold, Config!Valid

LEMMA MissingSecret ==
  ASSUME input \in Config!Inputs, ReferencesHold,
         \/ Config!Missing(SecretsOfFile, SecretFields, input.secretPrefix)
         \/ ~SecretsHold
  PROVE  SecretRefused
<1>1. CASE \E fault \in input.schema.secrets : Config!Has(SecretsGiven, fault)
  BY <1>1 DEF SecretRefused
<1>2. CASE ~\E fault \in input.schema.secrets : Config!Has(SecretsGiven, fault)
  <2>1. PICK f \in SecretFields \cap RequiredFields :
          f \notin input.secretPrefix /\ f \notin DOMAIN SecretsOfFile
    BY <1>2, SecretsOverlaid DEF Config!Missing, SecretsHold, Config!Valid
  <2>2. input.reference[f] = "absent"
    BY <2>1 DEF SecretsOfFile, ReferencesHold
  <2>3. QED
    BY <2>1, <2>2 DEF SecretRefused
<1>3. QED
  BY <1>1, <1>2

-----------------------------------------------------------------------------

\* Nothing changes the input, nor what follows from it.
LEMMA InputStays ==
  ASSUME input' = input
  PROVE  /\ SettingsBefore' = SettingsBefore /\ SettingsGiven' = SettingsGiven
         /\ SecretsOfFile' = SecretsOfFile /\ SecretsGiven' = SecretsGiven
         /\ DocumentRead' <=> DocumentRead
         /\ SettingsHold' <=> SettingsHold
         /\ ReferencesHold' <=> ReferencesHold
         /\ SecretsHold' <=> SecretsHold
<1>1. \A source : Config!Given(source)' = Config!Given(source)
  BY DEF Config!Given
<1>2. SettingsBefore' = SettingsBefore
  BY <1>1, Zenon DEF SettingsBefore, Config!Given
<1>3. SettingsGiven' = SettingsGiven
  BY Zenon DEF SettingsGiven, Config!SettingsInEffect
<1>4. SettingsHold' <=> SettingsHold
  BY <1>3, Zenon DEF SettingsHold, Config!Valid, Config!Has
<1>5. SecretsGiven' = SecretsGiven
  BY Zenon DEF SecretsGiven, Config!SecretsInEffect
<1>6. SecretsHold' <=> SecretsHold
  BY <1>5, Zenon DEF SecretsHold, Config!Valid, Config!Has
<1>7. QED
  BY <1>2, <1>3, <1>4, <1>5, <1>6, Zenon DEF SecretsOfFile, DocumentRead, ReferencesHold

\* A step of load_config that goes on, and one that fails for a reason.
LEMMA LoadSteps ==
  ASSUME ConfigInv, part = "config", Config!Next
  PROVE  /\ input' = input
         /\ stage' \in ConfigSteps
         /\ stage' # "CONFIG_ERROR" => StepInv'
         /\ stage' = "CONFIG_ERROR" => ~DocumentRead \/ SettingRefused \/ SecretRefused
<1> DEFINE
      Failed == stage' = "CONFIG_ERROR" /\ input' = input
                  /\ (~DocumentRead \/ SettingRefused \/ SecretRefused)
      Went == stage' \in ConfigSteps \ {"CONFIG_ERROR"} /\ input' = input /\ StepInv'
<1>0. input \in Config!Inputs /\ StepInv
  BY DEF ConfigInv
<1>1. ASSUME Config!ReadDocument PROVE Failed \/ Went
  <2>1. ~DocumentRead => Failed
    BY <1>1 DEF Config!ReadDocument, DocumentRead, Config!Fails
  <2>2. ASSUME DocumentRead PROVE Went
    BY <1>1, <2>2, InputStays DEF Config!ReadDocument, DocumentRead, Config!Given, StepInv,
       ConfigSteps
  <2>3. QED
    BY <2>1, <2>2
<1>2. ASSUME Config!ApplySettingsOverrides PROVE Went
  <2>1. settings' = SettingsBefore /\ DocumentRead
    BY <1>0, <1>2, Overlaid DEF Config!ApplySettingsOverrides, StepInv, ConfigSteps
  <2>2. QED
    BY <1>2, <2>1, InputStays DEF Config!ApplySettingsOverrides, StepInv, ConfigSteps
<1>3. ASSUME Config!ApplyPrefixOverrides PROVE Failed \/ Went
  <2>1. settings = SettingsBefore /\ DocumentRead
    BY <1>0, <1>3 DEF Config!ApplyPrefixOverrides, StepInv, ConfigSteps
  <2>2. ASSUME Config!Missing(settings, SettingFields, Config!Given("prefix")) PROVE Failed
    BY <1>0, <1>3, <2>1, <2>2, MissingSetting, Zenon DEF Config!ApplyPrefixOverrides, Config!Fails
  <2>3. ASSUME ~Config!Missing(settings, SettingFields, Config!Given("prefix")) PROVE Went
    <3>1. settings' = SettingsGiven /\ stage' = "validate" /\ input' = input
      BY <1>0, <1>3, <2>1, <2>3, Overlaid, Zenon DEF Config!ApplyPrefixOverrides, Config!PrefixWins
    <3>2. QED
      BY <2>1, <3>1, InputStays DEF StepInv, ConfigSteps
  <2>4. QED
    BY <2>2, <2>3
<1>4. ASSUME Config!ValidateSettings PROVE Failed \/ Went
  <2>1. settings = SettingsGiven /\ DocumentRead
    BY <1>0, <1>4 DEF Config!ValidateSettings, StepInv, ConfigSteps
  <2>2. ASSUME ~SettingsHold PROVE Failed
    BY <1>0, <1>4, <2>1, <2>2, InvalidSetting, Zenon DEF Config!ValidateSettings, Config!Fails,
       SettingsHold
  <2>3. ASSUME SettingsHold PROVE Went
    <3>1. settings' = SettingsGiven /\ stage' = "references" /\ input' = input
      BY <1>4, <2>1, <2>3, Zenon DEF Config!ValidateSettings, SettingsHold
    <3>2. QED
      BY <2>1, <2>3, <3>1, InputStays DEF StepInv, ConfigSteps
  <2>4. QED
    BY <2>2, <2>3
<1>5. ASSUME Config!ResolveReferences PROVE Failed \/ Went
  <2>1. settings = SettingsGiven /\ DocumentRead /\ SettingsHold
    BY <1>0, <1>5 DEF Config!ResolveReferences, StepInv, ConfigSteps
  <2>2. \A f \in SecretFields : input.reference[f] \in {"absent", "set", "unset", "literal"}
    BY <1>0 DEF Config!Inputs, Config!References
  <2>3. ASSUME ~ReferencesHold PROVE Failed
    BY <1>5, <2>2, <2>3 DEF Config!ResolveReferences, Config!Fails, ReferencesHold,
       SecretRefused
  <2>4. ASSUME ReferencesHold PROVE Went
    <3>1. ~\E f \in SecretFields : input.reference[f] \in {"unset", "literal"}
      BY <2>4 DEF ReferencesHold
    <3>2. /\ settings' = SettingsGiven /\ secrets' = SecretsOfFile
          /\ stage' = "secrets" /\ input' = input
      BY <1>5, <2>1, <3>1, Zenon DEF Config!ResolveReferences, SecretsOfFile
    <3>3. QED
      BY <2>1, <2>4, <3>2, InputStays DEF StepInv, ConfigSteps
  <2>5. QED
    BY <2>3, <2>4
<1>6. ASSUME Config!ApplySecretOverrides PROVE Failed \/ Went
  <2> DEFINE Lacks == \/ Config!Missing(SecretsOfFile, SecretFields, input.secretPrefix)
                      \/ ~SecretsHold
  <2>1. /\ settings = SettingsGiven /\ DocumentRead /\ SettingsHold /\ ReferencesHold
        /\ secrets = SecretsOfFile
        /\ Config!PrefixWins(secrets, input.secretPrefix) = SecretsGiven
    BY <1>0, <1>6, SecretsOverlaid DEF Config!ApplySecretOverrides, StepInv, ConfigSteps
  <2>2. ASSUME Lacks PROVE Failed
    BY <1>0, <1>6, <2>1, <2>2, MissingSecret, Zenon DEF Config!ApplySecretOverrides, Config!Fails,
       SecretsHold
  <2>3. ASSUME ~Lacks PROVE Went
    <3>1. /\ settings' = SettingsGiven /\ secrets' = SecretsGiven
          /\ stage' = "loaded" /\ input' = input
      BY <1>6, <2>1, <2>3, Zenon DEF Config!ApplySecretOverrides, SecretsHold
    <3>2. QED
      BY <2>1, <2>3, <3>1, InputStays DEF StepInv, ConfigSteps
  <2>4. QED
    BY <2>2, <2>3
<1>7. Failed \/ Went
  BY <1>1, <1>2, <1>3, <1>4, <1>5, <1>6, Zenon DEF Config!Next
<1>8. QED
  BY <1>7, Zenon DEF ConfigSteps

LEMMA ConfigStep ==
  ASSUME ConfigInv, [ServerNext]_allVars
  PROVE  ConfigInv'
<1>1. CASE part # "config"
  BY <1>1, PartSteps DEF ConfigInv
<1>2. ASSUME part = "config", Config!Next PROVE ConfigInv'
  <2>1. /\ input' = input
        /\ stage' \in ConfigSteps
        /\ stage' # "CONFIG_ERROR" => StepInv'
        /\ stage' = "CONFIG_ERROR" => ~DocumentRead \/ SettingRefused \/ SecretRefused
    BY <1>2, LoadSteps, Zenon
  <2>2. StepInv'
    BY <2>1 DEF StepInv
  <2>3. (Config!Inputs)' = Config!Inputs
    BY DEF Config!Inputs, Config!Documents, Config!Sources, Config!References
  <2>4. (Config!FailsForAReason)'
    <3>1. CASE stage' = "CONFIG_ERROR"
      <4>1. input' = input /\ SettingsGiven' = SettingsGiven /\ SecretsGiven' = SecretsGiven
        BY <2>1, InputStays
      <4>2. \A data, fault : Config!Has(data, fault)' = Config!Has(data, fault)
        BY DEF Config!Has
      <4>3. QED
        BY <2>1, <3>1, <4>1, <4>2, Zenon
        DEF DocumentRead, SettingRefused, SecretRefused, Config!FailsForAReason, SettingsGiven,
            SecretsGiven
    <3>2. CASE stage' # "CONFIG_ERROR"
      BY <3>2, Zenon DEF Config!FailsForAReason
    <3>3. QED
      BY <3>1, <3>2
  <2>5. QED
    BY <1>2, <2>1, <2>2, <2>3, <2>4, Zenon DEF ConfigInv
<1>3. ASSUME part = "config", UNCHANGED configVars PROVE ConfigInv'
  <2>1. input' = input /\ stage' = stage /\ settings' = settings /\ secrets' = secrets
    BY <1>3 DEF configVars
  <2>2. StepInv'
    <3>1. [f \in Config!Given("file") |-> "file"]' = [f \in Config!Given("file") |-> "file"]
      BY <2>1, Zenon DEF Config!Given
    <3>2. StepInv
      BY <1>3 DEF ConfigInv
    <3>3. QED
      BY <2>1, <3>1, <3>2, InputStays DEF StepInv
  <2>3. (Config!FailsForAReason)'
    <3>1. SettingsGiven' = SettingsGiven /\ SecretsGiven' = SecretsGiven
      BY <2>1, InputStays
    <3>2. \A data, fault : Config!Has(data, fault)' = Config!Has(data, fault)
      BY DEF Config!Has
    <3>3. QED
      BY <1>3, <2>1, <3>1, <3>2, Zenon
      DEF ConfigInv, Config!FailsForAReason, SettingsGiven, SecretsGiven
  <2>4. QED
    BY <1>3, <2>1, <2>2, <2>3 DEF ConfigInv, Config!Inputs
<1>4. QED
  BY <1>1, <1>2, <1>3, PartSteps

LEMMA LoadedRight ==
  ASSUME ConfigInv, part = "config"
  PROVE  Config!PrecedenceHolds /\ Config!LoadedIsValid
<1> SUFFICES ASSUME stage = "loaded"
             PROVE  Config!PrecedenceHolds /\ Config!LoadedIsValid
  BY DEF Config!PrecedenceHolds, Config!LoadedIsValid, Config!Loaded
<1>1. /\ settings = SettingsGiven /\ SettingsHold /\ ReferencesHold
      /\ secrets = SecretsGiven /\ SecretsHold
  BY DEF ConfigInv, StepInv, ConfigSteps
<1>2. Config!PrecedenceHolds
  BY <1>1 DEF Config!PrecedenceHolds, SettingsGiven, SecretsGiven
<1>3. RequiredFields \subseteq DOMAIN settings \cup DOMAIN secrets
  BY <1>1, FieldsAssumption DEF SettingsHold, SecretsHold, Config!Valid
<1>4. Config!LoadedIsValid
  BY <1>1, <1>3 DEF Config!LoadedIsValid, SettingsHold, SecretsHold, Config!Valid, ReferencesHold
<1>5. QED
  BY <1>2, <1>4

\* For any fields, whatever the file and the environment give and whatever
\* combinations of values the two models refuse: a loaded setting or secret is
\* that of the highest source that has one, nothing that was refused and no
\* literal credential is in it, and a start that fails does so for the
\* document, a required field, an entry under secrets or values in effect that
\* a model refuses (load_config).
THEOREM ConfigLoads == ServerSpec => []ConfigRight
<1>1. ConfigInv => ConfigRight
  BY LoadedRight, Zenon DEF ConfigInv, ConfigRight
<1>2. ConfigInv /\ [ServerNext]_allVars => ConfigInv'
  BY ConfigStep
<1>3. QED
  BY ConfigInitial, <1>1, <1>2, PTL DEF ServerSpec

-----------------------------------------------------------------------------
(* The pages of the DolphinScheduler plugin.  The invariant says of a walk   *)
(* that nothing has disturbed what it has been shown by now, and whether    *)
(* more is to come.                                                         *)

Objects == [id : Nat, readable : BOOLEAN]
Walks ==
  [operation : Pages!Operations, type : Pages!Types, asked : PageSizes, next : Nat \ {0},
   shown : Seq(Nat), size : Nat, got : Nat, cut : BOOLEAN, more : BOOLEAN, extent : Nat,
   steady : BOOLEAN, counted : BOOLEAN, lost : BOOLEAN]

WalkTypes ==
  /\ objects \in Seq(Objects) /\ created \in Nat
  /\ walk \in Walks /\ (walk.asked >= 1 => walk.size <= LargestPage)

\* What there is to show of the first n things.
Showing(things, n) == Pages!Summaries(Pages!Parsed(SubSeq(things, 1, n)))

OnePiece == walk.operation = "list_objects" /\ walk.type = "project"
Seen == (walk.next - 1) * Pages!CappedPageSize(walk.asked)

\* A collection in one piece is shown at once or is too long for ever. Of one
\* in pages what has been shown, if no answer was cut, is that of the pages so
\* far, and there are more if they do not reach as far as the collection did.
SteadyInv ==
  walk.steady =>
    /\ walk.extent <= Len(objects)
    /\ walk.next = 1 => walk.more /\ walk.shown = <<>> /\ walk.extent = 0
    /\ OnePiece /\ walk.next # 1 =>
         IF walk.more THEN Len(Pages!Parsed(objects)) > ListedItems
         ELSE walk.shown = Showing(objects, walk.extent)
    /\ ~OnePiece /\ walk.counted =>
         /\ walk.next # 1 => (walk.more <=> walk.extent > Seen)
         /\ ~walk.lost => walk.shown = Showing(objects, Pages!Smaller(Seen, walk.extent))

PagesInv == part = "pages" => WalkTypes /\ SteadyInv

\* What is kept of objects that are read: in parts what is kept of the whole,
\* and one more or none for one more object.
LEMMA ParsedParts ==
  /\ \A s \in Seq(Objects) : /\ Pages!Parsed(s) \in Seq(Objects)
                             /\ Len(Pages!Parsed(s)) <= Len(s)
  /\ \A s, t \in Seq(Objects) : Pages!Parsed(s \o t) = Pages!Parsed(s) \o Pages!Parsed(t)
  /\ Pages!Parsed(<<>>) = <<>>
<1>1. \A s : Pages!Parsed(s) = Picked(s, Pages!Readable)
  BY DEF Pages!Parsed, Pages!Picked, Picked
<1>2. ASSUME NEW s \in Seq(Objects)
      PROVE  Pages!Parsed(s) \in Seq(Objects) /\ Len(Pages!Parsed(s)) <= Len(s)
  <2>1. /\ Picked(s, Pages!Readable) \in Seq(Objects \intersect Pages!Readable)
        /\ Len(Picked(s, Pages!Readable)) <= Len(s)
    BY PickedType
  <2>2. QED
    BY <1>1, <2>1
<1>3. ASSUME NEW s \in Seq(Objects), NEW t \in Seq(Objects)
      PROVE  Pages!Parsed(s \o t) = Pages!Parsed(s) \o Pages!Parsed(t)
  <2>1. Picked(s \o t, Pages!Readable) = Picked(s, Pages!Readable) \o Picked(t, Pages!Readable)
    BY PickedParts
  <2>2. QED
    BY <1>1, <2>1, Zenon
<1>4. QED
  BY <1>1, <1>2, <1>3, PickedEmpty

\* What is shown of objects is shown of each of them.
LEMMA SummaryParts ==
  /\ \A s \in Seq(Objects) : /\ Pages!Summaries(s) \in Seq(Nat)
                             /\ Len(Pages!Summaries(s)) = Len(s)
  /\ \A s, t \in Seq(Objects) : Pages!Summaries(s \o t) = Pages!Summaries(s) \o Pages!Summaries(t)
  /\ Pages!Summaries(<<>>) = <<>>
<1>1. \A o \in Objects : o.id \in Nat
  BY DEF Objects
<1>2. ASSUME NEW s \in Seq(Objects)
      PROVE  Pages!Summaries(s) \in Seq(Nat) /\ Len(Pages!Summaries(s)) = Len(s)
  <2>1. Pages!Summaries(s) \in [1..Len(s) -> Nat]
    BY <1>1 DEF Pages!Summaries
  <2>2. Len(s) \in Nat
    OBVIOUS
  <2>3. QED
    BY <2>1, <2>2
<1>3. ASSUME NEW s \in Seq(Objects), NEW t \in Seq(Objects)
      PROVE  Pages!Summaries(s \o t) = Pages!Summaries(s) \o Pages!Summaries(t)
  <2>1. ASSUME NEW r \in Seq(Objects)
        PROVE  /\ Pages!Summaries(r) \in Seq(Nat) /\ Len(Pages!Summaries(r)) = Len(r)
               /\ \A i \in 1..Len(r) : Pages!Summaries(r)[i] = r[i].id
    <3>1. \A i \in 1..Len(r) : Pages!Summaries(r)[i] = r[i].id
      BY DEF Pages!Summaries
    <3>2. QED
      BY <1>2, <3>1
  <2> DEFINE a == Pages!Summaries(s)
             b == Pages!Summaries(t)
             st == s \o t
             c == Pages!Summaries(st)
  <2>2. /\ st \in Seq(Objects) /\ Len(st) = Len(s) + Len(t)
        /\ \A i \in 1..Len(s) : st[i] = s[i]
        /\ \A i \in 1..Len(t) : st[Len(s) + i] = t[i]
    BY JoinedItems
  <2> HIDE DEF st
  <2>3. /\ a \in Seq(Nat) /\ b \in Seq(Nat) /\ c \in Seq(Nat)
        /\ Len(a) = Len(s) /\ Len(b) = Len(t) /\ Len(c) = Len(s) + Len(t)
    BY <2>1, <2>2
  <2>4. /\ \A i \in 1..Len(s) : a[i] = s[i].id
        /\ \A i \in 1..Len(t) : b[i] = t[i].id
        /\ \A i \in 1..(Len(s) + Len(t)) : c[i] = st[i].id
    BY <2>1, <2>2
  <2> HIDE DEF a, b, c
  <2> DEFINE ab == a \o b
             m == Len(s)
             n == Len(t)
  <2>5. /\ ab \in Seq(Nat) /\ Len(ab) = m + n
        /\ \A i \in 1..m : ab[i] = a[i]
        /\ \A i \in 1..n : ab[m + i] = b[i]
    <3>1. /\ a \o b \in Seq(Nat) /\ Len(a \o b) = Len(a) + Len(b)
          /\ \A i \in 1..Len(a) : (a \o b)[i] = a[i]
          /\ \A i \in 1..Len(b) : (a \o b)[Len(a) + i] = b[i]
      <4>1. a \in Seq(Nat) /\ b \in Seq(Nat)
        BY <2>3
      <4>2. a \o b \in Seq(Nat) /\ Len(a \o b) = Len(a) + Len(b)
        BY <4>1, JoinedItems
      <4>3. \A i \in 1..Len(a) : (a \o b)[i] = a[i]
        BY <4>1, JoinedItems
      <4>4. \A i \in 1..Len(b) : (a \o b)[Len(a) + i] = b[i]
        BY <4>1, JoinedItems
      <4>5. QED
        BY <4>2, <4>3, <4>4
    <3> HIDE DEF ab
    <3>2. QED
      BY <2>3, <3>1 DEF ab
  <2>6. m \in Nat /\ n \in Nat
    OBVIOUS
  <2>7. \A i \in 1..(m + n) : c[i] = ab[i]
    <3> SUFFICES ASSUME NEW i \in 1..(m + n) PROVE c[i] = ab[i]
      OBVIOUS
    <3> HIDE DEF ab, m, n
    <3>1. CASE i \in 1..m
      BY <2>2, <2>4, <2>5, <2>6, <3>1 DEF m, n
    <3>2. CASE i \notin 1..m
      <4> DEFINE k == i - m
      <4>1. k \in 1..n /\ i = m + k
        BY <2>6, <3>2
      <4> HIDE DEF k
      <4>2. ab[i] = b[k] /\ b[k] = t[k].id
        BY <2>4, <2>5, <4>1 DEF n
      <4>3. st[i] = t[k]
        BY <2>2, <4>1 DEF m, n
      <4>4. c[i] = st[i].id
        BY <2>4 DEF m, n
      <4>5. QED
        BY <4>2, <4>3, <4>4
    <3>3. QED
      BY <3>1, <3>2
  <2> HIDE DEF ab
  <2>8. c = ab
    BY <2>3, <2>5, <2>7, SameItems
  <2>9. QED
    BY <2>8 DEF a, b, c, ab, st
<1>4. Pages!Summaries(<<>>) = <<>>
  BY DEF Pages!Summaries
<1>5. QED
  BY <1>2, <1>3, <1>4

\* What there is to show of the objects up to one, and then of those up to
\* another, is what there is to show of them all.
LEMMA ShowingJoins ==
  ASSUME objects \in Seq(Objects), NEW m \in Nat, NEW n \in Nat, m <= n, n <= Len(objects)
  PROVE  Showing(objects, m) \o Pages!Summaries(Pages!Parsed(SubSeq(objects, m + 1, n))) = Showing(objects, n)
<1> DEFINE a == SubSeq(objects, 1, m)
           b == SubSeq(objects, m + 1, n)
           c == SubSeq(objects, 1, n)
<1>1. a \in Seq(Objects) /\ b \in Seq(Objects) /\ c \in Seq(Objects)
  OBVIOUS
<1>2. c = a \o b
  BY PartsJoin
<1> HIDE DEF a, b, c
<1>3. Pages!Parsed(c) = Pages!Parsed(a) \o Pages!Parsed(b)
  BY <1>1, <1>2, ParsedParts
<1>4. Pages!Parsed(a) \in Seq(Objects) /\ Pages!Parsed(b) \in Seq(Objects)
  BY <1>1, ParsedParts
<1>5. Pages!Summaries(Pages!Parsed(c))
        = Pages!Summaries(Pages!Parsed(a)) \o Pages!Summaries(Pages!Parsed(b))
  BY <1>3, <1>4, SummaryParts
<1>6. QED
  BY <1>5 DEF Showing, a, b, c

\* An object more at the end changes nothing before it, and hides none.
LEMMA ShowingStays ==
  ASSUME objects \in Seq(Objects), NEW o \in Objects, objects' = Append(objects, o)
  PROVE  /\ \A n \in 0..Len(objects) : SubSeq(objects', 1, n) = SubSeq(objects, 1, n)
         /\ Len(Pages!Parsed(objects)) <= Len(Pages!Parsed(objects'))
         /\ objects' \in Seq(Objects) /\ Len(objects') = Len(objects) + 1
<1> DEFINE more == Append(objects, o)
<1>1. more \in Seq(Objects) /\ Len(more) = Len(objects) + 1
      /\ \A i \in 1..Len(objects) : more[i] = objects[i]
  OBVIOUS
<1>2. more = objects \o <<o>> /\ <<o>> \in Seq(Objects)
  OBVIOUS
<1> HIDE DEF more
<1>3. ASSUME NEW n \in 0..Len(objects) PROVE SubSeq(more, 1, n) = SubSeq(objects, 1, n)
  BY <1>1
<1>4. Len(Pages!Parsed(objects)) <= Len(Pages!Parsed(more))
  <2>1. Pages!Parsed(more) = Pages!Parsed(objects) \o Pages!Parsed(<<o>>)
    BY <1>2, ParsedParts
  <2>2. Pages!Parsed(objects) \in Seq(Objects) /\ Pages!Parsed(<<o>>) \in Seq(Objects)
    BY <1>2, ParsedParts
  <2>3. QED
    BY <2>1, <2>2
<1>5. objects' = more
  BY DEF more
<1>6. QED
  BY <1>1, <1>3, <1>4, <1>5

\* A size that is asked for is capped; the default is what it is.
LEMMA PageSizeFits ==
  ASSUME NEW asked \in PageSizes
  PROVE  /\ Pages!CappedPageSize(asked) \in Nat
         /\ asked >= 1 => Pages!CappedPageSize(asked) <= LargestPage
  BY PagesAssumption DEF Pages!CappedPageSize, Pages!Smaller

\* What is listed is shown if there is room for it.
LEMMA AllListed ==
  ASSUME NEW items \in Seq(Objects), Len(items) <= ListedItems
  PROVE  Pages!First(ListedItems, items) = items
<1>1. Pages!Smaller(ListedItems, Len(items)) = Len(items)
  BY PagesAssumption DEF Pages!Smaller
<1>2. SubSeq(items, 1, Len(items)) = items
  OBVIOUS
<1>3. QED
  BY <1>1, <1>2 DEF Pages!First

\* What is shown of objects is of objects.
LEMMA ListedType ==
  ASSUME NEW items \in Seq(Objects)
  PROVE  Pages!First(ListedItems, items) \in Seq(Objects)
<1> DEFINE n == Pages!Smaller(ListedItems, Len(items))
<1>1. n \in 0..Len(items)
  BY PagesAssumption DEF Pages!Smaller
<1> HIDE DEF n
<1>2. SubSeq(items, 1, n) \in Seq(Objects)
  BY <1>1
<1>3. QED
  BY <1>2 DEF Pages!First, n

\* The objects on n pages of z, and on one page more.
LEMMA PagesCount ==
  ASSUME NEW n \in Nat \ {0}, NEW z \in Nat
  PROVE  (n - 1) * z \in Nat /\ n * z = (n - 1) * z + z /\ (1 - 1) * z = 0 /\ ((n + 1) - 1) * z = n * z
<1>1. \A k \in Nat, y \in Nat : k * y \in Nat /\ (k + 1) * y = k * y + y /\ 0 * y = 0
  OBVIOUS
<1> DEFINE k == n - 1
<1>2. k \in Nat /\ n = k + 1 /\ (n + 1) - 1 = n /\ 1 - 1 = 0
  OBVIOUS
<1> HIDE DEF k
<1>3. k * z \in Nat /\ (k + 1) * z = k * z + z /\ 0 * z = 0
  BY <1>1, <1>2
<1>4. QED
  BY <1>2, <1>3 DEF k

\* What an answer holds, whatever is listed.
LEMMA AnswerFields ==
  ASSUME NEW items \in Seq(Objects), NEW z \in Nat, NEW total, NEW truncated \in BOOLEAN
  PROVE  LET a == Pages!Answer(items, z, total, truncated)
         IN  /\ a.items \in Seq(Nat) /\ Len(a.items) \in Nat /\ a.size = z
             /\ a.truncated \in BOOLEAN /\ (a.truncated <=> truncated) /\ a.cut \in BOOLEAN
             /\ Len(items) <= ListedItems => a.items = Pages!Summaries(items)
             /\ ~a.cut => a.items = Pages!Summaries(items)
<1> DEFINE a == Pages!Answer(items, z, total, truncated)
<1>1. /\ a.items = Pages!Summaries(Pages!First(ListedItems, items)) /\ a.size = z
      /\ a.truncated = truncated /\ a.cut = (Len(items) > ListedItems)
  BY DEF Pages!Answer
<1>2. Pages!First(ListedItems, items) \in Seq(Objects)
  BY ListedType
<1> HIDE DEF a
<1>3. a.items \in Seq(Nat)
  BY <1>1, <1>2, SummaryParts
<1>4. Len(a.items) \in Nat
  BY <1>3
<1>5. Len(items) <= ListedItems => a.items = Pages!Summaries(items)
  BY <1>1, AllListed
<1>6. a.cut \in BOOLEAN /\ (~a.cut => Len(items) <= ListedItems)
  <2>1. Len(items) \in Nat /\ ListedItems \in Nat
    BY PagesAssumption
  <2>2. Len(items) > ListedItems \/ Len(items) <= ListedItems
    BY <2>1
  <2> DEFINE long == Len(items) > ListedItems
  <2>3. a.cut = long /\ long \in BOOLEAN
    BY <1>1
  <2>4. long \/ Len(items) <= ListedItems
    BY <2>2
  <2> HIDE DEF long
  <2>5. QED
    BY <2>3, <2>4
<1>7. QED
  BY <1>1, <1>3, <1>4, <1>5, <1>6 DEF a

\* A page of the server's is of objects, and no larger than was asked for.
LEMMA ServerPageType ==
  ASSUME objects \in Seq(Objects), NEW n \in Nat \ {0}, NEW z \in Nat
  PROVE  /\ Pages!ServerPage(n, z) \in Seq(Objects)
         /\ Len(Pages!ServerPage(n, z)) <= z
         /\ (n - 1) * z <= Len(objects) =>
              Pages!ServerPage(n, z)
                = SubSeq(objects, (n - 1) * z + 1, Pages!Smaller((n - 1) * z + z, Len(objects)))
<1> DEFINE seen == (n - 1) * z
           end == Pages!Smaller(seen + z, Len(objects))
           page == SubSeq(objects, seen + 1, end)
<1>1. Pages!ServerPage(n, z) = page /\ seen \in Nat
  BY PagesCount DEF Pages!ServerPage
<1>2. end \in 0..Len(objects) /\ end <= seen + z
  <2> HIDE DEF seen
  <2>1. QED
    BY <1>1 DEF Pages!Smaller
<1> HIDE DEF seen, end
<1>3. CASE seen <= Len(objects)
  <2>1. seen + 1 \in 1..(Len(objects) + 1)
    BY <1>1, <1>3
  <2>2. page \in Seq(Objects) /\ Len(page) = IF seen + 1 > end THEN 0 ELSE end - (seen + 1) + 1
    BY <1>2, <2>1, PartItems
  <2>3. Len(page) <= z
    BY <1>1, <1>2, <2>2
  <2>4. QED
    BY <1>1, <2>2, <2>3 DEF seen, end
<1>4. CASE ~(seen <= Len(objects))
  <2>1. seen + 1 > end
    BY <1>1, <1>2, <1>4
  <2>2. page = <<>>
    BY <1>1, <1>2, <2>1
  <2>3. <<>> \in Seq(Objects) /\ Len(<<>>) <= z
    OBVIOUS
  <2>4. QED
    BY <1>1, <1>4, <2>2, <2>3 DEF seen
<1>5. QED
  BY <1>3, <1>4

\* Of nothing there is nothing to show.
LEMMA NothingShown ==
  ASSUME objects \in Seq(Objects)
  PROVE  Showing(objects, 0) = <<>>
<1>1. SubSeq(objects, 1, 0) = <<>>
  OBVIOUS
<1>2. QED
  BY <1>1, ParsedParts, SummaryParts DEF Showing

\* A walk that begins.
LEMMA NewWalkRight ==
  ASSUME NEW operation \in Pages!Operations, NEW type \in Pages!Types, NEW asked \in PageSizes
  PROVE  LET w == Pages!NewWalk(operation, type, asked)
         IN  /\ w \in Walks /\ w.size = 0 /\ w.next = 1 /\ w.more /\ w.shown = <<>> /\ w.extent = 0
             /\ w.asked = asked
  BY DEF Pages!NewWalk, Walks

\* Before the first page nothing has been seen.
LEMMA NothingSeen ==
  ASSUME NEW asked \in PageSizes
  PROVE  (1 - 1) * Pages!CappedPageSize(asked) = 0
<1> DEFINE z == Pages!CappedPageSize(asked)
<1>1. z \in Nat
  BY PageSizeFits
<1> HIDE DEF z
<1>2. (1 - 1) * z = 0
  BY <1>1, PagesCount
<1>3. QED
  BY <1>2 DEF z

\* The first walk is about to begin.
LEMMA PagesInitial ==
  ASSUME Pages!Init
  PROVE  WalkTypes /\ SteadyInv
<1>1. /\ objects = <<>> /\ created = 0
      /\ walk \in Walks /\ walk.size = 0 /\ walk.next = 1 /\ walk.more /\ walk.shown = <<>>
      /\ walk.extent = 0 /\ walk.asked \in PageSizes
  BY NewWalkRight DEF Pages!Init
<1>2. WalkTypes
  BY <1>1, PagesAssumption DEF WalkTypes
<1>3. Seen = 0
  BY <1>1, NothingSeen DEF Seen
<1>4. Showing(objects, 0) = <<>>
  BY <1>1, NothingShown
<1>5. SteadyInv
  BY <1>1, <1>3, <1>4 DEF SteadyInv, Pages!Smaller
<1>6. QED
  BY <1>2, <1>5

\* Another walk begins, whatever became of the one before.
LEMMA WalkStarts ==
  ASSUME WalkTypes, NEW operation \in Pages!Operations, NEW type \in Pages!Types,
         NEW asked \in PageSizes, Pages!StartWalk(operation, type, asked)
  PROVE  WalkTypes' /\ SteadyInv'
<1>1. /\ objects' = objects /\ created' = created /\ objects \in Seq(Objects) /\ created \in Nat
      /\ walk' \in Walks /\ walk'.size = 0 /\ walk'.next = 1 /\ walk'.more /\ walk'.shown = <<>>
      /\ walk'.extent = 0 /\ walk'.asked \in PageSizes
  BY NewWalkRight DEF Pages!StartWalk, WalkTypes
<1>2. WalkTypes'
  BY <1>1, PagesAssumption DEF WalkTypes
<1>3. Seen' = 0
  <2>1. (1 - 1) * Pages!CappedPageSize(walk'.asked) = 0
    BY <1>1, NothingSeen
  <2>2. QED
    BY <1>1, <2>1 DEF Seen, Pages!CappedPageSize, Pages!Smaller
<1>4. Showing(objects, 0)' = <<>>
  <2>1. Showing(objects, 0)' = Showing(objects, 0)
    BY <1>1
  <2>2. QED
    BY <1>1, <2>1, NothingShown
<1>5. Pages!Smaller(0, 0) = 0 /\ 0 <= Len(objects)
  BY <1>1 DEF Pages!Smaller
<1>6. SteadyInv'
  BY <1>1, <1>3, <1>4, <1>5 DEF SteadyInv, OnePiece
<1>7. QED
  BY <1>2, <1>6

\* A page more.
LEMMA PageTurns ==
  ASSUME WalkTypes, SteadyInv, NEW counts \in BOOLEAN, Pages!NextPage(counts)
  PROVE  WalkTypes' /\ SteadyInv'
<1> DEFINE z == Pages!CappedPageSize(walk.asked)
           seen == (walk.next - 1) * z
           all == Pages!Parsed(objects)
           page == Pages!ServerPage(walk.next, z)
           total == IF counts THEN Len(objects) ELSE 0
           a == Pages!Page(walk.operation, walk.type, walk.next, walk.asked, counts)
<1>1. /\ objects \in Seq(Objects) /\ created \in Nat /\ walk \in Walks
      /\ objects' = objects /\ created' = created /\ walk.more
      /\ walk' = [walk EXCEPT !.next = @ + 1, !.shown = @ \o a.items, !.size = a.size,
                             !.got = Len(a.items), !.cut = a.cut, !.more = a.truncated,
                             !.extent = Len(objects), !.counted = @ /\ counts,
                             !.lost = @ \/ a.cut]
  BY DEF WalkTypes, Pages!NextPage
<1>2. /\ walk.next \in Nat \ {0} /\ walk.asked \in PageSizes /\ walk.shown \in Seq(Nat)
      /\ walk.extent \in Nat /\ walk.counted \in BOOLEAN /\ walk.more \in BOOLEAN
      /\ walk.steady \in BOOLEAN /\ walk.lost \in BOOLEAN
      /\ walk.operation \in Pages!Operations /\ walk.type \in Pages!Types
  BY <1>1 DEF Walks
<1>3. /\ z \in Nat /\ LargestPage \in Nat /\ ListedItems \in Nat
      /\ walk.asked >= 1 => z <= LargestPage
  <2>1. z \in Nat /\ (walk.asked >= 1 => z <= LargestPage)
    BY <1>2, PageSizeFits
  <2> HIDE DEF z
  <2>2. QED
    BY <2>1, PagesAssumption
<1>4. /\ seen \in Nat /\ walk.next * z = seen + z /\ ((walk.next + 1) - 1) * z = walk.next * z
  <2> HIDE DEF z
  <2>1. QED
    BY <1>2, <1>3, PagesCount
<1>5. all \in Seq(Objects)
  BY <1>1, ParsedParts
<1>6. /\ page \in Seq(Objects) /\ Len(page) <= z
      /\ seen <= Len(objects) =>
           page = SubSeq(objects, seen + 1, Pages!Smaller(seen + z, Len(objects)))
  <2> HIDE DEF z
  <2>1. QED
    BY <1>1, <1>2, <1>3, ServerPageType
<1>7. Pages!Parsed(page) \in Seq(Objects)
  <2> HIDE DEF page, z
  <2>1. QED
    BY <1>6, ParsedParts
<1>8. OnePiece => a = Pages!Answer(all, z, Len(all), Len(all) > ListedItems)
  BY DEF OnePiece, Pages!Page, Pages!ListObjects, Pages!Unpaginated
<1>9. ~OnePiece => a = Pages!Answer(Pages!Parsed(page), z, total, total > walk.next * z)
  BY <1>2 DEF OnePiece, Pages!Operations, Pages!Types, Pages!Page, Pages!ListObjects,
              Pages!SearchObjects, Pages!Paged, Pages!ParsePage
<1>10. OnePiece => /\ a.items \in Seq(Nat) /\ Len(a.items) \in Nat /\ a.size = z
                   /\ a.cut \in BOOLEAN /\ a.truncated \in BOOLEAN
                   /\ a.truncated <=> Len(all) > ListedItems
                   /\ Len(all) <= ListedItems => a.items = Pages!Summaries(all)
  <2> SUFFICES ASSUME OnePiece
               PROVE  /\ a.items \in Seq(Nat) /\ Len(a.items) \in Nat /\ a.size = z
                      /\ a.cut \in BOOLEAN /\ a.truncated \in BOOLEAN
                      /\ a.truncated <=> Len(all) > ListedItems
                      /\ Len(all) <= ListedItems => a.items = Pages!Summaries(all)
    OBVIOUS
  <2> DEFINE total1 == Len(all)
             more1 == Len(all) > ListedItems
             answer1 == Pages!Answer(all, z, total1, more1)
  <2>1. more1 \in BOOLEAN /\ a = answer1
    BY <1>8
  <2> HIDE DEF a, all, z, total1, more1
  <2>2. /\ answer1.items \in Seq(Nat) /\ Len(answer1.items) \in Nat /\ answer1.size = z
        /\ answer1.truncated \in BOOLEAN /\ (answer1.truncated <=> more1) /\ answer1.cut \in BOOLEAN
        /\ Len(all) <= ListedItems => answer1.items = Pages!Summaries(all)
    BY <1>3, <1>5, <2>1, AnswerFields
  <2> HIDE DEF answer1
  <2>3. QED
    BY <2>1, <2>2 DEF more1
<1>11. ~OnePiece => /\ ~a.cut => a.items = Pages!Summaries(Pages!Parsed(page))
                    /\ a.items \in Seq(Nat)
                    /\ Len(a.items) \in Nat /\ a.size = z
                    /\ a.cut \in BOOLEAN /\ a.truncated \in BOOLEAN
                    /\ a.truncated <=> total > walk.next * z
  <2> SUFFICES ASSUME ~OnePiece
               PROVE  /\ ~a.cut => a.items = Pages!Summaries(Pages!Parsed(page))
                      /\ a.items \in Seq(Nat)
                      /\ Len(a.items) \in Nat /\ a.size = z
                      /\ a.cut \in BOOLEAN /\ a.truncated \in BOOLEAN
                      /\ a.truncated <=> total > walk.next * z
    OBVIOUS
  <2> DEFINE items == Pages!Parsed(page)
             more == total > walk.next * z
  <2>1. more \in BOOLEAN
    OBVIOUS
  <2>2. items \in Seq(Objects) /\ a = Pages!Answer(items, z, total, more)
    BY <1>7, <1>9
  <2> DEFINE answer1 == Pages!Answer(items, z, total, more)
  <2> HIDE DEF a, items, z, more, total
  <2>3. /\ answer1.items \in Seq(Nat) /\ Len(answer1.items) \in Nat /\ answer1.size = z
        /\ answer1.truncated \in BOOLEAN /\ (answer1.truncated <=> more) /\ answer1.cut \in BOOLEAN
        /\ ~answer1.cut => answer1.items = Pages!Summaries(items)
    BY <1>3, <2>1, <2>2, AnswerFields
  <2>4. a = answer1
    BY <2>2
  <2> HIDE DEF answer1
  <2>5. QED
    BY <2>3, <2>4 DEF items, more
<1>12. /\ a.items \in Seq(Nat) /\ Len(a.items) \in Nat /\ a.size = z /\ a.cut \in BOOLEAN
       /\ a.truncated \in BOOLEAN
  <2>1. CASE OnePiece
    <3> HIDE DEF a
    <3>1. QED
      BY <1>10, <2>1
  <2>2. CASE ~OnePiece
    <3> HIDE DEF a
    <3>1. QED
      BY <1>11, <2>2
  <2>3. QED
    BY <2>1, <2>2
<1> HIDE DEF z, all, page, a
<1>13. /\ walk'.next = walk.next + 1 /\ walk'.shown = walk.shown \o a.items
       /\ walk'.more = a.truncated /\ walk'.extent = Len(objects)
       /\ walk'.counted = (walk.counted /\ counts) /\ walk'.steady = walk.steady
       /\ walk'.asked = walk.asked /\ walk'.operation = walk.operation /\ walk'.type = walk.type
       /\ walk'.size = z /\ walk'.lost = (walk.lost \/ a.cut)
  BY <1>1, <1>12 DEF Walks
<1>14. WalkTypes'
  <2>1. walk' \in Walks
    <3> DEFINE next == walk.next + 1
               shown == walk.shown \o a.items
               size == a.size
               shownNow == Len(a.items)
               cut == a.cut
               more == a.truncated
               extent == Len(objects)
               counted == walk.counted /\ counts
               lost == walk.lost \/ a.cut
    <3>1. /\ next \in Nat \ {0} /\ shown \in Seq(Nat) /\ size \in Nat /\ shownNow \in Nat
          /\ cut \in BOOLEAN /\ more \in BOOLEAN /\ extent \in Nat
          /\ counted \in BOOLEAN /\ lost \in BOOLEAN
      BY <1>1, <1>2, <1>3, <1>12
    <3>2. walk' = [walk EXCEPT !.next = next, !.shown = shown, !.size = size, !.got = shownNow,
                              !.cut = cut, !.more = more, !.extent = extent,
                              !.counted = counted, !.lost = lost]
      BY <1>1
    <3> HIDE DEF next, shown, size, shownNow, cut, more, extent, counted, lost
    <3>3. walk \in Walks
      BY <1>1
    <3>4. [walk EXCEPT !.next = next, !.shown = shown, !.size = size, !.got = shownNow,
                       !.cut = cut, !.more = more, !.extent = extent,
                       !.counted = counted, !.lost = lost] \in Walks
      BY <3>1, <3>3 DEF Walks
    <3>5. QED
      BY <3>2, <3>4
  <2>2. QED
    BY <1>1, <1>3, <1>13, <2>1 DEF WalkTypes
<1>15. OnePiece' = OnePiece
  BY <1>13 DEF OnePiece
<1>16. Seen = seen /\ Seen' = walk.next * z
  <2>1. Pages!CappedPageSize(walk.asked)' = z
    BY <1>13 DEF z, Pages!CappedPageSize, Pages!Smaller
  <2>2. QED
    BY <1>4, <1>13, <2>1 DEF Seen, z
<1>17. walk'.next # 1
  BY <1>2, <1>13
<1>18. ASSUME walk.steady, OnePiece
       PROVE  IF walk'.more THEN Len(all) > ListedItems ELSE walk'.shown = Showing(objects, Len(objects))
  <2> SUFFICES ASSUME ~walk'.more PROVE walk'.shown = Showing(objects, Len(objects))
    BY <1>10, <1>13, <1>18
  <2>1. Len(all) \in Nat /\ ~(Len(all) > ListedItems)
    <3>1. ~a.truncated
      BY <1>13
    <3>2. QED
      BY <1>5, <1>10, <1>18, <3>1
  <2>2. a.items = Pages!Summaries(all)
    BY <1>3, <1>10, <1>18, <2>1
  <2>3. walk.shown = <<>>
    BY <1>1, <1>18, <2>1 DEF SteadyInv, all
  <2>4. SubSeq(objects, 1, Len(objects)) = objects
    BY <1>1
  <2>5. <<>> \o a.items = a.items
    BY <1>12
  <2>6. QED
    BY <1>13, <2>2, <2>3, <2>4, <2>5 DEF Showing, all
<1>19. ASSUME walk.steady, ~OnePiece, walk'.counted
       PROVE  /\ walk'.more <=> Len(objects) > walk.next * z
              /\ ~walk'.lost =>
                   walk'.shown = Showing(objects, Pages!Smaller(walk.next * z, Len(objects)))
  <2>1. walk.counted /\ counts /\ total = Len(objects)
    BY <1>13, <1>19
  <2>2. walk'.more <=> Len(objects) > walk.next * z
    BY <1>11, <1>13, <1>19, <2>1
  <2> SUFFICES ASSUME ~walk'.lost
               PROVE  walk'.shown = Showing(objects, Pages!Smaller(walk.next * z, Len(objects)))
    BY <2>2
  <2> ~walk.lost /\ ~a.cut
    BY <1>13
  <2>3. seen <= Len(objects) /\ walk.shown = Showing(objects, seen)
    <3>1. CASE walk.next = 1
      <4>1. seen = 0 /\ walk.extent = 0
        <5>1. Seen = 0
          BY <1>2, <3>1, NothingSeen DEF Seen
        <5>2. QED
          BY <1>16, <1>19, <3>1, <5>1 DEF SteadyInv
      <4>2. walk.shown = <<>> /\ Showing(objects, 0) = <<>>
        BY <1>1, <1>19, <3>1, NothingShown DEF SteadyInv
      <4> HIDE DEF seen
      <4>3. 0 <= Len(objects)
        BY <1>1
      <4>4. QED
        BY <4>1, <4>2, <4>3
    <3>2. CASE walk.next # 1
      <4>1. /\ walk.extent > seen /\ walk.extent <= Len(objects)
            /\ walk.shown = Showing(objects, Pages!Smaller(seen, walk.extent))
        BY <1>1, <1>16, <1>19, <2>1, <3>2 DEF SteadyInv
      <4> HIDE DEF seen
      <4>2. Len(objects) \in Nat
        BY <1>1
      <4>3. Pages!Smaller(seen, walk.extent) = seen /\ seen <= Len(objects)
        BY <1>2, <1>4, <4>1, <4>2 DEF Pages!Smaller
      <4>4. QED
        BY <4>1, <4>3
    <3>3. QED
      BY <3>1, <3>2
  <2> DEFINE end == Pages!Smaller(seen + z, Len(objects))
  <2>4. end \in Nat /\ seen <= end /\ end <= Len(objects) /\ seen \in Nat
    <3> HIDE DEF seen
    <3>1. Len(objects) \in Nat
      BY <1>1
    <3>2. QED
      BY <1>3, <1>4, <2>3, <3>1 DEF Pages!Smaller
  <2>5. a.items = Pages!Summaries(Pages!Parsed(SubSeq(objects, seen + 1, end)))
    BY <1>6, <1>11, <1>19, <2>3
  <2> HIDE DEF end
  <2>6. Showing(objects, seen) \o a.items = Showing(objects, end)
    <3> HIDE DEF seen
    <3>1. Showing(objects, seen) \o Pages!Summaries(Pages!Parsed(SubSeq(objects, seen + 1, end))) = Showing(objects, end)
      BY <1>1, <2>4, ShowingJoins
    <3>2. QED
      BY <2>5, <3>1
  <2>7. walk'.shown = Showing(objects, end)
    BY <1>13, <2>3, <2>6
  <2>8. QED
    BY <1>4, <2>2, <2>7 DEF end
<1>20. SteadyInv'
  <2> SUFFICES ASSUME walk.steady PROVE SteadyInv'
    BY <1>13 DEF SteadyInv
  <2>1. walk'.extent = Len(objects') /\ Len(objects') <= Len(objects')
    BY <1>1, <1>13
  <2>2. OnePiece' => IF walk'.more THEN Len(Pages!Parsed(objects)') > ListedItems
                     ELSE walk'.shown = Showing(objects, walk.extent)'
    <3>1. Pages!Parsed(objects)' = all
      BY <1>1 DEF all, Pages!Parsed, Pages!Picked, Pages!Readable
    <3>2. Showing(objects, walk.extent)' = Showing(objects, Len(objects))
      BY <1>1, <1>13
    <3>3. QED
      BY <1>15, <1>18, <3>1, <3>2
  <2>3. ~OnePiece' /\ walk'.counted =>
          /\ walk'.more <=> walk'.extent > Seen'
          /\ ~walk'.lost => walk'.shown = Showing(objects, Pages!Smaller(Seen, walk.extent))'
    <3>1. Showing(objects, Pages!Smaller(Seen, walk.extent))' = Showing(objects, Pages!Smaller(walk.next * z, Len(objects)))
      <4>1. Pages!Smaller(Seen, walk.extent)' = Pages!Smaller(walk.next * z, Len(objects))
        BY <1>13, <1>16 DEF Pages!Smaller
      <4>2. QED
        BY <1>1, <4>1
    <3>2. QED
      BY <1>13, <1>15, <1>16, <1>19, <3>1
  <2>4. QED
    BY <1>17, <2>1, <2>2, <2>3 DEF SteadyInv
<1>21. QED
  BY <1>14, <1>20

\* An object more: at the end it is on a later page, elsewhere it unsettles the
\* walk.
LEMMA ObjectAppears ==
  ASSUME WalkTypes, SteadyInv, NEW readable \in BOOLEAN, NEW atEnd \in BOOLEAN,
         Pages!Appears(readable, atEnd)
  PROVE  WalkTypes' /\ SteadyInv'
<1> DEFINE o == [id |-> created + 1, readable |-> readable]
<1>1. /\ objects \in Seq(Objects) /\ created \in Nat /\ walk \in Walks
      /\ walk.asked >= 1 => walk.size <= LargestPage
      /\ created' = created + 1
      /\ objects' = IF atEnd THEN Append(objects, o) ELSE <<o>> \o objects
      /\ walk' = [walk EXCEPT !.steady = @ /\ atEnd]
  BY DEF WalkTypes, Pages!Appears
<1>2. o \in Objects /\ created + 1 \in Nat
  BY <1>1 DEF Objects
<1> HIDE DEF o
<1>3. objects' \in Seq(Objects)
  <2>1. CASE atEnd
    BY <1>1, <1>2, <2>1
  <2>2. CASE ~atEnd
    <3>1. <<o>> \in Seq(Objects)
      BY <1>2
    <3>2. <<o>> \o objects \in Seq(Objects)
      BY <1>1, <3>1
    <3>3. QED
      BY <1>1, <2>2, <3>2
  <2>3. QED
    BY <2>1, <2>2
<1>4. walk' \in Walks /\ walk'.size = walk.size /\ walk'.asked = walk.asked
  BY <1>1 DEF Walks
<1>5. WalkTypes'
  BY <1>1, <1>2, <1>3, <1>4 DEF WalkTypes
<1>6. ASSUME walk'.steady PROVE SteadyInv'
  <2>1. /\ walk.steady /\ atEnd /\ objects' = Append(objects, o)
        /\ walk'.next = walk.next /\ walk'.shown = walk.shown /\ walk'.more = walk.more
        /\ walk'.extent = walk.extent /\ walk'.counted = walk.counted /\ walk'.asked = walk.asked
        /\ walk'.operation = walk.operation /\ walk'.type = walk.type /\ walk'.lost = walk.lost
    BY <1>1, <1>6 DEF Walks
  <2>2. /\ \A n \in 0..Len(objects) : SubSeq(objects', 1, n) = SubSeq(objects, 1, n)
        /\ Len(Pages!Parsed(objects)) <= Len(Pages!Parsed(objects'))
        /\ Len(objects') = Len(objects) + 1
    BY <1>1, <1>2, <2>1, ShowingStays
  <2>3. \A n \in 0..Len(objects) : Showing(objects', n) = Showing(objects, n)
    BY <2>2 DEF Showing
  <2>4. /\ walk.extent \in 0..Len(objects) /\ Len(objects) \in Nat /\ walk.asked \in PageSizes
        /\ walk.next \in Nat \ {0} /\ walk.more \in BOOLEAN
    <3>1. walk.extent \in Nat /\ walk.asked \in PageSizes /\ walk.next \in Nat \ {0} /\ walk.more \in BOOLEAN
      BY <1>1 DEF Walks
    <3>2. walk.extent <= Len(objects)
      BY <2>1 DEF SteadyInv
    <3>3. QED
      BY <1>1, <3>1, <3>2
  <2>5. Seen' = Seen /\ OnePiece' = OnePiece
    BY <2>1 DEF Seen, OnePiece
  <2>6. Pages!Smaller(Seen, walk.extent) \in 0..Len(objects)
    <3> DEFINE z == Pages!CappedPageSize(walk.asked)
    <3>1. z \in Nat
      BY <2>4, PageSizeFits
    <3> HIDE DEF z
    <3>2. (walk.next - 1) * z \in Nat
      BY <2>4, <3>1, PagesCount
    <3>3. Seen \in Nat
      BY <3>2 DEF Seen, z
    <3>4. QED
      BY <2>4, <3>3 DEF Pages!Smaller
  <2>7. Len(Pages!Parsed(objects)) \in Nat /\ Len(Pages!Parsed(objects')) \in Nat
    <3>1. Pages!Parsed(objects) \in Seq(Objects)
      BY <1>1, ParsedParts
    <3>2. Pages!Parsed(objects') \in Seq(Objects)
      BY <1>3, ParsedParts
    <3>3. QED
      BY <3>1, <3>2
  <2>8. walk'.extent <= Len(objects')
    BY <2>1, <2>2, <2>4
  <2>9. walk'.next = 1 => walk'.more /\ walk'.shown = <<>> /\ walk'.extent = 0
    BY <2>1 DEF SteadyInv
  <2>10. OnePiece' /\ walk'.next # 1 =>
           IF walk'.more THEN Len(Pages!Parsed(objects')) > ListedItems
           ELSE walk'.shown = Showing(objects', walk'.extent)
    <3> SUFFICES ASSUME OnePiece, walk.next # 1
                 PROVE  IF walk.more THEN Len(Pages!Parsed(objects')) > ListedItems
                        ELSE walk.shown = Showing(objects', walk.extent)
      BY <2>1, <2>5
    <3>1. IF walk.more THEN Len(Pages!Parsed(objects)) > ListedItems
          ELSE walk.shown = Showing(objects, walk.extent)
      BY <2>1 DEF SteadyInv
    <3>2. ListedItems \in Nat
      BY PagesAssumption
    <3>3. Showing(objects', walk.extent) = Showing(objects, walk.extent)
      BY <2>3, <2>4
    <3>4. QED
      BY <2>2, <2>7, <3>1, <3>2, <3>3
  <2>11. ~OnePiece' /\ walk'.counted =>
           /\ walk'.next # 1 => (walk'.more <=> walk'.extent > Seen')
           /\ ~walk'.lost => walk'.shown = Showing(objects', Pages!Smaller(Seen', walk'.extent))
    <3> SUFFICES ASSUME ~OnePiece, walk.counted
                 PROVE  /\ walk.next # 1 => (walk.more <=> walk.extent > Seen)
                        /\ ~walk.lost => walk.shown = Showing(objects', Pages!Smaller(Seen, walk.extent))
      BY <2>1, <2>5
    <3>1. /\ walk.next # 1 => (walk.more <=> walk.extent > Seen)
          /\ ~walk.lost => walk.shown = Showing(objects, Pages!Smaller(Seen, walk.extent))
      BY <2>1 DEF SteadyInv
    <3>2. Showing(objects', Pages!Smaller(Seen, walk.extent))
            = Showing(objects, Pages!Smaller(Seen, walk.extent))
      BY <2>3, <2>6
    <3>3. QED
      BY <3>1, <3>2
  <2>12. QED
    BY <2>8, <2>9, <2>10, <2>11 DEF SteadyInv
<1>7. QED
  BY <1>5, <1>6 DEF SteadyInv

\* An object less unsettles the walk.
LEMMA ObjectVanishes ==
  ASSUME WalkTypes, NEW i \in 1..Len(objects), Pages!Vanishes(i)
  PROVE  WalkTypes' /\ SteadyInv'
<1>1. /\ objects \in Seq(Objects) /\ walk \in Walks /\ (walk.asked >= 1 => walk.size <= LargestPage)
      /\ objects' = SubSeq(objects, 1, i - 1) \o SubSeq(objects, i + 1, Len(objects))
      /\ walk' = [walk EXCEPT !.steady = FALSE] /\ created' = created /\ created \in Nat
  BY DEF WalkTypes, Pages!Vanishes, Pages!RemoveAt
<1>2. objects' \in Seq(Objects)
  <2>1. SubSeq(objects, 1, i - 1) \in Seq(Objects) /\ SubSeq(objects, i + 1, Len(objects)) \in Seq(Objects)
    <3>1. /\ 1 \in 1..(Len(objects) + 1) /\ i - 1 \in 0..Len(objects)
          /\ i + 1 \in 1..(Len(objects) + 1) /\ Len(objects) \in 0..Len(objects)
      BY <1>1
    <3>2. QED
      BY <1>1, <3>1, PartItems
  <2>2. QED
    BY <1>1, <2>1
<1>3. walk' \in Walks /\ walk'.size = walk.size /\ walk'.asked = walk.asked /\ ~walk'.steady
  BY <1>1 DEF Walks
<1>4. QED
  BY <1>1, <1>2, <1>3 DEF WalkTypes, SteadyInv

\* The steps of the other parts leave the pages alone.
LEMMA PagesStay ==
  ASSUME WalkTypes, SteadyInv, UNCHANGED pageVars
  PROVE  WalkTypes' /\ SteadyInv'
<1>1. objects' = objects /\ walk' = walk /\ created' = created
  BY DEF pageVars
<1>2. WalkTypes'
  BY <1>1 DEF WalkTypes
<1>3. Seen' = Seen /\ OnePiece' = OnePiece
  BY <1>1 DEF Seen, OnePiece
<1>4. SteadyInv'
  BY <1>1, <1>3 DEF SteadyInv
<1>5. QED
  BY <1>2, <1>4

\* A walk is at its end when the pages have reached as far as the collection.
LEMMA WalkRight ==
  ASSUME WalkTypes, SteadyInv
  PROVE  Pages!WalkComplete /\ Pages!SizeCapped
<1>1. ASSUME ~walk.more, walk.steady, walk.counted, ~walk.lost
      PROVE  walk.shown = Showing(objects, walk.extent)
  <2>1. walk.next # 1
    BY <1>1 DEF SteadyInv
  <2>2. CASE OnePiece
    BY <1>1, <2>1, <2>2 DEF SteadyInv
  <2>3. CASE ~OnePiece
    <3>1. ~(walk.extent > Seen) /\ walk.shown = Showing(objects, Pages!Smaller(Seen, walk.extent))
      BY <1>1, <2>1, <2>3 DEF SteadyInv
    <3>2. walk.extent \in Nat /\ walk.next \in Nat \ {0} /\ walk.asked \in PageSizes
      BY DEF WalkTypes, Walks
    <3>3. Seen \in Nat
      <4> DEFINE z == Pages!CappedPageSize(walk.asked)
      <4>1. z \in Nat
        BY <3>2, PageSizeFits
      <4> HIDE DEF z
      <4>2. (walk.next - 1) * z \in Nat
        BY <3>2, <4>1, PagesCount
      <4>3. QED
        BY <4>2 DEF Seen, z
    <3>4. Pages!Smaller(Seen, walk.extent) = walk.extent
      BY <3>1, <3>2, <3>3 DEF Pages!Smaller
    <3>5. QED
      BY <3>1, <3>4
  <2>4. QED
    BY <2>2, <2>3
<1>2. Pages!WalkComplete
  BY <1>1 DEF Pages!WalkComplete, Pages!Done, Showing
<1>3. Pages!SizeCapped
  BY DEF WalkTypes, Pages!SizeCapped
<1>4. QED
  BY <1>2, <1>3

\* Whoever asks for page after page until an answer is not truncated has been
\* shown every object that can be read, once and in order, if objects came at
\* the end only and max_detail_items cut no answer on the way, and no size that
\* is asked for makes a page larger than max_page_size (list_objects,
\* search_objects): for any three bounds, however they compare, for any page
\* sizes that are asked for, and for any number of objects.
THEOREM PagesComplete == ServerSpec => []PagesHonest
<1>1. ServerInit => PagesInv
  <2> SUFFICES ASSUME ServerInit, part = "pages" PROVE Pages!Init
    BY PagesInitial DEF PagesInv
  <2>1. QED
    BY DEF ServerInit
<1>2. PagesInv /\ [ServerNext]_allVars => PagesInv'
  <2> SUFFICES ASSUME PagesInv, [ServerNext]_allVars, part' = "pages"
               PROVE  WalkTypes' /\ SteadyInv'
    BY DEF PagesInv
  <2>1. part = "pages" /\ (Pages!Next \/ UNCHANGED pageVars)
    BY DEF ServerNext, InCalls, InPages, InLogs, InConfig, InServer, InQuery, allVars
  <2>2. WalkTypes /\ SteadyInv
    BY <2>1 DEF PagesInv
  <2>3. CASE Pages!Next
    BY <2>2, <2>3, WalkStarts, PageTurns, ObjectAppears, ObjectVanishes DEF Pages!Next
  <2>4. QED
    BY <2>1, <2>2, <2>3, PagesStay
<1>3. PagesInv => PagesHonest
  BY WalkRight DEF PagesInv, PagesHonest
<1>4. QED
  BY <1>1, <1>2, <1>3, PTL DEF ServerSpec

-----------------------------------------------------------------------------
(* The logs of the DolphinScheduler plugin.  The invariant is what the      *)
(* reader has been given and that the next read is within the log.          *)

LogInv ==
  part = "logs" =>
    /\ log \in Seq(Logs!Lines) /\ skip \in 0..Len(log) /\ limit \in LogLimits
    /\ Logs!LogInOrder /\ Logs!IdsComplete

\* The numbers up to one, and those of the lines with text.
Numbers(n) == [i \in 1..n |-> i]
Full(lines) == {i \in DOMAIN lines : lines[i].text}

\* The operators of other modules are the same through an instance.
LEMMA CardinalityThere == \A s : Logs!Cardinality(s) = Cardinality(s)
  BY DEF Logs!Cardinality, Cardinality

LEMMA PickedThere == \A s, W : Logs!Picked(s, W) = Picked(s, W)
  BY DEF Logs!Picked, Picked

\* A read asks for a number of lines, whatever limit it is given.
LEMMA CapRight ==
  ASSUME NEW given \in LogLimits
  PROVE  Logs!Cap(given) \in Nat
<1>1. given = NoLimit \/ given \in Int
  BY LogsAssumption
<1>2. PageSize \in Nat /\ LargestPage \in Nat
  BY PagesAssumption
<1>3. QED
  BY <1>1, <1>2 DEF Logs!Cap, Logs!Smaller

\* The log grows behind what has been read.
LEMMA LineWritten ==
  ASSUME log \in Seq(Logs!Lines), skip \in 0..Len(log), limit \in LogLimits,
         Logs!LogInOrder, Logs!IdsComplete,
         NEW line \in Logs!Lines, Logs!Written(line)
  PROVE  /\ log' \in Seq(Logs!Lines) /\ skip' \in 0..Len(log') /\ limit' \in LogLimits
         /\ Logs!LogInOrder' /\ Logs!IdsComplete'
<1>1. /\ log' = Append(log, line) /\ skip' = skip /\ limit' = limit /\ got' = got
      /\ told' = told /\ extracted' = extracted
  BY DEF Logs!Written
<1>2. /\ log' \in Seq(Logs!Lines) /\ Len(log') = Len(log) + 1 /\ Len(log) \in Nat
      /\ \A i \in 1..Len(log) : log'[i] = log[i]
  BY <1>1, AppendItems
<1>3. \A i \in 1..skip : i \in Full(log) <=> i \in Full(log')
  <2>1. \A i \in 1..skip : i \in 1..Len(log) /\ i \in 1..Len(log')
    BY <1>2
  <2>2. DOMAIN log = 1..Len(log) /\ DOMAIN log' = 1..Len(log')
    BY <1>2
  <2>3. QED
    BY <1>2, <2>1, <2>2 DEF Full
<1>4. Numbers(skip) \in Seq(1..skip)
  <2>1. skip \in Nat
    BY <1>2
  <2>2. QED
    BY <2>1 DEF Numbers
<1>5. Picked(Numbers(skip), Full(log)) = Picked(Numbers(skip), Full(log'))
  BY <1>3, <1>4, PickedSame
<1>6. told => got = Picked(Numbers(skip), Full(log))
  BY PickedThere DEF Logs!LogInOrder, Numbers, Full
<1>7. Logs!LogInOrder'
  <2>1. told' => got' = Picked(Numbers(skip'), Full(log'))
    BY <1>1, <1>5, <1>6
  <2>2. QED
    BY <2>1, PickedThere DEF Logs!LogInOrder, Numbers, Full
<1>8. Logs!IdsComplete'
  BY <1>1 DEF Logs!IdsComplete
<1>9. skip' \in 0..Len(log')
  BY <1>1, <1>2
<1>10. QED
  BY <1>1, <1>2, <1>7, <1>8, <1>9

\* The lines up to one and those after it, up to another.
LEMMA ReadOn ==
  ASSUME NEW a \in Nat, NEW m \in Nat, NEW W
  PROVE  Picked(Numbers(a + m), W)
           = Picked(Numbers(a), W) \o Picked([i \in 1..m |-> a + i], W)
<1> DEFINE u == Numbers(a)
           v == [i \in 1..m |-> a + i]
           w == Numbers(a + m)
<1>1. u \in Seq(Nat) /\ Len(u) = a /\ \A i \in 1..a : u[i] = i
  BY DEF Numbers
<1>2. v \in Seq(Nat) /\ Len(v) = m /\ \A i \in 1..m : v[i] = a + i
  OBVIOUS
<1>3. w \in Seq(Nat) /\ Len(w) = a + m /\ \A i \in 1..(a + m) : w[i] = i
  BY DEF Numbers
<1> HIDE DEF u, v, w
<1>4. u \o v \in Seq(Nat) /\ Len(u \o v) = Len(u) + Len(v)
  BY <1>1, <1>2, JoinedItems
<1>5. \A i \in 1..Len(u) : (u \o v)[i] = u[i]
  BY <1>1, <1>2, JoinedItems
<1>6. \A i \in 1..Len(v) : (u \o v)[Len(u) + i] = v[i]
  BY <1>1, <1>2, JoinedItems
<1> DEFINE uv == u \o v
<1>7. /\ uv \in Seq(Nat) /\ Len(uv) = a + m
      /\ \A i \in 1..a : uv[i] = i
      /\ \A i \in 1..m : uv[a + i] = a + i
  BY <1>1, <1>2, <1>4, <1>5, <1>6
<1> HIDE DEF uv
<1>8. \A i \in 1..(a + m) : uv[i] = i
  <2> SUFFICES ASSUME NEW i \in 1..(a + m), ~(i \in 1..a) PROVE uv[i] = i
    BY <1>7
  <2>1. i - a \in 1..m /\ a + (i - a) = i
    OBVIOUS
  <2>2. QED
    BY <1>7, <2>1
<1>9. w = uv
  BY <1>3, <1>7, <1>8, SameItems
<1>10. Picked(u \o v, W) = Picked(u, W) \o Picked(v, W)
  BY <1>1, <1>2, PickedParts
<1>11. QED
  BY <1>9, <1>10 DEF u, v, w, uv

\* Of some numbers up to one there is a greatest.
LEMMA GreatestBelow ==
  ASSUME NEW m \in Nat, NEW S \in SUBSET (1..m), S # {}
  PROVE  \E h \in S : \A i \in S : h >= i
<1> DEFINE below == {k \in 0..m : m - k \in S}
<1>1. PICK i \in S : TRUE
  OBVIOUS
<1>2. m - i \in below /\ below \subseteq Nat
  BY <1>1
<1>3. PICK k \in below : \A j \in below : k <= j
  BY <1>2, Least
<1>4. \A j \in S : m - j \in below
  OBVIOUS
<1>5. m - k \in S /\ \A j \in S : m - k >= j
  BY <1>3, <1>4
<1>6. QED
  BY <1>5

\* A read gives the lines with text among those it asks for that there are, and
\* the next one goes on behind them.
LEMMA ReadRight ==
  ASSUME log \in Seq(Logs!Lines), skip \in 0..Len(log), limit \in LogLimits,
         Logs!LogInOrder, Logs!IdsComplete,
         NEW numbered, Logs!ReadLog(numbered)
  PROVE  /\ log' \in Seq(Logs!Lines) /\ skip' \in 0..Len(log') /\ limit' \in LogLimits
         /\ Logs!LogInOrder' /\ Logs!IdsComplete'
<1> DEFINE c == Logs!Cap(limit)
           last == Logs!Smaller(skip + c, Len(log))
           m == Logs!Smaller(c, Len(log) - skip)
           entries == Logs!Entries(skip, c, numbered)
<1>1. /\ skip' = Logs!NextLine(entries, skip) /\ got' = got \o Logs!Messages(entries)
      /\ told' = (told /\ (last > skip => last \in numbered))
      /\ log' = log /\ limit' = limit /\ extracted' = extracted
  BY DEF Logs!ReadLog
<1>2. c \in Nat
  BY CapRight
<1> HIDE DEF c
<1>3. /\ last \in 0..Len(log) /\ m \in Nat /\ last = skip + m /\ skip \in Nat
      /\ Len(log) \in Nat
  BY <1>2 DEF Logs!Smaller
<1>4. /\ DOMAIN entries = 1..m
      /\ \A i \in 1..m : /\ entries[i].line = skip + i
                         /\ entries[i].text = log[skip + i].text
                         /\ entries[i].lineNum = IF skip + i \in numbered THEN skip + i ELSE 0
  BY DEF Logs!Entries
<1> HIDE DEF last, m, entries
<1>5. skip' \in 0..Len(log)
  <2> DEFINE some == {i \in DOMAIN entries : entries[i].lineNum # 0}
             top == Logs!Max(some)
  <2>1. CASE some = {}
    <3>1. skip' = skip
      BY <1>1, <2>1 DEF Logs!NextLine
    <3>2. QED
      BY <3>1
  <2>2. CASE some # {}
    <3>1. skip' = entries[top].lineNum
      BY <1>1, <2>2 DEF Logs!NextLine
    <3>2. \A i \in some : i \in 1..m /\ entries[i].lineNum = skip + i
      BY <1>4
    <3>3. top \in some
      <4>1. some \subseteq 1..m /\ some # {}
        BY <2>2, <3>2
      <4> HIDE DEF some
      <4>2. PICK h \in some : \A i \in some : h >= i
        BY <1>3, <4>1, GreatestBelow
      <4>3. QED
        BY <4>2 DEF Logs!Max
    <3> HIDE DEF some, top
    <3>4. QED
      BY <1>3, <3>1, <3>2, <3>3
  <2>3. QED
    BY <2>1, <2>2
<1>6. ASSUME told' PROVE Logs!NextLine(entries, skip) = last
  <2> DEFINE some == {i \in DOMAIN entries : entries[i].lineNum # 0}
  <2>1. CASE m = 0
    <3>1. some = {}
      BY <1>4, <2>1
    <3>2. QED
      BY <1>3, <2>1, <3>1 DEF Logs!NextLine
  <2>2. CASE m # 0
    <3>1. m \in 1..m /\ skip + m # 0 /\ skip + m \in numbered
      <4>1. last > skip => last \in numbered
        BY <1>1, <1>6, Zenon
      <4>2. QED
        BY <1>3, <2>2, <4>1
    <3>2. m \in some /\ entries[m].lineNum = last
      BY <1>3, <1>4, <3>1
    <3>3. \A i \in some : i \in 1..m
      BY <1>4
    <3> DEFINE top == Logs!Max(some)
    <3>4. Logs!NextLine(entries, skip) = entries[top].lineNum
      BY <3>2 DEF Logs!NextLine
    <3> HIDE DEF some
    <3>5. top \in some /\ \A i \in some : top >= i
      <4>1. m \in some /\ \A i \in some : m >= i
        BY <1>3, <3>2, <3>3
      <4>2. QED
        BY <4>1 DEF Logs!Max
    <3> HIDE DEF top
    <3>6. top = m
      BY <1>3, <3>2, <3>3, <3>5
    <3>7. QED
      BY <3>2, <3>4, <3>6
  <2>3. QED
    BY <2>1, <2>2
<1>7. Logs!Messages(entries) = Picked([i \in 1..m |-> skip + i], Full(log))
  <2> DEFINE full == {i \in DOMAIN entries : entries[i].text}
             items == [i \in DOMAIN entries |-> entries[i].line]
             V == {entries[i].line : i \in full}
             there == [i \in 1..m |-> skip + i]
             S == (skip + 1)..(skip + m)
  <2>1. Logs!Messages(entries) = Picked(items, V)
    BY PickedThere DEF Logs!Messages
  <2>2. items = there
    BY <1>4
  <2>3. there \in Seq(S)
    BY <1>3
  <2>4. \A x \in S : x \in V <=> x \in Full(log)
    <3> SUFFICES ASSUME NEW x \in S PROVE x \in V <=> x \in Full(log)
      OBVIOUS
    <3>1. x - skip \in 1..m /\ skip + (x - skip) = x
      BY <1>3
    <3>2. x \in DOMAIN log
      BY <1>3
    <3>3. x \in Full(log) <=> log[x].text
      BY <3>2 DEF Full
    <3>4. ASSUME log[x].text PROVE x \in V
      <4>1. x - skip \in full /\ entries[x - skip].line = x
        BY <1>4, <3>1, <3>4
      <4>2. QED
        BY <4>1
    <3>5. ASSUME x \in V PROVE log[x].text
      <4>1. PICK i \in full : entries[i].line = x
        BY <3>5
      <4>2. i \in 1..m /\ skip + i = x
        BY <1>4, <4>1
      <4>3. QED
        BY <1>4, <4>1, <4>2
    <3>6. QED
      BY <3>3, <3>4, <3>5
  <2> HIDE DEF items, V, S, there
  <2>5. Picked(there, V) = Picked(there, Full(log))
    BY <2>3, <2>4, PickedSame
  <2>6. QED
    BY <2>1, <2>2, <2>5 DEF there
<1>8. told => got = Picked(Numbers(skip), Full(log))
  BY PickedThere DEF Logs!LogInOrder, Numbers, Full
<1>9. told => got' = Picked(Numbers(skip + m), Full(log))
  <2>1. Picked(Numbers(skip + m), Full(log))
          = Picked(Numbers(skip), Full(log)) \o Picked([i \in 1..m |-> skip + i], Full(log))
    BY <1>3, ReadOn
  <2>2. QED
    BY <1>1, <1>7, <1>8, <2>1
<1>10. Logs!LogInOrder'
  <2>1. told' => got' = Picked(Numbers(skip'), Full(log'))
    BY <1>1, <1>3, <1>6, <1>9
  <2>2. QED
    BY <2>1, PickedThere DEF Logs!LogInOrder, Numbers, Full
<1>11. Logs!IdsComplete'
  BY <1>1 DEF Logs!IdsComplete
<1>12. QED
  BY <1>1, <1>5, <1>10, <1>11

\* Every id is kept, and none of them twice.
LEMMA DedupeRight ==
  ASSUME NEW S, NEW ids \in Seq(S)
  PROVE  /\ Logs!Dedupe(ids) \in Seq(S) /\ Distinct(Logs!Dedupe(ids))
         /\ {Logs!Dedupe(ids)[r] : r \in 1..Len(Logs!Dedupe(ids))} = {ids[i] : i \in 1..Len(ids)}
<1> DEFINE k == Len(ids)
           firsts == {i \in DOMAIN ids : \A j \in 1..(i - 1) : ids[j] # ids[i]}
           places == Picked(Numbers(k), firsts)
           d == Logs!Dedupe(ids)
<1>1. k \in Nat /\ DOMAIN ids = 1..k /\ \A i \in 1..k : ids[i] \in S
  OBVIOUS
<1>2. /\ Numbers(k) \in Seq(1..k) /\ Len(Numbers(k)) = k /\ \A i \in 1..k : Numbers(k)[i] = i
  BY <1>1 DEF Numbers
<1>3. d = [r \in DOMAIN places |-> ids[places[r]]]
  <2>1. [i \in DOMAIN ids |-> i] = Numbers(k)
    BY <1>1 DEF Numbers
  <2>2. QED
    BY <2>1, PickedThere DEF Logs!Dedupe
<1> HIDE DEF d, k
<1>4. places \in Seq((1..k) \intersect firsts)
  <2> HIDE DEF firsts
  <2>1. QED
    BY <1>2, PickedType
<1>5. Distinct(places)
  <2>1. Distinct(Numbers(k))
    BY <1>2 DEF Distinct
  <2> HIDE DEF firsts
  <2>2. QED
    BY <1>2, <2>1, PickedDistinct
<1>6. \A i \in 1..k : i \in firsts => \E r \in 1..Len(places) : places[r] = i
  <2> HIDE DEF firsts
  <2>1. \A i \in 1..Len(Numbers(k)) :
          Numbers(k)[i] \in firsts => \E r \in 1..Len(places) : places[r] = Numbers(k)[i]
    BY <1>2, PickedAll
  <2>2. QED
    BY <1>2, <2>1
<1> HIDE DEF places
<1>7. /\ Len(places) \in Nat /\ DOMAIN places = 1..Len(places)
      /\ \A r \in 1..Len(places) : places[r] \in 1..k /\ places[r] \in firsts
  <2> HIDE DEF firsts
  <2>1. QED
    BY <1>4
<1>8. /\ d \in Seq(S) /\ Len(d) = Len(places)
      /\ \A r \in 1..Len(places) : d[r] = ids[places[r]]
  <2>1. \A r \in 1..Len(places) : ids[places[r]] \in S
    BY <1>1, <1>7
  <2> DEFINE l == Len(places)
  <2>2. l \in Nat /\ d = [r \in 1..l |-> ids[places[r]]] /\ \A r \in 1..l : ids[places[r]] \in S
    BY <1>3, <1>7, <2>1
  <2> HIDE DEF l, firsts
  <2>3. d \in Seq(S) /\ Len(d) = l /\ \A r \in 1..l : d[r] = ids[places[r]]
    BY <2>2
  <2>4. QED
    BY <2>3 DEF l
<1>9. Distinct(d)
  <2> SUFFICES ASSUME NEW r \in 1..Len(places), NEW q \in 1..Len(places), d[r] = d[q]
               PROVE  r = q
    BY <1>8 DEF Distinct
  <2> DEFINE a == places[r]
             b == places[q]
  <2>1. a \in 1..k /\ b \in 1..k /\ a \in firsts /\ b \in firsts
    BY <1>7
  <2>2. ids[a] = ids[b]
    BY <1>8
  <2>3. ~(a < b) /\ ~(b < a)
    <3> HIDE DEF a, b
    <3>1. a < b => a \in 1..(b - 1)
      BY <1>1, <2>1
    <3>2. b < a => b \in 1..(a - 1)
      BY <1>1, <2>1
    <3>3. QED
      BY <2>1, <2>2, <3>1, <3>2
  <2>4. a = b
    <3> HIDE DEF a, b
    <3>1. QED
      BY <1>1, <2>1, <2>3
  <2>5. QED
    BY <1>5, <2>4 DEF Distinct
<1>10. ASSUME NEW i \in 1..k PROVE \E r \in 1..Len(places) : d[r] = ids[i]
  <2> DEFINE same == {j \in 1..k : ids[j] = ids[i]}
  <2>1. same \in SUBSET Nat /\ i \in same
    BY <1>1
  <2>2. PICK j \in same : \A n \in same : j <= n
    <3> HIDE DEF same
    <3>1. QED
      BY <2>1, Least
  <2>3. j \in firsts
    <3>1. ASSUME NEW n \in 1..(j - 1), ids[n] = ids[j] PROVE FALSE
      <4>1. n \in same
        BY <1>1, <2>2, <3>1
      <4>2. QED
        BY <1>1, <2>2, <3>1, <4>1
    <3>2. QED
      BY <1>1, <2>2, <3>1
  <2>4. PICK r \in 1..Len(places) : places[r] = j
    BY <1>6, <2>2, <2>3
  <2>5. QED
    BY <1>8, <2>2, <2>4
<1> HIDE DEF firsts
<1>11. {d[r] : r \in 1..Len(d)} = {ids[i] : i \in 1..k}
  <2>1. \A r \in 1..Len(d) : d[r] \in {ids[i] : i \in 1..k}
    BY <1>7, <1>8
  <2>2. \A i \in 1..k : ids[i] \in {d[r] : r \in 1..Len(d)}
    BY <1>8, <1>10
  <2>3. QED
    BY <2>1, <2>2
<1>12. QED
  BY <1>8, <1>9, <1>11 DEF d, k

\* The ids are those of lines.
LEMMA IdsThere == log \in Seq(Logs!Lines) => Logs!IdsIn(LogHalves) \in Seq(Logs!Ids)
<1> SUFFICES ASSUME log \in Seq(Logs!Lines) PROVE Logs!IdsIn(LogHalves) \in Seq(Logs!Ids)
  OBVIOUS
<1> DEFINE n == Logs!Smaller((LogHalves + 1) \div 2, Len(log))
           kept == SubSeq(log, 1, n)
           ids == [i \in DOMAIN kept |-> [app |-> kept[i].app, whole |-> 2 * i <= LogHalves]]
           A == {kept[i].app : i \in DOMAIN kept}
           T == [app : A, whole : BOOLEAN]
<1>1. n \in 0..Len(log)
  <2>1. (LogHalves + 1) \div 2 \in Nat /\ Len(log) \in Nat
    BY LogsAssumption
  <2>2. QED
    BY <2>1 DEF Logs!Smaller
<1> HIDE DEF n
<1>2. kept \in Seq(Logs!Lines)
  <2>1. 1 \in 1..(Len(log) + 1)
    OBVIOUS
  <2>2. QED
    BY <1>1, <2>1, PartItems
<1>3. Logs!IdsIn(LogHalves) = Picked(ids, Logs!Ids)
  BY PickedThere DEF Logs!IdsIn, n
<1> HIDE DEF kept
<1>4. \A i \in DOMAIN kept : [app |-> kept[i].app, whole |-> 2 * i <= LogHalves] \in T
  OBVIOUS
<1> HIDE DEF T
<1>5. ids \in Seq(T)
  <2>1. DOMAIN kept = 1..Len(kept) /\ Len(kept) \in Nat
    BY <1>2
  <2> DEFINE l == Len(kept)
             e(i) == [app |-> kept[i].app, whole |-> 2 * i <= LogHalves]
  <2>2. l \in Nat /\ ids = [i \in 1..l |-> e(i)] /\ \A i \in 1..l : e(i) \in T
    BY <1>4, <2>1
  <2> HIDE DEF l, e, ids
  <2>3. QED
    BY <2>2
<1> HIDE DEF ids
<1>6. Picked(ids, Logs!Ids) \in Seq(T \intersect Logs!Ids)
  BY <1>5, PickedType
<1>7. QED
  BY <1>3, <1>6

\* The links of an answer are those found, as far as there is room.
LEMMA LinksRight ==
  ASSUME log \in Seq(Logs!Lines), Logs!ExtractLinks
  PROVE  Logs!IdsComplete'
<1> DEFINE ids == Logs!IdsIn(LogHalves)
           d == Logs!Dedupe(ids)
           n == Logs!Smaller(ListedItems, Len(d))
           shown == SubSeq(d, 1, n)
           found == {ids[i] : i \in DOMAIN ids}
<1>1. extracted'.ids = shown /\ extracted'.found = found
  BY DEF Logs!ExtractLinks, Logs!Bounded, Logs!ToSet
<1>2. ids \in Seq(Logs!Ids)
  BY IdsThere
<1> HIDE DEF ids
<1>3. /\ d \in Seq(Logs!Ids) /\ Distinct(d)
      /\ {d[r] : r \in 1..Len(d)} = {ids[i] : i \in 1..Len(ids)}
  BY <1>2, DedupeRight
<1> HIDE DEF d
<1>4. found = {d[r] : r \in 1..Len(d)}
  <2>1. DOMAIN ids = 1..Len(ids)
    BY <1>2
  <2>2. QED
    BY <1>3, <2>1
<1> HIDE DEF found
<1>5. n \in 0..Len(d) /\ Len(d) \in Nat /\ ListedItems \in Nat
  <2>1. Len(d) \in Nat /\ ListedItems \in Nat
    BY <1>3, PagesAssumption
  <2>2. QED
    BY <2>1 DEF Logs!Smaller
<1>6. Len(d) <= ListedItems => n = Len(d)
  BY <1>5 DEF Logs!Smaller
<1> HIDE DEF n
<1>7. /\ shown \in Seq(Logs!Ids) /\ Len(shown) = n
      /\ \A i \in 1..n : shown[i] = d[i]
  <2>1. 1 \in 1..(Len(d) + 1)
    BY <1>5
  <2>2. /\ shown \in Seq(Logs!Ids) /\ Len(shown) = IF 1 > n THEN 0 ELSE n - 1 + 1
        /\ \A i \in 1..Len(shown) : shown[i] = d[1 + i - 1]
    BY <1>3, <1>5, <2>1, PartItems
  <2> HIDE DEF shown
  <2>3. QED
    BY <1>5, <2>2
<1> HIDE DEF shown
<1>8. Distinct(shown)
  <2>1. \A i \in 1..n : i \in 1..Len(d)
    BY <1>5
  <2>2. QED
    BY <1>3, <1>7, <2>1 DEF Distinct
<1>9. Logs!ToSet(shown) = {shown[i] : i \in 1..Len(shown)}
  <2>1. DOMAIN shown = 1..Len(shown)
    BY <1>7
  <2>2. QED
    BY <2>1 DEF Logs!ToSet
<1>10. Cardinality(Logs!ToSet(shown)) = Len(shown)
  BY <1>7, <1>8, <1>9, DistinctCount
<1>11. ASSUME Cardinality(found) <= ListedItems PROVE Logs!ToSet(shown) = found
  <2>1. Cardinality(found) = Len(d)
    BY <1>3, <1>4, DistinctCount
  <2>2. n = Len(d)
    BY <1>6, <1>11, <2>1
  <2>3. shown = d
    BY <1>3, <1>7, <2>2, SameItems
  <2>4. QED
    BY <1>4, <1>9, <2>3
<1>12. QED
  <2>1. Cardinality(extracted'.found) <= ListedItems => Logs!ToSet(extracted'.ids) = extracted'.found
    BY <1>1, <1>11
  <2>2. Cardinality(Logs!ToSet(extracted'.ids)) = Len(extracted'.ids)
    BY <1>1, <1>10
  <2>3. QED
    BY <2>1, <2>2, CardinalityThere DEF Logs!IdsComplete

\* Following the line numbers of the answers, a reader is given every line with
\* text of the log so far, once and in order, whatever limits are asked for and
\* however the log grows meanwhile, if every answer bears the number of its
\* last line; and the links found in a log are all there,
\* each once, if they are no more than are shown: for any page sizes, any log
\* and any cut of it (get_task_log, extract_log_links). It is the half of
\* LogWhole that says what has happened by now.
THEOREM LogsKept == ServerSpec => []LogKept
<1>1. ServerInit => LogInv
  <2> SUFFICES ASSUME ServerInit, part = "logs"
               PROVE  /\ log \in Seq(Logs!Lines) /\ skip \in 0..Len(log) /\ limit \in LogLimits
                      /\ Logs!LogInOrder /\ Logs!IdsComplete
    BY DEF LogInv
  <2>1. Logs!Init
    BY DEF ServerInit
  <2>2. log = <<>> /\ skip = 0 /\ limit \in LogLimits /\ got = <<>>
    BY <2>1 DEF Logs!Init
  <2>3. extracted.ids = <<>> /\ extracted.found = {}
    BY <2>1 DEF Logs!Init, Logs!Unasked
  <2>4. log \in Seq(Logs!Lines) /\ skip \in 0..Len(log)
    BY <2>2
  <2>5. Logs!LogInOrder
    <3>1. [i \in 1..skip |-> i] = <<>>
      BY <2>2
    <3>2. QED
      BY <2>2, <3>1, PickedEmpty, PickedThere DEF Logs!LogInOrder
  <2>6. Logs!IdsComplete
    <3>1. Logs!ToSet(extracted.ids) = {} /\ Len(extracted.ids) = 0
      BY <2>3 DEF Logs!ToSet
    <3>2. Cardinality({}) = 0
      BY FS_EmptySet
    <3>3. Cardinality(extracted.found) <= ListedItems => Logs!ToSet(extracted.ids) = extracted.found
      BY <2>3, <3>1
    <3>4. Cardinality(Logs!ToSet(extracted.ids)) = Len(extracted.ids)
      BY <3>1, <3>2
    <3>5. QED
      BY <3>3, <3>4, CardinalityThere DEF Logs!IdsComplete
  <2>7. QED
    BY <2>2, <2>4, <2>5, <2>6
<1>2. LogInv /\ [ServerNext]_allVars => LogInv'
  <2> SUFFICES ASSUME LogInv, [ServerNext]_allVars, part' = "logs"
               PROVE  /\ log' \in Seq(Logs!Lines) /\ skip' \in 0..Len(log')
                      /\ limit' \in LogLimits /\ Logs!LogInOrder' /\ Logs!IdsComplete'
    BY DEF LogInv
  <2>1. part = "logs" /\ (Logs!Next \/ UNCHANGED logVars)
    BY DEF ServerNext, InCalls, InPages, InLogs, InConfig, InServer, InQuery, allVars
  <2>2. /\ log \in Seq(Logs!Lines) /\ skip \in 0..Len(log) /\ limit \in LogLimits
        /\ Logs!LogInOrder /\ Logs!IdsComplete
    BY <2>1 DEF LogInv
  <2>3. CASE \E line \in Logs!Lines : Logs!Written(line)
    BY <2>2, <2>3, LineWritten
  <2>4. CASE Logs!Reads
    <3>1. PICK numbered \in SUBSET (1..LogLines) : Logs!ReadLog(numbered)
      BY <2>4 DEF Logs!Reads
    <3>2. QED
      BY <2>2, <3>1, ReadRight
  <2>5. CASE Logs!ExtractLinks
    <3>1. log' = log /\ skip' = skip /\ limit' = limit /\ got' = got /\ told' = told
      BY <2>5 DEF Logs!ExtractLinks
    <3>2. Logs!LogInOrder'
      BY <2>2, <3>1 DEF Logs!LogInOrder
    <3>3. Logs!IdsComplete'
      BY <2>2, <2>5, LinksRight
    <3>4. QED
      BY <2>2, <3>1, <3>2, <3>3
  <2>6. CASE UNCHANGED logVars
    <3>1. /\ log' = log /\ skip' = skip /\ limit' = limit /\ got' = got
          /\ told' = told /\ extracted' = extracted
      BY <2>6 DEF logVars
    <3>2. Logs!LogInOrder'
      BY <2>2, <3>1 DEF Logs!LogInOrder
    <3>3. Logs!IdsComplete'
      BY <2>2, <3>1 DEF Logs!IdsComplete
    <3>4. QED
      BY <2>2, <3>1, <3>2, <3>3
  <2>7. QED
    BY <2>1, <2>3, <2>4, <2>5, <2>6 DEF Logs!Next
<1>3. LogInv => LogKept
  BY DEF LogInv, LogKept
<1>4. QED
  BY <1>1, <1>2, <1>3, PTL DEF ServerSpec
=============================================================================
