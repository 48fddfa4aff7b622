------------------------- MODULE ZeppelinParagraphs -------------------------
(***************************************************************************)
(* The plain calls of ZeppelinHttpClient as the service makes them: they   *)
(* share one session of the server's, which each of them opens if it finds *)
(* none, and the paragraph they are about, which Zeppelin runs meanwhile.  *)
(* A request that was given up may still reach the server.                 *)
(*                                                                         *)
(* "create" stands for create_notebook and add_paragraph, which add        *)
(* something and return its id; "restart" is the setting-wide restart.     *)
(* What a result carries is modelled in ZeppelinResults.                   *)
(***************************************************************************)
EXTENDS Integers, FiniteSets, TLC

CONSTANTS
  Calls,         \* the tool calls of one process
  Ops,           \* the tools that are called
  Credentials,   \* TRUE: username and password are configured
  MaxDrops,      \* bound: times the server forgets its sessions
  MaxRuns        \* bound: runs of the paragraph somebody else starts

Changing == {"create", "run", "cancel", "restart"}
Reading == {"list", "status", "result"}

ASSUME CallsAssumption == IsFiniteSet(Calls)
ASSUME OpsAssumption == Ops \subseteq Changing \cup Reading
ASSUME BoundsAssumption == Credentials \in BOOLEAN /\ {MaxDrops, MaxRuns} \subseteq Nat

VARIABLES
  call,            \* what each call does and has been answered
  authenticated,   \* _authenticated
  jar,             \* the session cookie of the client, 0: none
  sessions,        \* the sessions the server honours
  logins,          \* logins for which the server has opened a session
  accepted,        \* a login was answered with a code below 400 (history)
  paragraph,       \* the state Zeppelin gives the paragraph
  drops, runs      \* what happened of MaxDrops and MaxRuns

vars == <<call, authenticated, jar, sessions, logins, accepted, paragraph, drops, runs>>

\* Zeppelin's names, and one the adapter does not know.
States == {"READY", "PENDING", "RUNNING", "FINISHED", "ERROR", "ABORT", "PAUSED"}

NoReply == [code |-> "none", body |-> "none", cookie |-> 0]
NewCall == [op |-> "none", pc |-> "idle", cookie |-> 0, wire |-> "none", reply |-> NoReply,
            effects |-> 0, seen |-> {}, category |-> "NONE", value |-> "none"]

Init ==
  /\ call = [c \in Calls |-> NewCall]
  /\ authenticated = FALSE /\ jar = 0
  /\ sessions = {} /\ logins = 0 /\ accepted = FALSE
  /\ paragraph \in {"READY", "FINISHED"}
  /\ drops = 0 /\ runs = 0

-----------------------------------------------------------------------------
(* The service and the adapter. *)

\* normalize_paragraph_status
Normalized(state) ==
  CASE state \in {"READY", "PENDING"} -> "PENDING"
    [] state = "ABORT" -> "CANCELLED"
    [] state = "PAUSED" -> "UNKNOWN"
    [] OTHER -> state

\* What a reply that is "ok" makes the service answer.
Value(op, state) ==
  CASE op = "run" -> "PENDING"
    [] op \in {"status", "result"} -> Normalized(state)
    [] OTHER -> "done"

\* _check_http_status and the envelope; a result is refused until it is final.
\* "401" stands for 401 and 403, "400+" for the other codes from 400 on, and
\* "<400" for every other, those of redirects included.
Category(op, reply) ==
  IF reply.code = "401" THEN "AUTHENTICATION_FAILED"
  ELSE IF reply.code = "400+" \/ reply.body = "not OK" THEN "UPSTREAM_ERROR"
  ELSE IF reply.body = "malformed" THEN "UNEXPECTED_RESPONSE"
  ELSE IF op = "result" /\ Normalized(reply.body) \notin {"FINISHED", "ERROR"} THEN "INVALID_INPUT"
  ELSE "OK"

Answered(c, category, value) ==
  [call[c] EXCEPT !.pc = "done", !.category = category, !.value = value, !.reply = NoReply,
                  !.cookie = 0]

\* The request of the call's own leaves, with the cookies of that moment.
Requested(c, op, cookie) ==
  [call[c] EXCEPT !.op = op, !.pc = "request", !.wire = "sent", !.cookie = cookie,
                  !.reply = NoReply]

LoggingIn(c, op) == [call[c] EXCEPT !.op = op, !.pc = "login", !.wire = "sent"]

\* Input that is not valid, a setting that is not listed: nothing is sent.
Refused(c, op) ==
  /\ call[c].pc = "idle"
  /\ call' = [call EXCEPT ![c] = [Answered(c, "INVALID_INPUT", "none") EXCEPT !.op = op]]
  /\ UNCHANGED <<authenticated, jar, sessions, logins, accepted, paragraph, drops, runs>>

\* _ensure_authenticated: nothing awaits between the test of the flag and the
\* request, so calls that begin before the first login has ended all log in.
Begin(c, op) ==
  /\ call[c].pc = "idle"
  /\ call' = [call EXCEPT ![c] = IF authenticated \/ ~Credentials THEN Requested(c, op, jar)
                                 ELSE LoggingIn(c, op)]
  /\ UNCHANGED <<authenticated, jar, sessions, logins, accepted, paragraph, drops, runs>>

\* What the jar may hold after an answer: the cookie of the session it opens,
\* or, if it opens none, the one before or one that belongs to no session.
Kept(cookie) == IF cookie > 0 THEN {cookie} ELSE {jar, 0}

\* Variant: the flag is set whatever the login was answered.
LoggedInAnyway(c) ==
  /\ call[c].pc = "login" /\ call[c].wire = "arrived"
  /\ jar' \in Kept(call[c].reply.cookie)
  /\ call' = [call EXCEPT ![c] = Requested(c, call[c].op, jar')]
  /\ authenticated' = TRUE
  /\ UNCHANGED <<sessions, logins, accepted, paragraph, drops, runs>>

\* The login is answered: a code below 400 is enough for the flag, whether it
\* brings a session or not, and the call's request follows.
LoggedIn(c) ==
  /\ call[c].pc = "login" /\ call[c].wire = "arrived"
  /\ jar' \in Kept(call[c].reply.cookie)
  /\ IF call[c].reply.code = "<400"
     THEN /\ call' = [call EXCEPT ![c] = Requested(c, call[c].op, jar')]
          /\ authenticated' = TRUE
     ELSE /\ call' = [call EXCEPT ![c] =
               Answered(c, Category(call[c].op, call[c].reply), "none")]
          /\ UNCHANGED authenticated
  /\ UNCHANGED <<sessions, logins, accepted, paragraph, drops, runs>>

\* Variant: an expired session is opened again and the request repeated.
RepliedOrRepeated(c) ==
  /\ call[c].pc = "request" /\ call[c].wire = "arrived"
  /\ LET reply == call[c].reply
         category == Category(call[c].op, reply)
     IN  call' = [call EXCEPT ![c] =
           IF category \in {"AUTHENTICATION_FAILED", "UNEXPECTED_RESPONSE"} /\ Credentials
           THEN LoggingIn(c, call[c].op)
           ELSE Answered(c, category, Value(call[c].op, reply.body))]
  /\ UNCHANGED <<authenticated, jar, sessions, logins, accepted, paragraph, drops, runs>>

\* The reply is read and the call ends with what it says.
Replied(c) ==
  /\ call[c].pc = "request" /\ call[c].wire = "arrived"
  /\ LET reply == call[c].reply
         category == Category(call[c].op, reply)
     IN  /\ call' = [call EXCEPT ![c] =
              Answered(c, category, IF category = "OK" THEN Value(call[c].op, reply.body)
                                    ELSE "none")]
         /\ jar' \in IF category = "OK" THEN {jar} ELSE Kept(0)
  /\ UNCHANGED <<authenticated, sessions, logins, accepted, paragraph, drops, runs>>

\* No reply: a timeout (the reply may have been on its way), a connection
\* that breaks, one that cannot be made (nothing was sent), another HTTPError.
\* "NO_REPLY" stands for TIMEOUT, CONNECTION_FAILED and UPSTREAM_ERROR.
Fails(c, unsent) ==
  /\ call[c].pc \in {"login", "request"}
  /\ unsent => call[c].wire = "sent"
  /\ call' = [call EXCEPT ![c] =
       IF unsent \/ call[c].pc = "login"
       THEN [Answered(c, "NO_REPLY", "none") EXCEPT !.wire = "none"]
       ELSE [Answered(c, "NO_REPLY", "none") EXCEPT !.cookie = call[c].cookie]]
  /\ UNCHANGED <<authenticated, jar, sessions, logins, accepted, paragraph, drops, runs>>

-----------------------------------------------------------------------------
(* Zeppelin. *)

Deliver(c, reply) == [call[c] EXCEPT !.wire = "arrived", !.reply = reply]
Reply(code, body, cookie) == [code |-> code, body |-> body, cookie |-> cookie]

\* A login is refused, opens a session, or is answered without one (a
\* redirect to another way to log in, a page instead of an answer).
LoginArrives(c, code, opens) ==
  /\ call[c].pc = "login" /\ call[c].wire = "sent"
  /\ opens => code = "<400"
  /\ IF opens
     THEN /\ logins' = logins + 1
          /\ sessions' = sessions \cup {logins + 1}
     ELSE UNCHANGED <<logins, sessions>>
  /\ accepted' = (accepted \/ code = "<400")
  /\ call' = [call EXCEPT ![c] = Deliver(c, Reply(code, "ok", IF opens THEN logins' ELSE 0))]
  /\ UNCHANGED <<authenticated, jar, paragraph, drops, runs>>

\* What carrying out an operation makes of the paragraph.
After(op) ==
  CASE op = "run" -> {"PENDING", "RUNNING", "FINISHED", "ERROR"}
    [] op = "cancel" -> IF paragraph \in {"PENDING", "RUNNING"} THEN {"ABORT", paragraph}
                        ELSE {paragraph}
    [] op = "restart" -> IF paragraph \in {"PENDING", "RUNNING"} THEN {"ABORT", "ERROR"}
                         ELSE {paragraph}
    [] OTHER -> {paragraph}

\* The request is carried out.  The reply may be unreadable for the adapter.
Served(c, body) ==
  /\ call[c].op # "none" /\ call[c].wire = "sent" /\ call[c].pc # "login"
  /\ Credentials => call[c].cookie \in sessions
  /\ paragraph' \in After(call[c].op)
  /\ call' = [d \in Calls |->
       IF d = c
       THEN [Deliver(c, IF call[c].pc = "request"
                        THEN Reply("<400", IF body = "ok" THEN paragraph ELSE body, 0)
                        ELSE NoReply)
               EXCEPT !.effects = @ + (IF call[c].op \in Changing THEN 1 ELSE 0),
                      !.seen = @ \cup {paragraph}]
       ELSE call[d]]
  /\ UNCHANGED <<authenticated, jar, sessions, logins, accepted, drops, runs>>

\* It is not: refused, redirected to the login, or answered with an error.
Denied(c, code) ==
  /\ call[c].op # "none" /\ call[c].wire = "sent" /\ call[c].pc # "login"
  /\ (Credentials /\ call[c].cookie \notin sessions) => code \in {"401", "<400"}
  /\ call' = [call EXCEPT ![c] =
       Deliver(c, IF call[c].pc = "request"
                  THEN Reply(code, IF code = "<400" THEN "malformed" ELSE "none", 0)
                  ELSE NoReply)]
  /\ UNCHANGED <<authenticated, jar, sessions, logins, accepted, paragraph, drops, runs>>

\* The paragraph runs, ends, or is started by somebody else.
Progress(state) ==
  /\ \/ paragraph = "PENDING" /\ state \in {"RUNNING", "ABORT"} /\ UNCHANGED runs
     \/ paragraph = "RUNNING" /\ state \in {"FINISHED", "ERROR", "ABORT", "PAUSED"}
        /\ UNCHANGED runs
     \/ paragraph \notin {"PENDING", "RUNNING"} /\ state = "PENDING"
        /\ runs < MaxRuns /\ runs' = runs + 1
  /\ paragraph' = state
  /\ UNCHANGED <<call, authenticated, jar, sessions, logins, accepted, drops>>

SessionsDrop ==
  /\ drops < MaxDrops /\ sessions # {}
  /\ drops' = drops + 1
  /\ sessions' = {}
  /\ UNCHANGED <<call, authenticated, jar, logins, accepted, paragraph, runs>>

Next ==
  \/ \E c \in Calls :
       \/ \E op \in Ops : Begin(c, op) \/ Refused(c, op)
       \/ LoggedIn(c) \/ Replied(c)
       \/ \E unsent \in BOOLEAN : Fails(c, unsent)
       \/ \E code \in {"<400", "401", "400+"}, opens \in BOOLEAN : LoginArrives(c, code, opens)
       \/ \E body \in {"ok", "not OK", "malformed"} : Served(c, body)
       \/ \E code \in {"<400", "401", "400+"} : Denied(c, code)
  \/ \E state \in States : Progress(state)
  \/ SessionsDrop

Spec == Init /\ [][Next]_vars

-----------------------------------------------------------------------------
Symmetry == Permutations(Calls)

Categories == {"NONE", "OK", "INVALID_INPUT", "AUTHENTICATION_FAILED", "UPSTREAM_ERROR",
               "UNEXPECTED_RESPONSE", "NO_REPLY"}

TypeOK ==
  /\ \A c \in Calls :
       /\ call[c].op \in Ops \cup {"none"}
       /\ call[c].pc \in {"idle", "login", "request", "done"}
       /\ call[c].wire \in {"none", "sent", "arrived"}
       /\ call[c].cookie \in 0..logins /\ call[c].seen \subseteq States
       /\ call[c].category \in Categories
       /\ call[c].pc = "done" <=> call[c].category # "NONE"
  /\ {authenticated, accepted} \subseteq BOOLEAN /\ jar \in 0..logins
  /\ sessions \subseteq 1..logins /\ logins \in 0..Cardinality(Calls)
  /\ paragraph \in States /\ drops \in 0..MaxDrops /\ runs \in 0..MaxRuns

(* A call changes Zeppelin once at most, also when it is answered late or not
   at all, and has changed it when it is answered OK: nothing is sent again
   after a login, an expired session or a lost reply. *)
OneEffectPerCall ==
  \A c \in Calls :
    /\ call[c].effects <= 1
    /\ call[c].category = "OK" /\ call[c].op \in Changing => call[c].effects = 1

(* A call that was told that its input or its session is bad has changed
   nothing and never will: the caller may correct it and call again. *)
RefusalsAreClean ==
  \A c \in Calls :
    call[c].category \in {"INVALID_INPUT", "AUTHENTICATION_FAILED"}
      => call[c].effects = 0 /\ call[c].wire # "sent"

(* What is answered was so: Zeppelin carried out every call that is answered
   OK, a status and the state of a result is one the paragraph had then, and a
   result is only given for a paragraph that had finished or failed: never for
   one that runs, waits or was aborted. *)
AnswersWereTrue ==
  \A c \in Calls :
    call[c].category = "OK" =>
      /\ call[c].seen # {}
      /\ call[c].op = "result" => call[c].seen \subseteq {"FINISHED", "ERROR"}
      /\ call[c].op = "status" /\ call[c].value \in {"RUNNING", "FINISHED", "ERROR"}
           => call[c].value \in call[c].seen

(* With credentials configured no request leaves, and no call takes the
   session for open, before Zeppelin has answered a login with a code below
   400: a login that was refused does not let the calls after it go without
   (_ensure_authenticated). *)
LoginComesFirst ==
  Credentials => /\ authenticated => accepted
                 /\ \A c \in Calls : call[c].pc = "request" => accepted

(* Stronger, and broken by a login that is answered below 400 without opening a
   session: _check_http_status accepts it, and the calls go without one. *)
CarriesSession ==
  Credentials => \A c \in Calls : call[c].pc = "request" => call[c].cookie # 0

(* What a call is told about itself is so: a refused one has done nothing and
   may be repeated, an answered one was carried out and gives a state the
   paragraph had, and no request goes out before a login was accepted
   (_ensure_authenticated, _request). *)
SessionHonest == TypeOK /\ RefusalsAreClean /\ AnswersWereTrue /\ LoginComesFirst
=============================================================================
