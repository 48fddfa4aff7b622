-------------------------- MODULE ExecutorLogRoute --------------------------
(***************************************************************************)
(* From the registrations of an executor in an event log to the text of    *)
(* its log: _resolve, _LogRoute, _receive and parse_log_html.              *)
(*                                                                         *)
(* A URL is where it leads: the NodeManager itself ("direct"), the         *)
(* gateway's route to a NodeManager ("nm") or to the job history server    *)
(* ("jhs"), a login page, or elsewhere; the backend the gateway is asked   *)
(* for; the node a jhs path names; and the log: "c1" and "c2" are two of   *)
(* the attempt's, "alien" stands for every identity that does not fit the  *)
(* request (application, attempt, owner, stream).  A log is the sequence   *)
(* of its lines, a line its size in bytes.                                 *)
(***************************************************************************)
EXTENDS Integers, Sequences, SequencesExt, FiniteSets, FiniteSetsExt

CONSTANTS
  Hosts, Ports,     \* hosts and ports that the path of a jhs URL names
  Backends,         \* pairs of a host and a port that URLs lead to
  Allowed,          \* backends in executor_log_allowed_upstreams
  TailBytes,        \* tail_bytes
  OutputLimit,      \* _OUTPUT_LIMIT
  ResponseLimit,    \* _RESPONSE_LIMIT
  Logs,             \* logs a server may hold
  Lengths           \* lengths a page may state

\* _allowed lets a port of 0 through for no backend.
ASSUME RouteAssumption == ResponseLimit \in Nat /\ \A b \in Allowed : b[2] # 0

\* A line has a byte at least.
ASSUME TextAssumption ==
  OutputLimit \in Nat /\ Logs \subseteq Seq(Nat \ {0}) /\ Lengths \subseteq Nat

VARIABLES
  registered,    \* the Log Urls of the executor's registrations, in order
  pc,            \* "resolve", "get" while a GET is out, "done"
  route,         \* the _LogRoute
  url,           \* the URL that is asked for
  requested,     \* the URLs that were asked for
  received,      \* bytes received, of all the responses
  source,        \* the log that was served, for the properties
  stated,        \* the length its page stated, for the properties
  answer         \* what _receive returns or raises

vars == <<registered, pc, route, url, requested, received, source, stated, answer>>

Logged == {"c1", "c2", "alien"}

\* entity: whether the path of a jhs URL names the container twice the same.
Elsewhere == [kind : {"login", "foreign"}, backend : {<<"none", 0>>}, node : {"none"},
              port : {0}, log : {"alien"}, entity : {FALSE}]
OnNode == [kind : {"direct", "nm"}, backend : Backends, node : {"none"}, port : {0},
           log : Logged, entity : {TRUE}]
InHistory == [kind : {"jhs"}, backend : Backends, node : Hosts, port : Ports, log : Logged,
              entity : BOOLEAN]
Urls == Elsewhere \cup OnNode \cup InHistory
NoUrl == [kind |-> "none"]
NoRoute == [log |-> "none", node |-> <<"none", 0>>, history |-> <<"none", 0>>]

Outcome(category, retryable, coverage, lines) ==
  [category |-> category, retryable |-> retryable, coverage |-> coverage, lines |-> lines]
Fail(category) == Outcome(category, FALSE, "none", <<>>)
NoAnswer == Fail("none")

\* A node's URL of a log of the attempt.
NodeUrl(b, log) ==
  [kind |-> "direct", backend |-> b, node |-> "none", port |-> 0, log |-> log, entity |-> TRUE]

\* NoUrl: the registration has no URL of that stream.
Init ==
  /\ registered \in {<<>>} \cup {<<u>> : u \in Urls \cup {NoUrl}}
       \cup UNION {{NodeUrl(b, "c2"), NoUrl} \X {NodeUrl(b, "c1"), NoUrl} : b \in Backends}
  /\ pc = "resolve" /\ route = NoRoute /\ url = NoUrl
  /\ requested = <<>> /\ received = 0 /\ source = <<>> /\ stated = -1 /\ answer = NoAnswer

-----------------------------------------------------------------------------
(* _LogRoute.  A route pins the log and the node it was given, and the first
   history backend it meets. *)

\* Variant: a later history server may be another one that is allowed.
AcceptsAnyHistory(r, u) ==
  /\ u.backend \in Allowed
  /\ u.log = r.log /\ u.log # "alien"
  /\ \/ u.kind = "nm" /\ u.backend = r.node
     \/ u.kind = "jhs" /\ u.entity /\ u.node = r.node[1]

\* _gateway: what a URL must be for the route to ask for it.
Accepts(r, u) ==
  /\ u.backend \in Allowed
  /\ u.log = r.log /\ u.log # "alien"
  /\ \/ u.kind = "nm" /\ u.backend = r.node
     \/ /\ u.kind = "jhs" /\ u.entity /\ u.node = r.node[1]
        /\ r.history \in {NoRoute.history, u.backend}

Pinned(r, u) == IF u.kind = "jhs" THEN [r EXCEPT !.history = u.backend] ELSE r

\* _initialize: a node's own URL becomes the gateway's; of a history URL only
\* the node's host is known, so its route has no port to meet a node with.
RouteOf(u) ==
  [log |-> u.log, history |-> NoRoute.history,
   node |-> IF u.kind = "jhs" THEN <<u.node, 0>> ELSE u.backend]
FirstUrl(u) == IF u.kind = "direct" THEN [u EXCEPT !.kind = "nm"] ELSE u
Routable(u) == u.kind \in {"direct", "nm", "jhs"} /\ Accepts(RouteOf(u), FirstUrl(u))

-----------------------------------------------------------------------------
(* The text.  The server gives the last bytes of the log: a piece of a line,
   and the lines after it. *)

\* The bytes of the lines from one on.
BytesFrom(sizes, i) == SumFunctionOnSet(sizes, i..Len(sizes))

Piece(line, bytes, whole) == [line |-> line, bytes |-> bytes, whole |-> whole]

\* Pieces of the log that the last n bytes of it hold.
LastBytes(log, n) ==
  LET Kept(i) == IF n >= BytesFrom(log, i) THEN log[i] ELSE n - BytesFrom(log, i + 1)
      from == {i \in DOMAIN log : n > BytesFrom(log, i + 1)}
  IN  [k \in 1..Cardinality(from) |->
         LET i == Len(log) - Cardinality(from) + k IN Piece(i, Kept(i), Kept(i) = log[i])]

Sizes(pieces) == [k \in DOMAIN pieces |-> pieces[k].bytes]
Size(pieces) == BytesFrom(Sizes(pieces), 1)

\* parse_log_html: -1 is a page without the log's length.
Coverage(size, total) ==
  IF total = -1 THEN "unknown" ELSE IF size = total THEN "complete" ELSE "tail"

StartDiscarded(pieces, coverage) ==
  IF coverage = "tail" /\ pieces # <<>> THEN SubSeq(pieces, 2, Len(pieces)) ELSE pieces

\* _bounded_content: redaction may make lines longer by growth bytes.
Grown(pieces, growth) == [k \in DOMAIN pieces |-> [pieces[k] EXCEPT !.bytes = @ + growth]]

TailLines(pieces) ==
  LET n == Max({k \in 0..Len(pieces) :
                  BytesFrom(Sizes(pieces), Len(pieces) - k + 1) <= OutputLimit})
  IN  SubSeq(pieces, Len(pieces) - n + 1, Len(pieces))

Content(pieces, total, growth) ==
  LET coverage == Coverage(Size(pieces), total)
      text == Grown(StartDiscarded(pieces, coverage), growth)
  IN  Outcome("OK", FALSE, IF Size(text) > OutputLimit THEN "tail" ELSE coverage, TailLines(text))

\* Pages that are no log, and an upstream that says no.
PageCategory(page) ==
  CASE page = "login form" -> Fail("AUTHENTICATION_FAILED")
    [] page = "denied" -> Fail("PERMISSION_DENIED")
    [] page = "no logs" -> Fail("NOT_FOUND")
    [] page = "not complete" -> [Fail("NOT_FOUND") EXCEPT !.retryable = TRUE]
    [] OTHER -> Fail("UNEXPECTED_RESPONSE")

StatusCategory(status) ==
  CASE status = "401" -> Fail("AUTHENTICATION_FAILED")
    [] status = "403" -> Fail("PERMISSION_DENIED")
    [] status = "404" -> Fail("NOT_FOUND")
    [] status \in {"429", "500"} -> [Fail("UPSTREAM_ERROR") EXCEPT !.retryable = TRUE]
    [] status = "400" -> Fail("UPSTREAM_ERROR")
    [] OTHER -> Fail("UNEXPECTED_RESPONSE")

-----------------------------------------------------------------------------
Ends(outcome) ==
  /\ pc' = "done" /\ answer' = outcome
  /\ UNCHANGED <<registered, route, url, requested>>

\* The loop of _receive: a URL is asked for once.
Asks(r, u) ==
  IF u \in ToSet(requested)
  THEN pc' = "done" /\ answer' = Fail("UNEXPECTED_RESPONSE") /\ UNCHANGED <<route, url, requested>>
  ELSE /\ pc' = "get" /\ route' = r /\ url' = u
       /\ requested' = Append(requested, u)
       /\ UNCHANGED answer

\* _resolve: the last registration counts, whatever the ones before it had.
Resolve ==
  /\ pc = "resolve"
  /\ IF registered = <<>> \/ Last(registered) = NoUrl
     THEN Ends(Fail("NOT_FOUND"))
     ELSE LET u == Last(registered)
          IN  IF Routable(u)
              THEN Asks(Pinned(RouteOf(u), FirstUrl(u)), FirstUrl(u)) /\ UNCHANGED registered
              ELSE Ends(Fail("UNEXPECTED_RESPONSE"))
  /\ UNCHANGED <<received, source, stated>>

TooLarge(size) == received + size > ResponseLimit

Redirected(target, size) ==
  /\ received' = received + size
  /\ IF TooLarge(size) THEN Ends(Fail("UPSTREAM_ERROR"))
     ELSE IF Len(requested) = 4 THEN Ends(Fail("UNEXPECTED_RESPONSE"))
     ELSE IF target.kind = "login" THEN Ends(Fail("AUTHENTICATION_FAILED"))
     ELSE IF ~Accepts(route, target) THEN Ends(Fail("UNEXPECTED_RESPONSE"))
     ELSE Asks(Pinned(route, target), target) /\ UNCHANGED registered
  /\ UNCHANGED <<source, stated>>

Refused(status, size) ==
  /\ pc = "get" /\ received' = received + size
  /\ Ends(IF TooLarge(size) THEN Fail("UPSTREAM_ERROR") ELSE StatusCategory(status))
  /\ UNCHANGED <<source, stated>>

NotALog(page, size) ==
  /\ pc = "get" /\ received' = received + size
  /\ Ends(IF TooLarge(size) THEN Fail("UPSTREAM_ERROR") ELSE PageCategory(page))
  /\ UNCHANGED <<source, stated>>

\* A log page.  It may state a length (-1: none), which need not be that of the
\* log it gives a part of: the log may have grown since the length was read, or
\* been cut.  The server may give less or more than was asked for.
LogPage(log, given, total, growth) ==
  LET pieces == LastBytes(log, given)
  IN  /\ pc = "get" /\ received' = received + 1
      /\ source' = log /\ stated' = total
      /\ Ends(IF TooLarge(1) THEN Fail("UPSTREAM_ERROR")
              ELSE IF Size(pieces) > TailBytes \/ (total # -1 /\ Size(pieces) > total)
                   THEN Fail("UNEXPECTED_RESPONSE")
              ELSE Content(pieces, total, growth))

ConnectionFails(category) ==
  /\ pc = "get"
  /\ Ends([Fail(category) EXCEPT !.retryable = TRUE])
  /\ UNCHANGED <<received, source, stated>>

Over == pc = "done" /\ UNCHANGED vars

Next ==
  \/ Resolve
  \/ pc = "get" /\ \E target \in Urls, size \in {0, 2} : Redirected(target, size)
  \/ \E size \in {0, 2} :
       \/ \E status \in {"304", "400", "401", "403", "404", "429", "500"} : Refused(status, size)
       \/ \E page \in {"login form", "denied", "no logs", "not complete", "odd"} : NotALog(page, size)
  \/ \E log \in Logs, given \in 0..(TailBytes + 1), total \in {-1} \cup Lengths, growth \in 0..1 :
       LogPage(log, given, total, growth)
  \/ \E category \in {"TIMEOUT", "CONNECTION_FAILED"} : ConnectionFails(category)
  \/ Over

Spec == Init /\ [][Next]_vars

-----------------------------------------------------------------------------
TypeOK ==
  /\ pc \in {"resolve", "get", "done"}
  /\ route.log \in Logged \cup {"none"}
  /\ IF requested = <<>> THEN url = NoUrl ELSE url = Last(requested) /\ url.backend \in Backends
  /\ received \in 0..(ResponseLimit + 2)
  /\ pc = "done" <=> answer # NoAnswer
  /\ answer.coverage \in {"none", "tail", "complete", "unknown"}

Pairs(P(_, _)) == \A i, j \in DOMAIN requested : i < j => P(requested[i], requested[j])

(* However a server redirects, what is asked for is one log, at the node and
   the history server that were met first, and nothing is asked for twice. *)
StaysOnRoute ==
  /\ \A i \in DOMAIN requested : requested[i].log = Last(registered).log
  /\ Pairs(LAMBDA u, v : u # v)
  /\ Pairs(LAMBDA u, v : u.kind = v.kind => u.backend = v.backend)
  /\ Pairs(LAMBDA u, v : u.kind = "nm" /\ v.kind = "jhs" => v.node = u.backend[1])
  /\ Pairs(LAMBDA u, v : u.kind = "jhs" => v.kind = "jhs" \/ requested[1].kind = "nm")

(* At most three redirects are followed, and only allowed backends are met. *)
RequestsBounded ==
  Len(requested) <= 4 /\ \A i \in DOMAIN requested : requested[i].backend \in Allowed

(* The saved lines are the log's last ones, and all but the first are whole.  A
   text that counts as complete is the whole log, unless the page stated a
   length that is too small for the log: parse_log_html has nothing but that
   length to tell a log from its end. *)
CoverageHonest ==
  answer.category = "OK" =>
    LET lines == answer.lines
    IN  /\ \A k \in DOMAIN lines : lines[k].line = Len(source) - Len(lines) + k
        /\ \A k \in 2..Len(lines) : lines[k].whole
        /\ answer.coverage = "complete" /\ stated >= BytesFrom(source, 1)
             => Len(lines) = Len(source) /\ \A k \in DOMAIN lines : lines[k].whole

(* Stronger, and broken by a stated length that is as old as the end that is
   given is long: that end counts as complete, a piece of a line included. *)
CompleteIsComplete ==
  answer.category = "OK" /\ answer.coverage = "complete" =>
    Len(answer.lines) = Len(source) /\ \A k \in DOMAIN answer.lines : answer.lines[k].whole

(* A tail starts at the start of a line. *)
TailStartsALine ==
  answer.category = "OK" /\ answer.coverage = "tail" /\ answer.lines # <<>> => answer.lines[1].whole
=============================================================================
