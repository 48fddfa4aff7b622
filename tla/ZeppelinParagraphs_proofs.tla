---------------------- MODULE ZeppelinParagraphs_proofs ----------------------
(***************************************************************************)
(* Proofs about ZeppelinParagraphs, for any finite number of calls, any     *)
(* tools and any bounds: a call changes Zeppelin once at most, and what it  *)
(* is told about itself is so.                                              *)
(*                                                                          *)
(* What happens to a call concerns no other: the invariant is a predicate   *)
(* of one call and of the number of sessions issued, beside what client and *)
(* server keep.                                                             *)
(*                                                                          *)
(* And about the tools beside the calls that MCZeppelinCalls composes with  *)
(* them: what add_paragraph lets through, the tree of the notebooks, and    *)
(* what a result holds of a paragraph's outputs.                            *)
(***************************************************************************)
EXTENDS MCZeppelinCalls, Sequences, DataLemmas, TLAPS

------------------------------------------------------------------------------
(* The inductive invariant.                                                  *)

Codes == {"none", "<400", "401", "400+"}
Bodies == States \cup {"none", "ok", "not OK", "malformed"}
Replies == [code : Codes, body : Bodies, cookie : Nat]
Values == States \cup {"none", "done", "CANCELLED", "UNKNOWN"}

CallType == [op : Ops \cup {"none"}, pc : {"idle", "login", "request", "done"}, cookie : Nat,
             wire : {"none", "sent", "arrived"}, reply : Replies, effects : {0, 1},
             seen : SUBSET States, category : Categories, value : Values]

\* The cookies a call knows are of the n sessions that were issued.
CookiesIssued(r, n) ==
  r.cookie <= n /\ r.reply.cookie <= n

\* A call that sends its request, or is about to, knows of a login accepted (a).
LoginKnown(r, a) ==
  /\ Credentials /\ r.pc = "request" => a
  /\ r.pc = "login" /\ r.wire = "arrived" /\ r.reply.code = "<400" => a

\* What has happened to a call, by where it is and where its request is.
Progressed(r) ==
  /\ r.pc = "done" <=> r.category # "NONE"
  /\ r.pc \in {"login", "request"} => r.op # "none" /\ r.wire # "none"
  /\ r.pc \in {"idle", "login"} \/ r.wire = "sent" => r.effects = 0 /\ r.seen = {}
  /\ r.pc = "idle" => r.wire = "none"
  /\ r.pc \in {"login", "request"} /\ r.wire = "arrived" => r.reply.code # "none"
  /\ r.op \notin Changing => r.effects = 0

\* A reply that can be read says whether the request was carried out, and what
\* was there.
ReplyTrue(r) ==
  r.pc = "request" /\ r.wire = "arrived" =>
    /\ r.reply.code \in {"401", "400+"} => r.effects = 0
    /\ r.reply.code = "<400" /\ r.reply.body # "malformed" =>
         /\ r.effects = IF r.op \in Changing THEN 1 ELSE 0
         /\ \E s \in States : r.seen = {s} /\ r.reply.body \in {s, "not OK"}

\* What the call was answered; only one that got no reply has a request out.
AnswerTrue(r) ==
  /\ r.category = "OK" /\ r.op \in Changing => r.effects = 1
  /\ r.category \in {"INVALID_INPUT", "AUTHENTICATION_FAILED"} => r.effects = 0
  /\ r.pc = "done" /\ r.wire = "sent" => r.category = "NO_REPLY"
  /\ r.category = "OK" =>
       /\ r.seen # {}
       /\ r.op = "result" => r.seen \subseteq {"FINISHED", "ERROR"}
       /\ r.op = "status" /\ r.value \in {"RUNNING", "FINISHED", "ERROR"} => r.value \in r.seen

CallOK(r, n) ==
  r \in CallType /\ CookiesIssued(r, n) /\ Progressed(r) /\ ReplyTrue(r) /\ AnswerTrue(r)

CallInv ==
  /\ call \in [Calls -> CallType]
  /\ \A c \in Calls : CallOK(call[c], logins) /\ LoginKnown(call[c], accepted)

\* The client's cookie is one that was issued, or of no session; it counts on a
\* session once a login was accepted.
ClientInv ==
  /\ authenticated \in BOOLEAN /\ accepted \in BOOLEAN /\ jar \in 0..logins
  /\ Credentials /\ authenticated => accepted

ServerInv ==
  /\ logins \in Nat /\ sessions \subseteq 1..logins
  /\ paragraph \in States /\ drops \in 0..MaxDrops /\ runs \in 0..MaxRuns

\* A call logs in once at most: who may yet do so has issued no session.
MayLogIn(r) == r.pc = "idle" \/ (r.pc = "login" /\ r.wire = "sent")
Waiting == {c \in Calls : MayLogIn(call[c])}
LoginInv == logins + Cardinality(Waiting) <= Cardinality(Calls)

IInv == CallInv /\ ClientInv /\ ServerInv /\ LoginInv

------------------------------------------------------------------------------
(* Lemmas about the operators.                                               *)

LEMMA NormalizedState ==
  ASSUME NEW s \in States
  PROVE  /\ Normalized(s) \in Values
         /\ Normalized(s) \in {"RUNNING", "FINISHED", "ERROR"} => Normalized(s) = s
  BY DEF Normalized, States, Values

LEMMA CategoryOf ==
  ASSUME NEW op \in Ops, NEW reply \in Replies, reply.code # "none"
  PROVE  /\ Category(op, reply) \in Categories \ {"NONE", "NO_REPLY"}
         /\ Category(op, reply) = "OK" =>
              /\ reply.code = "<400" /\ reply.body \notin {"not OK", "malformed"}
              /\ op = "result" => Normalized(reply.body) \in {"FINISHED", "ERROR"}
         /\ Category(op, reply) = "INVALID_INPUT" => op = "result" /\ reply.code = "<400"
         /\ reply.code = "<400" => Category(op, reply) # "AUTHENTICATION_FAILED"
         /\ reply.code # "<400" => Category(op, reply) \in {"AUTHENTICATION_FAILED", "UPSTREAM_ERROR"}
<1> reply.code \in {"<400", "401", "400+"}
  BY DEF Replies, Codes
<1>1. CASE reply.code = "401"
  BY <1>1 DEF Category, Categories
<1>2. CASE reply.code = "400+"
  BY <1>2 DEF Category, Categories
<1>3. CASE reply.code = "<400"
  BY <1>3 DEF Category, Categories
<1>4. QED
  BY <1>1, <1>2, <1>3

\* More sessions make no call wrong.
LEMMA MoreIssued ==
  ASSUME NEW r, NEW n \in Nat, CallOK(r, n)
  PROVE  CallOK(r, n + 1)
  BY DEF CallOK, CookiesIssued, CallType, Replies


\* A reply to a request brings no cookie.
LEMMA NoCookieIssued ==
  ASSUME NEW r, NEW n \in Nat, r.cookie <= n, r.reply.cookie = 0
  PROVE  CookiesIssued(r, n)
  BY DEF CookiesIssued

LEMMA FirstEffect ==
  ASSUME NEW x, x = 0, NEW e \in {0, 1}
  PROVE  x + e = e
  OBVIOUS

LEMMA NoReplyFields ==
  NoReply \in Replies /\ NoReply.cookie = 0 /\ NoReply.code = "none"
  BY DEF NoReply, Replies, Codes, Bodies

\* What the records of the module hold, field by field.
LEMMA AnsweredCall ==
  ASSUME NEW c, call[c] \in CallType, NEW category \in Categories, NEW value \in Values
  PROVE  LET r == Answered(c, category, value)
         IN  /\ r \in CallType
             /\ r.op = call[c].op /\ r.pc = "done" /\ r.cookie = 0
             /\ r.wire = call[c].wire /\ r.reply = NoReply /\ r.effects = call[c].effects
             /\ r.seen = call[c].seen /\ r.category = category /\ r.value = value
  BY NoReplyFields DEF Answered, CallType

LEMMA RequestedCall ==
  ASSUME NEW c, call[c] \in CallType, NEW op \in Ops, NEW cookie \in Nat
  PROVE  LET r == Requested(c, op, cookie)
         IN  /\ r \in CallType
             /\ r.op = op /\ r.pc = "request" /\ r.cookie = cookie /\ r.wire = "sent"
             /\ r.reply = NoReply /\ r.effects = call[c].effects /\ r.seen = call[c].seen
             /\ r.category = call[c].category
  BY NoReplyFields DEF Requested, CallType

LEMMA LoggingInCall ==
  ASSUME NEW c, call[c] \in CallType, NEW op \in Ops
  PROVE  LET r == LoggingIn(c, op)
         IN  /\ r \in CallType
             /\ r.op = op /\ r.pc = "login" /\ r.cookie = call[c].cookie /\ r.wire = "sent"
             /\ r.reply = call[c].reply /\ r.effects = call[c].effects
             /\ r.seen = call[c].seen /\ r.category = call[c].category
  BY DEF LoggingIn, CallType

LEMMA DeliveredCall ==
  ASSUME NEW c, call[c] \in CallType, NEW reply \in Replies
  PROVE  LET r == Deliver(c, reply)
         IN  /\ r \in CallType
             /\ r.op = call[c].op /\ r.pc = call[c].pc /\ r.cookie = call[c].cookie
             /\ r.wire = "arrived" /\ r.reply = reply /\ r.effects = call[c].effects
             /\ r.seen = call[c].seen /\ r.category = call[c].category /\ r.value = call[c].value
  BY DEF Deliver, CallType

------------------------------------------------------------------------------
(* The steps of one call.                                                    *)

\* What a step of the call c makes of it, with n sessions issued afterwards.
Becomes(c, r, n) ==
  /\ call' = [call EXCEPT ![c] = r]
  /\ CallOK(r, n) /\ LoginKnown(r, accepted')
  /\ MayLogIn(r) => MayLogIn(call[c])

LEMMA RefusedStep ==
  ASSUME IInv, NEW c \in Calls, NEW op \in Ops, Refused(c, op)
  PROVE  \E r : Becomes(c, r, logins)
<1>1. CallOK(call[c], logins) /\ call[c].pc = "idle" /\ accepted' = accepted
  BY DEF IInv, CallInv, Refused
<1> DEFINE a == Answered(c, "INVALID_INPUT", "none")
           r == [a EXCEPT !.op = op]
<1>2. /\ a \in CallType
      /\ a.pc = "done" /\ a.cookie = 0 /\ a.wire = call[c].wire
      /\ a.reply = NoReply /\ a.effects = call[c].effects /\ a.seen = call[c].seen
      /\ a.category = "INVALID_INPUT"
  BY <1>1, AnsweredCall DEF CallOK, Categories, Values
<1>3. call' = [call EXCEPT ![c] = r]
  BY DEF Refused
<1> HIDE DEF a
<1>4. /\ r \in CallType
      /\ r.op = op /\ r.pc = "done" /\ r.cookie = 0 /\ r.wire = call[c].wire
      /\ r.reply = NoReply /\ r.effects = call[c].effects /\ r.seen = call[c].seen
      /\ r.category = "INVALID_INPUT"
  BY <1>2 DEF CallType
<1> HIDE DEF r
<1>5. CallOK(r, logins) /\ ~MayLogIn(r) /\ LoginKnown(r, accepted')
  BY <1>1, <1>4 DEF CallOK, NoReply,
     CookiesIssued, LoginKnown, Progressed, ReplyTrue, AnswerTrue, MayLogIn, IInv, ServerInv
<1>6. QED
  BY <1>3, <1>5 DEF Becomes

LEMMA BeginStep ==
  ASSUME IInv, NEW c \in Calls, NEW op \in Ops, Begin(c, op)
  PROVE  \E r : Becomes(c, r, logins)
<1> USE DEF CallOK, CookiesIssued, LoginKnown, Progressed, ReplyTrue, AnswerTrue, MayLogIn, Becomes
<1>1. /\ CallOK(call[c], logins) /\ call[c].pc = "idle" /\ jar \in 0..logins /\ logins \in Nat
      /\ accepted' = accepted
  BY DEF IInv, CallInv, ClientInv, ServerInv, Begin
<1>2. op # "none"
  BY OpsAssumption DEF Changing, Reading
<1>3. CASE authenticated \/ ~Credentials
  <2> DEFINE r == Requested(c, op, jar)
  <2>1. /\ r \in CallType
        /\ r.op = op /\ r.pc = "request" /\ r.cookie = jar /\ r.wire = "sent"
        /\ r.reply = NoReply /\ r.effects = call[c].effects /\ r.seen = call[c].seen
        /\ r.category = call[c].category
    BY <1>1, RequestedCall
  <2>2. call' = [call EXCEPT ![c] = r]
    BY <1>3 DEF Begin
  <2> HIDE DEF r
  <2>3. Credentials => accepted
    BY <1>3 DEF IInv, ClientInv
  <2>4. CallOK(r, logins) /\ ~MayLogIn(r) /\ LoginKnown(r, accepted')
    BY <1>1, <1>2, <2>1, <2>3 DEF NoReply
  <2>5. QED
    BY <2>2, <2>4
<1>4. CASE ~(authenticated \/ ~Credentials)
  <2> DEFINE r == LoggingIn(c, op)
  <2>1. /\ r \in CallType
        /\ r.op = op /\ r.pc = "login" /\ r.cookie = call[c].cookie /\ r.wire = "sent"
        /\ r.reply = call[c].reply /\ r.effects = call[c].effects
        /\ r.seen = call[c].seen /\ r.category = call[c].category
    BY <1>1, LoggingInCall
  <2>2. call' = [call EXCEPT ![c] = r]
    BY <1>4 DEF Begin
  <2> HIDE DEF r
  <2>3. CallOK(r, logins) /\ LoginKnown(r, accepted')
    BY <1>1, <1>2, <2>1
  <2>4. QED
    BY <1>1, <2>2, <2>3
<1>5. QED
  BY <1>3, <1>4

LEMMA LoggedInStep ==
  ASSUME IInv, NEW c \in Calls, LoggedIn(c)
  PROVE  \E r : Becomes(c, r, logins)
<1> USE DEF CallOK, CookiesIssued, LoginKnown, Progressed, ReplyTrue, AnswerTrue, MayLogIn, Becomes
<1>1. /\ CallOK(call[c], logins) /\ logins \in Nat /\ jar \in 0..logins
      /\ LoginKnown(call[c], accepted) /\ accepted' = accepted
      /\ call[c].pc = "login" /\ call[c].wire = "arrived"
  BY DEF IInv, CallInv, ClientInv, ServerInv, LoggedIn
<1>2. call[c].op \in Ops /\ call[c].op # "none" /\ call[c].reply \in Replies
  BY <1>1 DEF CallType
<1>3. CASE call[c].reply.code = "<400"
  <2> DEFINE r == Requested(c, call[c].op, jar')
  <2>1. jar' \in Nat /\ jar' <= logins
    BY <1>1, <1>2 DEF Replies, LoggedIn, Kept
  <2>2. /\ r \in CallType
        /\ r.op = call[c].op /\ r.pc = "request" /\ r.cookie = jar'
        /\ r.wire = "sent" /\ r.reply = NoReply /\ r.effects = call[c].effects
        /\ r.seen = call[c].seen /\ r.category = call[c].category
    BY <1>1, <1>2, <2>1, RequestedCall
  <2>3. call' = [call EXCEPT ![c] = r]
    BY <1>3 DEF LoggedIn
  <2> HIDE DEF r
  <2>4. CallOK(r, logins) /\ ~MayLogIn(r) /\ LoginKnown(r, accepted')
    BY <1>1, <1>2, <1>3, <2>1, <2>2 DEF NoReply
  <2>5. QED
    BY <2>3, <2>4
<1>4. CASE call[c].reply.code # "<400"
  <2> DEFINE category == Category(call[c].op, call[c].reply)
             r == Answered(c, category, "none")
  <2>1. call[c].reply.code \in {"401", "400+"}
    BY <1>1, <1>2, <1>4 DEF Replies, Codes
  <2>2. category \in {"AUTHENTICATION_FAILED", "UPSTREAM_ERROR"}
    BY <1>2, <2>1, CategoryOf
  <2>3. call' = [call EXCEPT ![c] = r]
    BY <1>4 DEF LoggedIn
  <2> HIDE DEF category
  <2>4. /\ r \in CallType
        /\ r.op = call[c].op /\ r.pc = "done" /\ r.cookie = 0
        /\ r.wire = call[c].wire /\ r.reply = NoReply /\ r.effects = call[c].effects
        /\ r.seen = call[c].seen /\ r.category = category
    BY <1>1, <2>2, AnsweredCall DEF Categories, Values
  <2> HIDE DEF r
  <2>5. CallOK(r, logins) /\ ~MayLogIn(r) /\ LoginKnown(r, accepted')
    BY <1>1, <2>2, <2>4 DEF NoReply
  <2>6. QED
    BY <2>3, <2>5
<1>5. QED
  BY <1>3, <1>4

LEMMA RepliedStep ==
  ASSUME IInv, NEW c \in Calls, Replied(c)
  PROVE  \E r : Becomes(c, r, logins)
<1> USE DEF CallOK, CookiesIssued, LoginKnown, Progressed, ReplyTrue, AnswerTrue, MayLogIn, Becomes
<1>1. /\ CallOK(call[c], logins) /\ logins \in Nat /\ accepted' = accepted
      /\ call[c].pc = "request" /\ call[c].wire = "arrived"
  BY DEF IInv, CallInv, ServerInv, Replied
<1>2. call[c].op \in Ops /\ call[c].reply \in Replies /\ call[c].reply.code # "none"
  BY <1>1 DEF CallType
<1> DEFINE category == Category(call[c].op, call[c].reply)
           value == IF category = "OK" THEN Value(call[c].op, call[c].reply.body) ELSE "none"
           r == Answered(c, category, value)
<1>3. call' = [call EXCEPT ![c] = r]
  BY DEF Replied
<1>4. /\ category \in Categories \ {"NONE", "NO_REPLY"}
      /\ category = "OK" =>
           /\ call[c].reply.code = "<400" /\ call[c].reply.body \notin {"not OK", "malformed"}
           /\ call[c].op = "result" => Normalized(call[c].reply.body) \in {"FINISHED", "ERROR"}
      /\ category = "INVALID_INPUT" => call[c].op = "result" /\ call[c].reply.code = "<400"
      /\ call[c].reply.code = "<400" => category # "AUTHENTICATION_FAILED"
  BY <1>2, CategoryOf
<1>5. category = "OK" => call[c].reply.body \in States /\ call[c].seen = {call[c].reply.body}
  BY <1>1, <1>4
<1>6. value \in Values /\ (category = "OK" /\ call[c].op = "status" => value = Normalized(call[c].reply.body))
  BY <1>5, NormalizedState DEF Value, Values, States
<1> HIDE DEF category, value
<1>7. /\ r \in CallType
      /\ r.op = call[c].op /\ r.pc = "done" /\ r.cookie = 0
      /\ r.wire = call[c].wire /\ r.reply = NoReply /\ r.effects = call[c].effects
      /\ r.seen = call[c].seen /\ r.category = category /\ r.value = value
  <2>1. category \in Categories /\ value \in Values /\ call[c] \in CallType
    BY <1>1, <1>4, <1>6
  <2>2. QED
    BY <2>1, AnsweredCall
<1> HIDE DEF r
<1>8. AnswerTrue(r)
  <2>1. category = "OK" /\ call[c].op \in Changing => call[c].effects = 1
    BY <1>1, <1>4
  <2>2. category \in {"INVALID_INPUT", "AUTHENTICATION_FAILED"} => call[c].effects = 0
    <3>1. call[c].reply.code \in {"<400", "401", "400+"}
      BY <1>2 DEF Replies, Codes
    <3>2. call[c].reply.code # "<400" => call[c].effects = 0
      BY <1>1, <3>1
    <3>3. call[c].op = "result" => call[c].effects = 0
      BY <1>1 DEF Changing
    <3>4. QED
      BY <1>4, <3>2, <3>3
  <2>6. category = "OK" => call[c].seen # {}
    BY <1>5
  <2>3. category = "OK" /\ call[c].op = "result" => call[c].seen \subseteq {"FINISHED", "ERROR"}
    BY <1>4, <1>5, NormalizedState
  <2>4. category = "OK" /\ call[c].op = "status" /\ value \in {"RUNNING", "FINISHED", "ERROR"}
          => value \in call[c].seen
    BY <1>5, <1>6, NormalizedState
  <2>5. QED
    BY <1>1, <1>7, <2>1, <2>2, <2>3, <2>4, <2>6
<1>9. CookiesIssued(r, logins) /\ LoginKnown(r, accepted') /\ ReplyTrue(r) /\ ~MayLogIn(r)
  <2>1. r.pc = "done" /\ r.cookie <= logins
    <3>1. 0 <= logins
      <4> DEFINE n == logins
      <4>1. n \in Nat
        BY <1>1
      <4> HIDE DEF n
      <4>2. 0 <= n
        BY <4>1
      <4>3. QED
        BY <4>2 DEF n
    <3>2. QED
      BY <1>7, <3>1
  <2>2. r.reply = NoReply /\ NoReply.cookie = 0 /\ logins \in Nat
    BY <1>1, <1>7 DEF NoReply
  <2>3. QED
    BY <2>1, <2>2
<1>10. Progressed(r)
  BY <1>1, <1>4, <1>7
<1>11. QED
  BY <1>3, <1>7, <1>8, <1>9, <1>10

LEMMA FailsStep ==
  ASSUME IInv, NEW c \in Calls, NEW unsent \in BOOLEAN, Fails(c, unsent)
  PROVE  \E r : Becomes(c, r, logins)
<1>1. /\ call[c] \in CallType /\ CookiesIssued(call[c], logins) /\ Progressed(call[c])
      /\ ReplyTrue(call[c]) /\ AnswerTrue(call[c])
  BY DEF IInv, CallInv, CallOK
<1>2. /\ logins \in Nat
      /\ call[c].pc \in {"login", "request"} /\ (unsent => call[c].wire = "sent")
  BY DEF IInv, ServerInv, Fails
<1> DEFINE a == Answered(c, "NO_REPLY", "none")
           r == IF unsent \/ call[c].pc = "login" THEN [a EXCEPT !.wire = "none"]
                ELSE [a EXCEPT !.cookie = call[c].cookie]
<1>3. call' = [call EXCEPT ![c] = r]
  BY DEF Fails
<1>4. /\ a \in CallType
      /\ a.op = call[c].op /\ a.pc = "done" /\ a.cookie = 0 /\ a.wire = call[c].wire
      /\ a.reply = NoReply /\ a.effects = call[c].effects /\ a.seen = call[c].seen
      /\ a.category = "NO_REPLY"
  BY <1>1, <1>2, AnsweredCall DEF Categories, Values
<1> HIDE DEF a
<1>5. /\ r \in CallType
      /\ r.op = call[c].op /\ r.pc = "done" /\ r.cookie \in {0, call[c].cookie}
      /\ r.wire \in {"none", call[c].wire}
      /\ r.reply = NoReply /\ r.effects = call[c].effects /\ r.seen = call[c].seen
      /\ r.category = "NO_REPLY"
  <2>1. call[c].cookie \in Nat
    BY <1>1 DEF CallType
  <2>2. CASE unsent \/ call[c].pc = "login"
    BY <1>4, <2>2 DEF CallType
  <2>3. CASE ~(unsent \/ call[c].pc = "login")
    BY <1>4, <2>1, <2>3 DEF CallType
  <2>4. QED
    BY <2>2, <2>3
<1> HIDE DEF r
<1>6. CallOK(r, logins) /\ ~MayLogIn(r) /\ LoginKnown(r, accepted')
  <2>1. CookiesIssued(r, logins)
    BY <1>1, <1>2, <1>5, NoReplyFields DEF CookiesIssued
  <2>2. Progressed(r) /\ ~MayLogIn(r)
    BY <1>1, <1>2, <1>5, NoReplyFields DEF Progressed, MayLogIn
  <2>3. ReplyTrue(r)
    BY <1>1, <1>2, <1>5, NoReplyFields DEF ReplyTrue, Progressed
  <2>4. AnswerTrue(r)
    BY <1>1, <1>2, <1>5, NoReplyFields DEF AnswerTrue, Progressed
  <2>5. QED
    BY <1>5, <2>1, <2>2, <2>3, <2>4 DEF CallOK, LoginKnown
<1>7. QED
  BY <1>3, <1>6 DEF Becomes

\* A login that arrives may open a session; the call cannot log in again.
LEMMA LoginArrivesStep ==
  ASSUME IInv, NEW c \in Calls, NEW code \in {"<400", "401", "400+"}, NEW opens \in BOOLEAN,
         LoginArrives(c, code, opens)
  PROVE  /\ \E r : Becomes(c, r, logins') /\ ~MayLogIn(r)
         /\ MayLogIn(call[c])
<1>1. /\ call[c] \in CallType /\ CookiesIssued(call[c], logins) /\ Progressed(call[c])
      /\ ReplyTrue(call[c]) /\ AnswerTrue(call[c])
  BY DEF IInv, CallInv, CallOK
<1>2. /\ logins \in Nat /\ logins' \in {logins, logins + 1}
      /\ code = "<400" => accepted'
      /\ call[c].pc = "login" /\ call[c].wire = "sent"
  BY DEF IInv, ServerInv, LoginArrives
<1> DEFINE cookie == IF opens THEN logins' ELSE 0
           reply == Reply(code, "ok", cookie)
           r == Deliver(c, reply)
<1>3. call' = [call EXCEPT ![c] = r]
  BY DEF LoginArrives
<1>4. reply \in Replies /\ reply.code = code /\ reply.cookie <= logins'
  BY <1>1, <1>2 DEF Reply, Replies, Codes, Bodies
<1> HIDE DEF reply, cookie
<1>5. /\ r \in CallType
      /\ r.op = call[c].op /\ r.pc = call[c].pc /\ r.cookie = call[c].cookie
      /\ r.wire = "arrived" /\ r.reply = reply /\ r.effects = call[c].effects
      /\ r.seen = call[c].seen /\ r.category = call[c].category /\ r.value = call[c].value
  BY <1>1, <1>4, DeliveredCall
<1> HIDE DEF r
<1>6. CallOK(r, logins') /\ ~MayLogIn(r) /\ LoginKnown(r, accepted')
  <2>1. CookiesIssued(r, logins')
    <3>1. r.cookie <= logins'
      BY <1>1, <1>2, <1>5 DEF CookiesIssued, CallType
    <3>2. r.pc = "login" /\ r.reply = reply /\ logins' \in Nat
      BY <1>2, <1>5
    <3>3. QED
      BY <1>2, <1>4, <3>1, <3>2 DEF CookiesIssued
  <2>2. Progressed(r) /\ ~MayLogIn(r)
    BY <1>1, <1>2, <1>4, <1>5 DEF Progressed, MayLogIn
  <2>3. ReplyTrue(r)
    BY <1>1, <1>2, <1>4, <1>5 DEF ReplyTrue, Progressed
  <2>4. AnswerTrue(r)
    BY <1>1, <1>2, <1>4, <1>5 DEF AnswerTrue, Progressed
  <2>5. QED
    BY <1>2, <1>4, <1>5, <2>1, <2>2, <2>3, <2>4 DEF CallOK, LoginKnown
<1>7. QED
  BY <1>2, <1>3, <1>6 DEF Becomes, MayLogIn

\* A request that is carried out is carried out once, for a call that waits
\* for it or one that has given it up.
LEMMA ServedStep ==
  ASSUME IInv, NEW c \in Calls, NEW body \in {"ok", "not OK", "malformed"}, Served(c, body)
  PROVE  \E r : Becomes(c, r, logins)
<1>1. /\ call[c] \in CallType /\ CookiesIssued(call[c], logins) /\ Progressed(call[c])
      /\ ReplyTrue(call[c]) /\ AnswerTrue(call[c]) /\ LoginKnown(call[c], accepted)
  BY DEF IInv, CallInv, CallOK
<1>2. /\ logins \in Nat /\ paragraph \in States
      /\ call[c].pc # "login" /\ call[c].wire = "sent" /\ accepted' = accepted
  BY DEF IInv, ServerInv, Served
<1>3. call[c].effects = 0 /\ call[c].seen = {} /\ call[c].pc # "idle"
  BY <1>1, <1>2 DEF Progressed
<1> DEFINE text == IF body = "ok" THEN paragraph ELSE body
           reply == IF call[c].pc = "request" THEN Reply("<400", text, 0) ELSE NoReply
           d == Deliver(c, reply)
           e == IF call[c].op \in Changing THEN 1 ELSE 0
           r == [d EXCEPT !.effects = d.effects + e, !.seen = d.seen \cup {paragraph}]
<1>4. call' = [call EXCEPT ![c] = r]
  BY DEF Served, IInv, CallInv
<1>5. /\ reply \in Replies /\ reply.cookie = 0
      /\ call[c].pc = "request" => /\ reply.code = "<400"
                                   /\ reply.body \in {paragraph, "not OK", "malformed"}
  BY <1>1, <1>2 DEF Reply, NoReply, Replies, Codes, Bodies
<1> HIDE DEF reply, text
<1>6. /\ d \in CallType
      /\ d.op = call[c].op /\ d.pc = call[c].pc /\ d.cookie = call[c].cookie
      /\ d.wire = "arrived" /\ d.reply = reply /\ d.effects = call[c].effects
      /\ d.seen = call[c].seen /\ d.category = call[c].category /\ d.value = call[c].value
  BY <1>1, <1>5, DeliveredCall
<1> HIDE DEF d
<1>7. /\ r \in CallType
      /\ r.op = call[c].op /\ r.pc = call[c].pc /\ r.cookie = call[c].cookie
      /\ r.wire = "arrived" /\ r.reply = reply
      /\ r.effects = IF call[c].op \in Changing THEN 1 ELSE 0
      /\ r.seen = {paragraph} /\ r.category = call[c].category /\ r.value = call[c].value
  <2>1. e \in {0, 1} /\ d.effects + e = e
    <3>1. e \in {0, 1}
      OBVIOUS
    <3>2. d.effects = 0
      BY <1>3, <1>6
    <3>3. QED
      BY <3>1, <3>2, FirstEffect
  <2>2. d.seen \cup {paragraph} = {paragraph}
    BY <1>3, <1>6
  <2>3. r = [d EXCEPT !.effects = e, !.seen = {paragraph}]
    BY <2>1, <2>2
  <2>4. \A k \in {0, 1} : [d EXCEPT !.effects = k, !.seen = {paragraph}] \in CallType
    BY <1>2, <1>6 DEF CallType
  <2>5. r \in CallType
    BY <2>1, <2>3, <2>4
  <2> HIDE DEF e
  <2>6. /\ r.op = d.op /\ r.pc = d.pc /\ r.cookie = d.cookie /\ r.wire = d.wire
        /\ r.reply = d.reply /\ r.effects = e /\ r.seen = {paragraph}
        /\ r.category = d.category /\ r.value = d.value
    BY <1>6, <2>3 DEF CallType
  <2>7. QED
    BY <1>6, <2>5, <2>6 DEF e
<1> HIDE DEF r
<1>8. CallOK(r, logins) /\ ~MayLogIn(r) /\ LoginKnown(r, accepted')
  <2>1. CookiesIssued(r, logins)
    <3>1. r.cookie <= logins
      BY <1>1, <1>7 DEF CookiesIssued
    <3>2. r.reply.cookie = 0
      BY <1>2, <1>5, <1>7
    <3>3. QED
      BY <1>2, <3>1, <3>2, NoCookieIssued
  <2>2. Progressed(r) /\ ~MayLogIn(r)
    BY <1>1, <1>2, <1>3, <1>5, <1>7 DEF Progressed, MayLogIn
  <2>3. ReplyTrue(r)
    BY <1>1, <1>2, <1>3, <1>5, <1>7 DEF ReplyTrue, Progressed
  <2>4. AnswerTrue(r)
    BY <1>1, <1>2, <1>3, <1>5, <1>7 DEF AnswerTrue, Progressed
  <2>5. QED
    BY <1>1, <1>2, <1>7, <2>1, <2>2, <2>3, <2>4 DEF CallOK, LoginKnown
<1>9. QED
  BY <1>4, <1>8 DEF Becomes

LEMMA DeniedStep ==
  ASSUME IInv, NEW c \in Calls, NEW code \in {"<400", "401", "400+"}, Denied(c, code)
  PROVE  \E r : Becomes(c, r, logins)
<1>1. /\ call[c] \in CallType /\ CookiesIssued(call[c], logins) /\ Progressed(call[c])
      /\ ReplyTrue(call[c]) /\ AnswerTrue(call[c]) /\ LoginKnown(call[c], accepted)
  BY DEF IInv, CallInv, CallOK
<1>2. /\ logins \in Nat
      /\ call[c].pc # "login" /\ call[c].wire = "sent" /\ accepted' = accepted
  BY DEF IInv, ServerInv, Denied
<1> DEFINE body == IF code = "<400" THEN "malformed" ELSE "none"
           reply == IF call[c].pc = "request" THEN Reply(code, body, 0) ELSE NoReply
           r == Deliver(c, reply)
<1>3. call' = [call EXCEPT ![c] = r]
  BY DEF Denied
<1>4. /\ reply \in Replies /\ reply.cookie = 0
      /\ reply.code = "<400" => reply.body = "malformed"
      /\ call[c].pc = "request" => reply.code # "none"
  BY DEF Reply, NoReply, Replies, Codes, Bodies
<1> HIDE DEF reply, body
<1>5. /\ r \in CallType
      /\ r.op = call[c].op /\ r.pc = call[c].pc /\ r.cookie = call[c].cookie
      /\ r.wire = "arrived" /\ r.reply = reply /\ r.effects = call[c].effects
      /\ r.seen = call[c].seen /\ r.category = call[c].category /\ r.value = call[c].value
  BY <1>1, <1>4, DeliveredCall
<1> HIDE DEF r
<1>6. CallOK(r, logins) /\ ~MayLogIn(r) /\ LoginKnown(r, accepted')
  <2>1. CookiesIssued(r, logins)
    BY <1>1, <1>2, <1>4, <1>5 DEF CookiesIssued
  <2>2. Progressed(r) /\ ~MayLogIn(r)
    BY <1>1, <1>2, <1>4, <1>5 DEF Progressed, MayLogIn
  <2>3. ReplyTrue(r)
    BY <1>1, <1>2, <1>4, <1>5 DEF ReplyTrue, Progressed
  <2>4. AnswerTrue(r)
    BY <1>1, <1>2, <1>4, <1>5 DEF AnswerTrue, Progressed
  <2>5. QED
    BY <1>1, <1>2, <1>5, <2>1, <2>2, <2>3, <2>4 DEF CallOK, LoginKnown
<1>7. QED
  BY <1>3, <1>6 DEF Becomes

------------------------------------------------------------------------------
(* The invariant is preserved.                                               *)

\* Every step is one of one call, or leaves calls and logins as they are.
LEMMA StepOfCall ==
  ASSUME IInv, [Next]_vars
  PROVE  \/ UNCHANGED <<call, logins, accepted>>
         \/ \E c \in Calls : \E r :
              /\ Becomes(c, r, logins')
              /\ logins' = logins \/ (logins' = logins + 1 /\ MayLogIn(call[c]) /\ ~MayLogIn(r))
<1> DEFINE Goal == \/ UNCHANGED <<call, logins, accepted>>
                   \/ \E c \in Calls : \E r :
                        /\ Becomes(c, r, logins')
                        /\ \/ logins' = logins
                           \/ logins' = logins + 1 /\ MayLogIn(call[c]) /\ ~MayLogIn(r)
<1>1. ASSUME NEW c \in Calls, \E r : Becomes(c, r, logins), logins' = logins PROVE Goal
  BY <1>1
<1>2. ASSUME NEW c \in Calls, NEW code \in {"<400", "401", "400+"}, NEW opens \in BOOLEAN,
             LoginArrives(c, code, opens)
      PROVE  Goal
  <2>1. logins' = logins \/ logins' = logins + 1
    BY <1>2 DEF LoginArrives
  <2>2. PICK r : Becomes(c, r, logins') /\ ~MayLogIn(r)
    BY <1>2, LoginArrivesStep
  <2>3. MayLogIn(call[c])
    BY <1>2, LoginArrivesStep
  <2>4. QED
    BY <2>1, <2>2, <2>3
<1> HIDE DEF Goal
<1>3. ASSUME NEW c \in Calls, NEW op \in Ops, Begin(c, op) \/ Refused(c, op) PROVE Goal
  <2>1. logins' = logins
    BY <1>3 DEF Begin, Refused
  <2>2. QED
    BY <1>1, <1>3, <2>1, BeginStep, RefusedStep
<1>4. ASSUME NEW c \in Calls, LoggedIn(c) \/ Replied(c) PROVE Goal
  <2>1. logins' = logins
    BY <1>4 DEF LoggedIn, Replied
  <2>2. QED
    BY <1>1, <1>4, <2>1, LoggedInStep, RepliedStep
<1>5. ASSUME NEW c \in Calls, NEW unsent \in BOOLEAN, Fails(c, unsent) PROVE Goal
  <2>1. logins' = logins
    BY <1>5 DEF Fails
  <2>2. QED
    BY <1>1, <1>5, <2>1, FailsStep
<1>6. ASSUME NEW c \in Calls, NEW body \in {"ok", "not OK", "malformed"}, Served(c, body)
      PROVE  Goal
  <2>1. logins' = logins
    BY <1>6 DEF Served
  <2>2. QED
    BY <1>1, <1>6, <2>1, ServedStep
<1>7. ASSUME NEW c \in Calls, NEW code \in {"<400", "401", "400+"}, Denied(c, code)
      PROVE  Goal
  <2>1. logins' = logins
    BY <1>7 DEF Denied
  <2>2. QED
    BY <1>1, <1>7, <2>1, DeniedStep
<1>8. ASSUME UNCHANGED <<call, logins, accepted>> PROVE Goal
  BY <1>8 DEF Goal
<1>9. ASSUME (\E state \in States : Progress(state)) \/ SessionsDrop \/ UNCHANGED vars PROVE Goal
  BY <1>8, <1>9 DEF Progress, SessionsDrop, vars
<1>10. Goal
  BY <1>2, <1>3, <1>4, <1>5, <1>6, <1>7, <1>9 DEF Next
<1>11. QED
  BY <1>10 DEF Goal

\* A login that was accepted stays so.
LEMMA AcceptedStays ==
  ASSUME IInv, [Next]_vars
  PROVE  accepted => accepted'
  BY DEF IInv, ClientInv, Next, vars, Begin, Refused, LoggedIn, Replied, Fails, LoginArrives,
     Served, Denied, Progress, SessionsDrop

LEMMA CallKept ==
  ASSUME IInv, [Next]_vars
  PROVE  CallInv'
<1>1. /\ call \in [Calls -> CallType] /\ logins \in Nat
      /\ \A c \in Calls : CallOK(call[c], logins) /\ LoginKnown(call[c], accepted)
  BY DEF IInv, CallInv, ServerInv
<1>2. CASE UNCHANGED <<call, logins, accepted>>
  BY <1>1, <1>2 DEF CallInv
<1>3. ASSUME NEW c \in Calls, NEW r, Becomes(c, r, logins'), logins' \in {logins, logins + 1}
      PROVE  CallInv'
  <2>1. \A d \in Calls : CallOK(call[d], logins')
    BY <1>1, <1>3, MoreIssued
  <2>2. \A d \in Calls : LoginKnown(call[d], accepted')
    BY <1>1, AcceptedStays DEF LoginKnown
  <2>3. /\ CallOK(r, logins') /\ r \in CallType /\ LoginKnown(r, accepted')
        /\ call' = [call EXCEPT ![c] = r]
    BY <1>3 DEF Becomes, CallOK
  <2>4. call' \in [Calls -> CallType] /\ \A d \in Calls : call'[d] = IF d = c THEN r ELSE call[d]
    BY <1>1, <2>3
  <2>5. \A d \in Calls : CallOK(call'[d], logins') /\ LoginKnown(call'[d], accepted')
    BY <2>1, <2>2, <2>3, <2>4
  <2>6. QED
    BY <2>4, <2>5 DEF CallInv
<1>4. QED
  BY <1>2, <1>3, StepOfCall

\* Who has logged in does not wait for it any more.
LEMMA LoginKept ==
  ASSUME IInv, [Next]_vars
  PROVE  LoginInv'
<1>1. /\ call \in [Calls -> CallType] /\ logins \in Nat
      /\ logins + Cardinality(Waiting) <= Cardinality(Calls)
  BY DEF IInv, CallInv, ServerInv, LoginInv
<1>2. IsFiniteSet(Waiting) /\ Cardinality(Waiting) \in Nat /\ Cardinality(Calls) \in Nat
  BY CallsAssumption, FS_Subset, FS_CardinalityType DEF Waiting
<1>3. CASE UNCHANGED <<call, logins, accepted>>
  BY <1>1, <1>3 DEF LoginInv, Waiting
<1>4. ASSUME NEW c \in Calls, NEW r, Becomes(c, r, logins'),
             logins' = logins \/ (logins' = logins + 1 /\ MayLogIn(call[c]) /\ ~MayLogIn(r))
      PROVE  LoginInv'
  <2>1. \A d \in Calls : call'[d] = IF d = c THEN r ELSE call[d]
    BY <1>1, <1>4 DEF Becomes
  <2>2. CASE logins' = logins
    <3>1. Waiting' \subseteq Waiting
      BY <1>4, <2>1 DEF Waiting, Becomes
    <3>2. Cardinality(Waiting') <= Cardinality(Waiting) /\ Cardinality(Waiting') \in Nat
      BY <1>2, <3>1, FS_Subset, FS_CardinalityType
    <3>3. QED
      BY <1>1, <1>2, <2>2, <3>2 DEF LoginInv
  <2>3. CASE logins' = logins + 1 /\ MayLogIn(call[c]) /\ ~MayLogIn(r)
    <3>1. c \in Waiting /\ Waiting' \subseteq Waiting \ {c}
      BY <2>1, <2>3 DEF Waiting
    <3>2. /\ IsFiniteSet(Waiting \ {c})
          /\ Cardinality(Waiting \ {c}) = Cardinality(Waiting) - 1
      BY <1>2, <3>1, FS_RemoveElement
    <3>3. Cardinality(Waiting') <= Cardinality(Waiting) - 1 /\ Cardinality(Waiting') \in Nat
      BY <1>2, <3>1, <3>2, FS_Subset, FS_CardinalityType
    <3>4. QED
      BY <1>1, <1>2, <2>3, <3>3 DEF LoginInv
  <2>4. QED
    BY <1>4, <2>2, <2>3
<1>5. QED
  BY <1>3, <1>4, StepOfCall

\* What client and server keep.
LEMMA SidesKept ==
  ASSUME IInv, [Next]_vars
  PROVE  ClientInv' /\ ServerInv'
<1> USE DEF ClientInv, ServerInv
<1>1. ClientInv /\ ServerInv
  BY DEF IInv
<1>2. ASSUME UNCHANGED <<authenticated, jar, sessions, logins, accepted, paragraph, drops, runs>>
      PROVE  ClientInv' /\ ServerInv'
  BY <1>1, <1>2
<1>3. ASSUME NEW c \in Calls, LoggedIn(c) PROVE ClientInv' /\ ServerInv'
  <2>1. /\ call[c] \in CallType /\ CookiesIssued(call[c], logins)
        /\ LoginKnown(call[c], accepted)
        /\ call[c].pc = "login" /\ call[c].wire = "arrived"
    BY <1>3 DEF IInv, CallInv, CallOK, LoggedIn
  <2>2. call[c].reply.cookie \in Nat /\ call[c].reply.cookie <= logins
    BY <2>1 DEF CallType, Replies, CookiesIssued
  <2>3. UNCHANGED <<sessions, logins, accepted, paragraph, drops, runs>>
    BY <1>3 DEF LoggedIn
  <2>4. jar' \in 0..logins
    BY <1>1, <1>3, <2>2 DEF LoggedIn, Kept
  <2>5. authenticated' \in BOOLEAN /\ (Credentials /\ authenticated' => accepted)
    BY <1>1, <1>3, <2>1 DEF LoggedIn, LoginKnown
  <2>6. QED
    BY <1>1, <2>3, <2>4, <2>5
<1>4. ASSUME NEW c \in Calls, NEW code \in {"<400", "401", "400+"}, NEW opens \in BOOLEAN,
             LoginArrives(c, code, opens)
      PROVE  ClientInv' /\ ServerInv'
  <2>1. /\ UNCHANGED <<authenticated, jar, paragraph, drops, runs>>
        /\ accepted' \in BOOLEAN /\ (accepted => accepted')
        /\ \/ logins' = logins + 1 /\ sessions' = sessions \cup {logins + 1}
           \/ UNCHANGED <<logins, sessions>>
    BY <1>1, <1>4 DEF LoginArrives
  <2>2. CASE logins' = logins + 1 /\ sessions' = sessions \cup {logins + 1}
    <3>1. logins' \in Nat /\ 0..logins \subseteq 0..logins' /\ 1..logins \subseteq 1..logins'
          /\ logins + 1 \in 1..logins'
      BY <1>1, <2>2
    <3>2. QED
      BY <1>1, <2>1, <2>2, <3>1
  <2>3. QED
    BY <1>1, <2>1, <2>2
<1>5. ASSUME NEW c \in Calls, NEW body \in {"ok", "not OK", "malformed"}, Served(c, body)
      PROVE  ClientInv' /\ ServerInv'
  <2>1. UNCHANGED <<authenticated, jar, sessions, logins, accepted, drops, runs>>
    BY <1>5 DEF Served
  <2>2. paragraph' \in States
    BY <1>1, <1>5 DEF Served, After, States
  <2>3. QED
    BY <1>1, <2>1, <2>2
<1>6. ASSUME NEW c \in Calls,
             \/ \E op \in Ops : Begin(c, op) \/ Refused(c, op)
             \/ \E unsent \in BOOLEAN : Fails(c, unsent)
             \/ \E code \in {"<400", "401", "400+"} : Denied(c, code)
      PROVE  ClientInv' /\ ServerInv'
  BY <1>2, <1>6 DEF Begin, Refused, Fails, Denied
<1>10. ASSUME NEW c \in Calls, Replied(c) PROVE ClientInv' /\ ServerInv'
  <2>1. UNCHANGED <<authenticated, sessions, logins, accepted, paragraph, drops, runs>>
    BY <1>10 DEF Replied
  <2>2. jar' \in 0..logins
    BY <1>1, <1>10 DEF Replied, Kept
  <2>3. QED
    BY <1>1, <2>1, <2>2
<1>7. ASSUME NEW state \in States, Progress(state) PROVE ClientInv' /\ ServerInv'
  BY <1>1, <1>7, BoundsAssumption DEF Progress
<1>8. CASE SessionsDrop
  BY <1>1, <1>8, BoundsAssumption DEF SessionsDrop
<1>9. CASE UNCHANGED vars
  BY <1>2, <1>9 DEF vars
<1>11. QED
  BY <1>3, <1>4, <1>5, <1>6, <1>7, <1>8, <1>9, <1>10 DEF Next

LEMMA IInvInit == Init => IInv
<1> SUFFICES ASSUME Init PROVE IInv
  OBVIOUS
<1>1. NewCall \in CallType
  BY NoReplyFields DEF NewCall, CallType, Categories, Values
<1>2. CallOK(NewCall, 0) /\ LoginKnown(NewCall, FALSE)
  BY <1>1, NoReplyFields DEF NewCall, CallOK, CookiesIssued, LoginKnown, Progressed, ReplyTrue, AnswerTrue,
     Changing
<1>3. CallInv
  BY <1>1, <1>2 DEF Init, CallInv
<1>4. ClientInv /\ ServerInv
  <2>1. MaxDrops \in Nat /\ MaxRuns \in Nat
    BY BoundsAssumption
  <2>2. /\ authenticated = FALSE /\ jar = 0 /\ sessions = {} /\ logins = 0
        /\ paragraph \in States /\ drops = 0 /\ runs = 0
    BY DEF Init, States
  <2>3. 0 \in 0..MaxDrops /\ 0 \in 0..MaxRuns
    BY <2>1
  <2>4. ServerInv
    BY <2>2, <2>3 DEF ServerInv
  <2>5. ClientInv
    <3>1. jar \in 0..logins
      BY <2>2
    <3>2. authenticated \in BOOLEAN /\ accepted \in BOOLEAN /\ ~authenticated
      BY Zenon DEF Init
    <3>3. QED
      BY <3>1, <3>2 DEF ClientInv
  <2>6. QED
    BY <2>4, <2>5
<1>5. LoginInv
  <2>1. Cardinality(Waiting) <= Cardinality(Calls) /\ Cardinality(Waiting) \in Nat
    BY CallsAssumption, FS_Subset, FS_CardinalityType DEF Waiting
  <2>2. QED
    BY <2>1, CallsAssumption, FS_CardinalityType DEF Init, LoginInv
<1>6. QED
  BY <1>3, <1>4, <1>5 DEF IInv

LEMMA Invariance == Spec => []IInv
<1>1. IInv /\ [Next]_vars => IInv'
  BY CallKept, LoginKept, SidesKept DEF IInv
<1>2. QED
  BY <1>1, IInvInit, PTL DEF Spec

------------------------------------------------------------------------------
(* What follows from it.                                                     *)

\* Every variable keeps its type, and no more sessions are issued than there
\* are calls.
THEOREM TypeCorrect == Spec => []TypeOK
<1>1. IInv => TypeOK
  <2> SUFFICES ASSUME IInv PROVE TypeOK
    OBVIOUS
  <2>1. \A c \in Calls : /\ call[c] \in CallType /\ CookiesIssued(call[c], logins)
                         /\ Progressed(call[c])
    BY DEF IInv, CallInv, CallOK
  <2>2. \A c \in Calls :
          /\ call[c].op \in Ops \cup {"none"}
          /\ call[c].pc \in {"idle", "login", "request", "done"}
          /\ call[c].wire \in {"none", "sent", "arrived"}
          /\ call[c].seen \subseteq States /\ call[c].category \in Categories
          /\ call[c].cookie \in Nat
    BY <2>1 DEF CallType
  <2>3. \A c \in Calls : call[c].cookie \in 0..logins /\ (call[c].pc = "done" <=> call[c].category # "NONE")
    BY <2>1, <2>2 DEF CookiesIssued, Progressed, IInv, ServerInv
  <2>4. logins \in 0..Cardinality(Calls)
    <3>1. Cardinality(Waiting) \in Nat /\ Cardinality(Calls) \in Nat
      BY CallsAssumption, FS_Subset, FS_CardinalityType DEF Waiting
    <3>2. QED
      BY <3>1 DEF IInv, LoginInv, ServerInv
  <2>5. QED
    BY <2>2, <2>3, <2>4 DEF TypeOK, IInv, ClientInv, ServerInv
<1>2. QED
  BY <1>1, Invariance, PTL

\* Whatever is lost, late or refused: a call changes Zeppelin once at most, and
\* has changed it once when it is answered OK.
THEOREM OneEffect == Spec => []OneEffectPerCall
<1>1. IInv => OneEffectPerCall
  <2> SUFFICES ASSUME IInv, NEW c \in Calls
               PROVE  /\ call[c].effects <= 1
                      /\ call[c].category = "OK" /\ call[c].op \in Changing => call[c].effects = 1
    BY DEF OneEffectPerCall
  <2>1. call[c] \in CallType /\ AnswerTrue(call[c])
    BY DEF IInv, CallInv, CallOK
  <2>2. call[c].effects \in {0, 1}
    BY <2>1 DEF CallType
  <2>3. QED
    BY <2>1, <2>2 DEF AnswerTrue
<1>2. QED
  BY <1>1, Invariance, PTL

\* A refused call has done nothing and never will, an answered one was carried
\* out and gives a state the paragraph had, and requests go out only after a
\* login was accepted, whether it opened a session or not.
THEOREM AnswersHold == Spec => []SessionHonest
<1>1. IInv => RefusalsAreClean /\ AnswersWereTrue /\ LoginComesFirst
  <2> SUFFICES ASSUME IInv PROVE RefusalsAreClean /\ AnswersWereTrue /\ LoginComesFirst
    OBVIOUS
  <2>1. \A c \in Calls : /\ call[c] \in CallType /\ LoginKnown(call[c], accepted)
                         /\ Progressed(call[c]) /\ AnswerTrue(call[c])
    BY DEF IInv, CallInv, CallOK
  <2>2. RefusalsAreClean
    BY <2>1 DEF RefusalsAreClean, AnswerTrue, Progressed
  <2>3. AnswersWereTrue
    BY <2>1 DEF AnswersWereTrue, AnswerTrue
  <2>4. LoginComesFirst
    BY <2>1 DEF LoginComesFirst, LoginKnown, IInv, ClientInv
  <2>5. QED
    BY <2>2, <2>3, <2>4
<1>2. QED
  BY <1>1, Invariance, TypeCorrect, PTL DEF SessionHonest

------------------------------------------------------------------------------
(* What add_paragraph lets through.  The invariant: the outcome is that of  *)
(* the request, whose texts are numbered.                                   *)

\* The first rejection is one, and everything before it passes.
LEMMA FirstIsFirst ==
  ASSUME NEW verdicts, DOMAIN verdicts \subseteq Nat, NEW otherwise
  PROVE  LET verdict == Gate!FirstRejection(verdicts, otherwise) IN
    \/ verdict = otherwise /\ \A i \in DOMAIN verdicts : verdicts[i] = "pass"
    \/ \E i \in DOMAIN verdicts :
         /\ verdict = verdicts[i] /\ verdicts[i] # "pass"
         /\ \A j \in DOMAIN verdicts : j < i => verdicts[j] = "pass"
<1> DEFINE rejected == {i \in DOMAIN verdicts : verdicts[i] # "pass"}
<1>1. CASE rejected = {}
  BY <1>1 DEF Gate!FirstRejection
<1>2. CASE rejected # {}
  <2>1. rejected \in SUBSET Nat
    OBVIOUS
  <2>2. \E n \in rejected : \A m \in rejected : n <= m
    BY <1>2, <2>1, Least
  <2> DEFINE i == CHOOSE n \in rejected : \A m \in rejected : n <= m
  <2>3. i \in rejected /\ \A m \in rejected : i <= m
    BY <2>2
  <2>4. Gate!FirstRejection(verdicts, otherwise) = verdicts[i]
    BY <1>2 DEF Gate!FirstRejection, Gate!Min
  <2> HIDE DEF i
  <2>5. \A j \in DOMAIN verdicts : j < i => verdicts[j] = "pass"
    BY <2>1, <2>3
  <2>6. QED
    BY <2>3, <2>4, <2>5
<1>3. QED
  BY <1>1, <1>2

LEMMA EmbeddedRight ==
  ASSUME NEW body, DOMAIN body.embedded \subseteq Nat
  PROVE  /\ Gate!EmbeddedCheck(body) \in {"pass", "keyword", "database"}
         /\ Gate!EmbeddedCheck(body) = "pass" <=>
              \A i \in DOMAIN body.embedded :
                ~Gate!Forbids(body.embedded[i]) /\ ~Gate!WritesElsewhere(body.embedded[i])
<1> DEFINE verdict(sql) == IF Gate!Forbids(sql) THEN "keyword"
                           ELSE IF Gate!WritesElsewhere(sql) THEN "database" ELSE "pass"
           verdicts == [i \in DOMAIN body.embedded |-> verdict(body.embedded[i])]
<1>1. Gate!EmbeddedCheck(body) = Gate!FirstRejection(verdicts, "pass")
  BY DEF Gate!EmbeddedCheck
<1>2. /\ DOMAIN verdicts = DOMAIN body.embedded
      /\ \A i \in DOMAIN body.embedded : verdicts[i] = verdict(body.embedded[i])
  OBVIOUS
<1>3. \A sql : /\ verdict(sql) \in {"pass", "keyword", "database"}
               /\ verdict(sql) = "pass" <=> ~Gate!Forbids(sql) /\ ~Gate!WritesElsewhere(sql)
  OBVIOUS
<1> HIDE DEF verdicts, verdict
<1>4. \/ /\ Gate!FirstRejection(verdicts, "pass") = "pass"
         /\ \A i \in DOMAIN verdicts : verdicts[i] = "pass"
      \/ \E i \in DOMAIN verdicts :
           Gate!FirstRejection(verdicts, "pass") = verdicts[i] /\ verdicts[i] # "pass"
  BY <1>2, FirstIsFirst
<1>5. QED
  BY <1>1, <1>2, <1>3, <1>4

\* What the hook answers, checker after checker.
LEMMA EnforcedRight ==
  ASSUME NEW body
  PROVE  Gate!Enforced(body) =
           IF Gate!AllowlistCheck(body) # "pass" THEN Gate!AllowlistCheck(body)
           ELSE IF Gate!ForbiddenCheck(body) # "pass" THEN Gate!ForbiddenCheck(body)
           ELSE IF Gate!TargetCheck(body) # "pass" THEN Gate!TargetCheck(body)
           ELSE IF Gate!EmbeddedCheck(body) # "pass" THEN Gate!EmbeddedCheck(body)
           ELSE IF Gate!ShellCheck(body) # "pass" THEN Gate!ShellCheck(body) ELSE "sent"
<1> DEFINE c == Gate!Checkers(body)
<1>1. /\ DOMAIN c = 1..5 /\ c[1] = Gate!AllowlistCheck(body) /\ c[2] = Gate!ForbiddenCheck(body)
      /\ c[3] = Gate!TargetCheck(body) /\ c[4] = Gate!EmbeddedCheck(body)
      /\ c[5] = Gate!ShellCheck(body)
  BY DEF Gate!Checkers
<1>2. Gate!Enforced(body) = Gate!FirstRejection(c, "sent")
  BY DEF Gate!Enforced
<1> HIDE DEF c
<1>3. \/ /\ Gate!FirstRejection(c, "sent") = "sent" /\ \A i \in DOMAIN c : c[i] = "pass"
      \/ \E i \in DOMAIN c :
           /\ Gate!FirstRejection(c, "sent") = c[i] /\ c[i] # "pass"
           /\ \A j \in DOMAIN c : j < i => c[j] = "pass"
  BY <1>1, FirstIsFirst
<1>4. CASE Gate!FirstRejection(c, "sent") = "sent" /\ \A i \in DOMAIN c : c[i] = "pass"
  BY <1>1, <1>2, <1>4
<1>5. ASSUME NEW i \in 1..5, Gate!FirstRejection(c, "sent") = c[i], c[i] # "pass",
             \A j \in 1..5 : j < i => c[j] = "pass"
      PROVE  Gate!Enforced(body) =
               IF c[1] # "pass" THEN c[1] ELSE IF c[2] # "pass" THEN c[2]
               ELSE IF c[3] # "pass" THEN c[3] ELSE IF c[4] # "pass" THEN c[4]
               ELSE IF c[5] # "pass" THEN c[5] ELSE "sent"
  BY <1>2, <1>5
<1>6. QED
  BY <1>1, <1>3, <1>4, <1>5

\* The verdict on a request, and what is looked at.
BodyRight(body) == DOMAIN body.embedded \subseteq Nat

LEMMA SentRight ==
  ASSUME NEW r, BodyRight(r.body)
  PROVE  (Gate!Outcome(r) = "sent") <=>
           /\ r.valid /\ r.body.shebang \in AllowedInterpreters \ {"none", "malformed"}
           /\ \A sql \in Gate!SqlTexts(r.body) : \A i \in DOMAIN sql : Gate!Acceptable(sql[i])
           /\ Gate!ShellCheck(r.body) = "pass"
<1> DEFINE clean(sql) == \A i \in DOMAIN sql : Gate!Acceptable(sql[i])
<1>1. \A sql : ~Gate!Forbids(sql) /\ ~Gate!WritesElsewhere(sql) <=> clean(sql)
  BY DEF Gate!Forbids, Gate!WritesElsewhere, Gate!Acceptable
<1>2. /\ Gate!EmbeddedCheck(r.body) \in {"pass", "keyword", "database"}
      /\ Gate!EmbeddedCheck(r.body) = "pass" <=> \A i \in DOMAIN r.body.embedded : clean(r.body.embedded[i])
  <2>1. /\ Gate!EmbeddedCheck(r.body) \in {"pass", "keyword", "database"}
        /\ Gate!EmbeddedCheck(r.body) = "pass" <=>
              \A i \in DOMAIN r.body.embedded :
                ~Gate!Forbids(r.body.embedded[i]) /\ ~Gate!WritesElsewhere(r.body.embedded[i])
    BY EmbeddedRight DEF BodyRight
  <2> HIDE DEF clean
  <2>2. QED
    BY <1>1, <2>1
<1>3. Gate!ForbiddenCheck(r.body) = "pass" /\ Gate!TargetCheck(r.body) = "pass"
        <=> (Gate!IsSql(r.body) => clean(r.body.sql))
  <2> HIDE DEF clean
  <2>1. QED
    BY <1>1 DEF Gate!ForbiddenCheck, Gate!TargetCheck
<1>4. (\A sql \in Gate!SqlTexts(r.body) : clean(sql)) <=>
        /\ Gate!IsSql(r.body) => clean(r.body.sql)
        /\ \A i \in DOMAIN r.body.embedded : clean(r.body.embedded[i])
  <2> HIDE DEF clean
  <2>1. QED
    BY DEF Gate!SqlTexts
<1> HIDE DEF clean
<1>5. /\ Gate!ForbiddenCheck(r.body) \in {"pass", "keyword"}
      /\ Gate!TargetCheck(r.body) \in {"pass", "database"}
      /\ Gate!ShellCheck(r.body) \in {"pass", "command"}
      /\ Gate!AllowlistCheck(r.body) \in {"pass", "interpreter"}
      /\ Gate!AllowlistCheck(r.body) = "pass" <=> r.body.shebang \in AllowedInterpreters
  BY DEF Gate!ForbiddenCheck, Gate!TargetCheck, Gate!ShellCheck, Gate!AllowlistCheck
<1>6. Gate!Enforced(r.body) = "sent" <=>
        /\ r.body.shebang \in AllowedInterpreters
        /\ \A sql \in Gate!SqlTexts(r.body) : clean(sql)
        /\ Gate!ShellCheck(r.body) = "pass"
  <2>1. Gate!Enforced(r.body) = "sent" <=>
          /\ Gate!AllowlistCheck(r.body) = "pass" /\ Gate!ForbiddenCheck(r.body) = "pass"
          /\ Gate!TargetCheck(r.body) = "pass" /\ Gate!EmbeddedCheck(r.body) = "pass"
          /\ Gate!ShellCheck(r.body) = "pass"
    BY <1>2, <1>5, EnforcedRight
  <2>2. QED
    BY <1>2, <1>3, <1>4, <1>5, <2>1
<1>7. QED
  BY <1>6 DEF Gate!Outcome, clean

LEMMA KeywordRight ==
  ASSUME NEW r, r.valid, Gate!IsSql(r.body), r.body.shebang \in AllowedInterpreters,
         r.body.shebang \notin {"none", "malformed"}, Gate!Forbids(r.body.sql)
  PROVE  Gate!Outcome(r) = "keyword"
<1>1. Gate!AllowlistCheck(r.body) = "pass" /\ Gate!ForbiddenCheck(r.body) = "keyword"
  BY DEF Gate!AllowlistCheck, Gate!ForbiddenCheck
<1>2. Gate!Enforced(r.body) = "keyword"
  BY <1>1, EnforcedRight
<1>3. QED
  BY <1>2 DEF Gate!Outcome

GateInv ==
  part = "gate" => /\ BodyRight(request.body)
                   /\ request.body.shebang \in BodyInterpreters \union {"none", "malformed"}
                   /\ outcome \in {"none", Gate!Outcome(request)}

\* A paragraph reaches Zeppelin exactly if its arguments are valid, its
\* interpreter is allowed and every statement in it may be run, and a statement
\* that is forbidden is refused as such: for any configuration and any number of
\* statements (ZeppelinNotebookService.add_paragraph).
THEOREM GateHolds == ToolsSpec => []BodiesGated
<1>1. ToolsInit => GateInv
  <2> SUFFICES ASSUME part = "gate", Gate!Init PROVE GateInv
    BY DEF ToolsInit, GateInv, ResultsUnused, NotebooksUnused
  <2>1. request.body \in Gate!Bodies(BodyInterpreters \cup {"none", "malformed"})
                    \cup Gate!Shells(BodyInterpreters \cup {"none", "malformed"})
        /\ outcome = "none"
    BY DEF Gate!Init, Gate!Requests
  <2>2. /\ request.body.shebang \in BodyInterpreters \cup {"none", "malformed"}
        /\ request.body.embedded \in Gate!BoundedSeq(Gate!Sql, 1)
    BY <2>1 DEF Gate!Bodies, Gate!Shells
  <2>3. DOMAIN request.body.embedded \subseteq Nat
    <3>1. PICK n \in 0..1 : request.body.embedded \in [1..n -> Gate!Sql]
      BY <2>2 DEF Gate!BoundedSeq, Gate!SeqOf
    <3>2. QED
      BY <3>1
  <2>4. QED
    BY <2>1, <2>2, <2>3 DEF GateInv, BodyRight
<1>2. GateInv /\ [ToolsNext]_allVars => GateInv'
  <2> SUFFICES ASSUME GateInv, [ToolsNext]_allVars, part' = "gate" PROVE GateInv'
    BY DEF GateInv
  <2>1. part = "gate" /\ (Gate!Next \/ UNCHANGED gateVars)
    BY DEF ToolsNext, CallStep, ResultStep, GateStep, NotebookStep, allVars
  <2>2. request' = request /\ outcome' \in {outcome, Gate!Outcome(request)}
    BY <2>1 DEF Gate!Next, Gate!AddParagraph, gateVars
  <2>3. QED
    BY <2>1, <2>2 DEF GateInv
<1>3. GateInv => BodiesGated
  <2> SUFFICES ASSUME GateInv, part = "gate"
               PROVE  Gate!SentIffAllowed /\ Gate!ForbiddenIsTheReason
    BY DEF BodiesGated
  <2>1. Gate!SentIffAllowed
    <3>1. (Gate!Outcome(request) = "sent") <=>
            /\ request.valid
            /\ request.body.shebang \in AllowedInterpreters \ {"none", "malformed"}
            /\ \A sql \in Gate!SqlTexts(request.body) :
                 \A i \in DOMAIN sql : Gate!Acceptable(sql[i])
            /\ Gate!ShellCheck(request.body) = "pass"
      BY SentRight DEF GateInv
    <3>2. request.body.shebang \in AllowedInterpreters \ {"none", "malformed"}
            <=> request.body.shebang \in AllowedInterpreters \cap BodyInterpreters
      <4>1. \A x \in {"none", "malformed"} : x \notin BodyInterpreters
        BY ToolsAssumption
      <4>2. QED
        BY <4>1 DEF GateInv
    <3>3. QED
      BY <3>1, <3>2 DEF GateInv, Gate!SentIffAllowed
  <2>2. Gate!ForbiddenIsTheReason
    <3>1. SUFFICES ASSUME outcome \notin {"none", "argument"}, Gate!IsSql(request.body),
                          request.body.shebang \in AllowedInterpreters, Gate!Forbids(request.body.sql)
                   PROVE  outcome = "keyword"
      BY DEF Gate!ForbiddenIsTheReason, Gate!Forbids
    <3>2. outcome = Gate!Outcome(request)
      BY <3>1 DEF GateInv
    <3>3. request.valid
      BY <3>1, <3>2 DEF Gate!Outcome
    <3>4. request.body.shebang \notin {"none", "malformed"}
      <4>1. \A x \in {"none", "malformed"} : x \notin AllowedInterpreters
        BY ToolsAssumption
      <4>2. QED
        BY <3>1, <4>1
    <3>5. QED
      BY <3>1, <3>2, <3>3, <3>4, KeywordRight
  <2>3. QED
    BY <2>1, <2>2
<1>4. QED
  BY <1>1, <1>2, <1>3, PTL DEF ToolsSpec

------------------------------------------------------------------------------
(* The tree of notebooks.  The invariant: the folders are complete, a node   *)
(* carries something read at its path, and nothing read there is later.      *)

Paths == Seq(Names) \ {<<>>}
Prefix(path, n) == SubSeq(path, 1, n)

LEMMA PrefixRight ==
  ASSUME NEW path \in Seq(Names), NEW n \in 0..Len(path)
  PROVE  /\ Prefix(path, n) \in Seq(Names) /\ Len(Prefix(path, n)) = n
         /\ n # 0 => Prefix(path, n) \in Paths
         /\ \A m \in 0..n : Prefix(Prefix(path, n), m) = Prefix(path, m)
<1>1. \A m \in 0..Len(path) : /\ SubSeq(path, 1, m) \in Seq(Names) /\ Len(SubSeq(path, 1, m)) = m
                             /\ SubSeq(path, 1, m) = [i \in 1..m |-> path[i]]
  OBVIOUS
<1>2. n # 0 => Prefix(path, n) # <<>>
  BY <1>1 DEF Prefix
<1>3. ASSUME NEW m \in 0..n PROVE Prefix(Prefix(path, n), m) = Prefix(path, m)
  <2> DEFINE q == SubSeq(path, 1, n)
  <2>1. q \in Seq(Names) /\ Len(q) = n /\ q = [i \in 1..n |-> path[i]]
    BY <1>1
  <2> HIDE DEF q
  <2>2. SubSeq(q, 1, m) = [i \in 1..m |-> q[i]]
    BY <2>1
  <2>3. \A i \in 1..m : q[i] = path[i]
    BY <2>1
  <2>4. SubSeq(path, 1, m) = [i \in 1..m |-> path[i]]
    BY <1>1
  <2>5. SubSeq(q, 1, m) = SubSeq(path, 1, m)
    BY <2>2, <2>3, <2>4
  <2>6. QED
    BY <2>5 DEF q, Prefix
<1>4. QED
  BY <1>1, <1>2, <1>3 DEF Prefix, Paths

LEMMA WholePath ==
  ASSUME NEW path \in Seq(Names)
  PROVE  Prefix(path, Len(path)) = path
  BY DEF Prefix

\* What is kept of a tree: whose nodes its sequence holds, and what they carry.
TreeTypes ==
  /\ DOMAIN listed = 1..Len(listed) /\ Len(listed) \in Nat /\ read \in 0..Len(listed)
  /\ \A i \in DOMAIN listed : listed[i].path \in Seq(Names)
  /\ tree.order \in Seq(Paths)
  /\ DOMAIN tree.id = Notebooks!NodesOf(tree)

Carries ==
  /\ \A p \in Notebooks!NodesOf(tree) :
       tree.id[p] # 0 => tree.id[p] \in Notebooks!Taken /\ listed[tree.id[p]].path = p
  /\ \A i \in Notebooks!Taken :
       /\ listed[i].path \in Notebooks!NodesOf(tree)
       /\ tree.id[listed[i].path] # 0 /\ i <= tree.id[listed[i].path]

TreeInv == part = "notebooks" => TreeTypes /\ Notebooks!FoldersComplete /\ Carries

\* The folders that are there are the ones at the start of a path.
LEMMA FoundRight ==
  ASSUME TreeTypes, Notebooks!FoldersComplete, NEW path \in Paths, NEW d,
         d = Notebooks!Found(tree, path)
  PROVE  /\ d \in 0..Len(path)
         /\ \A n \in 1..Len(path) : Prefix(path, n) \in Notebooks!NodesOf(tree) <=> n <= d
<1> DEFINE there == {n \in 1..Len(path) : Prefix(path, n) \in Notebooks!NodesOf(tree)}
           numbers == {0} \cup there
           short == {Len(path) - n : n \in numbers}
<1>1. Len(path) \in Nat /\ path \in Seq(Names)
  BY DEF Paths
<1>2. numbers \subseteq 0..Len(path)
  BY <1>1
<1>3. \E n \in numbers : \A m \in numbers : n >= m
  <2>1. short \in SUBSET Nat /\ short # {}
    BY <1>1, <1>2
  <2> HIDE DEF numbers
  <2>2. PICK k \in short : \A j \in short : k <= j
    BY <2>1, Least
  <2>3. PICK n \in numbers : k = Len(path) - n
    OBVIOUS
  <2>4. \A m \in numbers : k <= Len(path) - m
    BY <2>2
  <2>5. QED
    BY <1>1, <1>2, <2>3, <2>4
<1>4. d = CHOOSE n \in numbers : \A m \in numbers : n >= m
  BY DEF Notebooks!Found, Notebooks!Max, Prefix
<1>5. d \in numbers /\ \A m \in numbers : d >= m
  BY <1>3, <1>4
<1>6. ASSUME NEW n \in 1..Len(path), n <= d PROVE Prefix(path, n) \in Notebooks!NodesOf(tree)
  <2>1. d \in there
    BY <1>1, <1>5, <1>6
  <2>2. PICK i \in DOMAIN tree.order : tree.order[i] = Prefix(path, d)
    BY <2>1 DEF Notebooks!NodesOf, Notebooks!ToSet
  <2>3. d \in 1..Len(path) /\ Len(Prefix(path, d)) = d /\ Prefix(Prefix(path, d), n) = Prefix(path, n)
    BY <1>1, <1>6, <2>1, PrefixRight
  <2>4. CASE n = d
    BY <2>1, <2>4
  <2>5. CASE n # d
    <3>1. n \in 1..(Len(tree.order[i]) - 1)
      BY <1>1, <1>6, <2>2, <2>3, <2>5
    <3>2. PICK j \in 1..(i - 1) : tree.order[j] = SubSeq(tree.order[i], 1, n)
      BY <3>1 DEF Notebooks!FoldersComplete
    <3>3. tree.order[j] = Prefix(path, n) /\ j \in DOMAIN tree.order
      <4>1. tree.order[j] = Prefix(path, n)
        BY <2>2, <2>3, <3>2 DEF Prefix
      <4>2. DOMAIN tree.order = 1..Len(tree.order) /\ Len(tree.order) \in Nat
        BY DEF TreeTypes
      <4>3. QED
        BY <3>2, <4>1, <4>2
    <3>4. QED
      BY <3>3 DEF Notebooks!NodesOf, Notebooks!ToSet
  <2>6. QED
    BY <2>4, <2>5
<1>7. ASSUME NEW n \in 1..Len(path), Prefix(path, n) \in Notebooks!NodesOf(tree) PROVE n <= d
  BY <1>1, <1>2, <1>5, <1>7
<1>8. QED
  BY <1>2, <1>5, <1>6, <1>7


LEMMA FoldersStay ==
  ASSUME Notebooks!FoldersComplete, tree' = tree
  PROVE  Notebooks!FoldersComplete'
  BY DEF Notebooks!FoldersComplete

LEMMA FoldersRight ==
  ASSUME tree'.order \in Seq(Paths),
         \A i \in DOMAIN tree'.order : \A n \in 1..(Len(tree'.order[i]) - 1) :
           \E j \in 1..(i - 1) : tree'.order[j] = SubSeq(tree'.order[i], 1, n),
         \A i \in DOMAIN tree'.order : \A j \in 1..(i - 1) : tree'.order[j] # tree'.order[i]
  PROVE  Notebooks!FoldersComplete'
  BY DEF Notebooks!FoldersComplete, Paths

\* Reading an entry with a path: its missing folders come after those that are
\* there, from the top.
LEMMA InsertRight ==
  ASSUME TreeTypes, Notebooks!FoldersComplete, NEW path \in Paths, NEW id, id = read + 1,
         tree' = Notebooks!Insert(tree, path, id)
  PROVE  /\ tree'.order \in Seq(Paths)
         /\ DOMAIN tree'.id = Notebooks!NodesOf(tree')
         /\ Notebooks!NodesOf(tree) \subseteq Notebooks!NodesOf(tree')
         /\ path \in Notebooks!NodesOf(tree') /\ tree'.id[path] = id
         /\ \A p \in Notebooks!NodesOf(tree') : p # path =>
              tree'.id[p] = IF p \in Notebooks!NodesOf(tree) THEN tree.id[p] ELSE 0
         /\ Notebooks!FoldersComplete'
<1> DEFINE d == Notebooks!Found(tree, path)
           old == tree.order
           more == Notebooks!Missing(tree, path)
           nodes == Notebooks!NodesOf(tree)
           n == Len(path)
           m == Len(old)
<1>1. path \in Seq(Names) /\ n \in Nat /\ n # 0
  BY DEF Paths
<1>2. d \in 0..n /\ \A k \in 1..n : Prefix(path, k) \in nodes <=> k <= d
  BY FoundRight
<1>3. /\ old \in Seq(Paths) /\ m \in Nat /\ DOMAIN old = 1..m
      /\ nodes = {old[i] : i \in 1..m}
  BY DEF TreeTypes, Notebooks!NodesOf, Notebooks!ToSet
<1>4. /\ tree'.order = old \o more
      /\ tree'.id = [p \in nodes \cup Notebooks!Upto(path) |->
                       IF p = path THEN id ELSE IF p \in nodes THEN tree.id[p] ELSE 0]
  BY DEF Notebooks!Insert
<1>5. more = [k \in 1..(n - d) |-> Prefix(path, d + k)]
  BY DEF Notebooks!Missing, Prefix
<1>6. Notebooks!Upto(path) = {Prefix(path, k) : k \in 1..n}
  BY DEF Notebooks!Upto, Prefix
<1>7. Prefix(path, n) = path
  BY <1>1, WholePath
<1>8. \A k \in 1..n : /\ Prefix(path, k) \in Paths /\ Len(Prefix(path, k)) = k
                      /\ \A l \in 1..k : Prefix(Prefix(path, k), l) = Prefix(path, l)
  BY <1>1, PrefixRight
<1> HIDE DEF d, more, nodes, n, old
<1>9. more \in Seq(Paths) /\ Len(more) = n - d
  <2>1. \A k \in 1..(n - d) : d + k \in 1..n
    BY <1>1, <1>2
  <2>2. QED
    BY <1>1, <1>2, <1>5, <1>8, <2>1
<1> DEFINE new == old \o more
<1>10. /\ new \in Seq(Paths) /\ Len(new) = m + (n - d) /\ DOMAIN new = 1..(m + (n - d))
       /\ \A i \in 1..m : new[i] = old[i]
       /\ \A k \in 1..(n - d) : new[m + k] = Prefix(path, d + k)
  BY <1>1, <1>2, <1>3, <1>5, <1>9
<1> HIDE DEF new, m
<1>11. \A i \in 1..(m + (n - d)) : i \in 1..m \/ \E k \in 1..(n - d) : i = m + k
  <2> TAKE i \in 1..(m + (n - d))
  <2>1. i \notin 1..m => i - m \in 1..(n - d) /\ i = m + (i - m)
    BY <1>1, <1>2, <1>3
  <2>2. QED
    BY <2>1
<1>12. \A k \in 1..n : Prefix(path, k) \notin nodes => k - d \in 1..(n - d) /\ k = d + (k - d)
  BY <1>1, <1>2
<1>13. Notebooks!NodesOf(tree') = {new[i] : i \in 1..(m + (n - d))}
  BY <1>4, <1>10 DEF Notebooks!NodesOf, Notebooks!ToSet, new
<1>14. Notebooks!NodesOf(tree') = nodes \cup {Prefix(path, k) : k \in 1..n}
  <2>1. ASSUME NEW i \in 1..(m + (n - d)) PROVE new[i] \in nodes \cup {Prefix(path, k) : k \in 1..n}
    <3>1. CASE i \in 1..m
      BY <1>3, <1>10, <3>1
    <3>2. ASSUME NEW k \in 1..(n - d), i = m + k PROVE new[i] \in {Prefix(path, l) : l \in 1..n}
      <4>1. d + k \in 1..n
        BY <1>1, <1>2
      <4>2. QED
        BY <1>10, <3>2, <4>1
    <3>3. QED
      BY <1>11, <3>1, <3>2
  <2>2. \A i \in 1..m : i \in 1..(m + (n - d)) /\ new[i] = old[i]
    BY <1>1, <1>2, <1>3, <1>10
  <2>3. ASSUME NEW k \in 1..n, Prefix(path, k) \notin nodes
        PROVE  \E i \in 1..(m + (n - d)) : new[i] = Prefix(path, k)
    <3>1. k - d \in 1..(n - d) /\ k = d + (k - d)
      BY <1>12, <2>3
    <3>2. new[m + (k - d)] = Prefix(path, k)
      BY <1>10, <3>1
    <3>3. m + (k - d) \in 1..(m + (n - d))
      BY <1>1, <1>2, <1>3, <3>1
    <3>4. QED
      BY <3>2, <3>3
  <2>4. QED
    BY <1>3, <1>13, <2>1, <2>2, <2>3
<1>15. ASSUME NEW i \in 1..(m + (n - d))
       PROVE  /\ \A l \in 1..(Len(new[i]) - 1) : \E j \in 1..(i - 1) : new[j] = Prefix(new[i], l)
              /\ \A j \in 1..(i - 1) : new[j] # new[i]
  <2>1. CASE i \in 1..m
    <3>1. /\ \A l \in 1..(Len(old[i]) - 1) : \E j \in 1..(i - 1) : old[j] = Prefix(old[i], l)
          /\ \A j \in 1..(i - 1) : old[j] # old[i]
      BY <1>3, <2>1 DEF Notebooks!FoldersComplete, Prefix, old
    <3>2. new[i] = old[i] /\ \A j \in 1..(i - 1) : new[j] = old[j]
      BY <1>3, <1>10, <2>1
    <3>3. QED
      BY <3>1, <3>2
  <2>2. ASSUME NEW k \in 1..(n - d), i = m + k
        PROVE  /\ \A l \in 1..(Len(new[i]) - 1) :
                    \E j \in 1..(i - 1) : new[j] = Prefix(new[i], l)
               /\ \A j \in 1..(i - 1) : new[j] # new[i]
    <3>1. d + k \in 1..n /\ ~(d + k <= d) /\ d \in Nat /\ k \in Nat
      BY <1>1, <1>2
    <3>2. new[i] = Prefix(path, d + k) /\ Len(new[i]) = d + k /\ new[i] \notin nodes
      BY <1>2, <1>8, <1>10, <2>2, <3>1
    <3>3. ASSUME NEW l \in 1..(Len(new[i]) - 1)
          PROVE  \E j \in 1..(i - 1) : new[j] = Prefix(new[i], l)
      <4>1. l \in 1..n /\ l \in 1..(d + k) /\ l < d + k
        BY <1>1, <3>1, <3>2
      <4>2. Prefix(new[i], l) = Prefix(path, l)
        BY <1>8, <3>1, <3>2, <4>1
      <4>3. CASE l <= d
        <5>1. Prefix(path, l) \in nodes
          BY <1>2, <4>1, <4>3
        <5>2. PICK j \in 1..m : old[j] = Prefix(path, l)
          BY <1>3, <5>1
        <5>3. j \in 1..(i - 1) /\ new[j] = old[j]
          BY <1>3, <1>10, <2>2, <3>1
        <5>4. QED
          BY <4>2, <5>2, <5>3
      <4>4. CASE ~(l <= d)
        <5>1. l - d \in 1..(n - d) /\ d + (l - d) = l /\ m + (l - d) \in 1..(i - 1)
          BY <1>1, <1>3, <2>2, <3>1, <4>1, <4>4
        <5>2. new[m + (l - d)] = Prefix(path, l)
          BY <1>10, <5>1
        <5>3. QED
          BY <4>2, <5>1, <5>2
      <4>5. QED
        BY <4>3, <4>4
    <3>4. ASSUME NEW j \in 1..(i - 1) PROVE new[j] # new[i]
      <4>1. CASE j \in 1..m
        BY <1>3, <1>10, <3>2, <4>1
      <4>2. ASSUME NEW l \in 1..(n - d), j = m + l PROVE new[j] # new[i]
        <5>1. d + l \in 1..n /\ d + l # d + k
          <6>1. m + l <= (m + k) - 1 /\ m \in Nat /\ l \in Nat
            BY <1>3, <2>2, <4>2
          <6>2. l < k
            BY <3>1, <6>1
          <6>3. d + l \in 1..n
            BY <1>1, <3>1
          <6>4. QED
            BY <3>1, <6>1, <6>2, <6>3
        <5>2. Len(new[j]) = d + l
          BY <1>8, <1>10, <4>2, <5>1
        <5>3. QED
          BY <3>2, <5>1, <5>2
      <4>3. j \in 1..(m + (n - d))
        BY <1>1, <1>2, <1>3, <2>2
      <4>4. QED
        BY <1>11, <4>1, <4>2, <4>3
    <3>5. QED
      BY <3>3, <3>4
  <2>3. QED
    BY <1>11, <2>1, <2>2
<1>16. Notebooks!FoldersComplete'
  <2>1. tree'.order = new
    BY <1>4 DEF new
  <2>2. \A i \in DOMAIN tree'.order : \A l \in 1..(Len(tree'.order[i]) - 1) :
          \E j \in 1..(i - 1) : tree'.order[j] = SubSeq(tree'.order[i], 1, l)
    <3> SUFFICES ASSUME NEW i \in 1..(m + (n - d)), NEW l \in 1..(Len(new[i]) - 1)
                 PROVE  \E j \in 1..(i - 1) : new[j] = SubSeq(new[i], 1, l)
      BY <1>10, <2>1
    <3>1. QED
      BY <1>15 DEF Prefix
  <2>3. \A i \in DOMAIN tree'.order : \A j \in 1..(i - 1) : tree'.order[j] # tree'.order[i]
    BY <1>10, <1>15, <2>1
  <2>4. tree'.order \in Seq(Paths)
    BY <1>10, <2>1
  <2>5. QED
    BY <2>2, <2>3, <2>4, FoldersRight
<1>17. path \in Notebooks!NodesOf(tree')
  BY <1>1, <1>7, <1>14
<1>18. /\ DOMAIN tree'.id = Notebooks!NodesOf(tree')
       /\ \A p \in Notebooks!NodesOf(tree') :
            tree'.id[p] = IF p = path THEN id ELSE IF p \in nodes THEN tree.id[p] ELSE 0
  BY <1>4, <1>6, <1>14
<1>19. tree'.order \in Seq(Paths) /\ nodes \subseteq Notebooks!NodesOf(tree')
  BY <1>4, <1>10, <1>14 DEF new
<1>20. QED
  BY <1>16, <1>17, <1>18, <1>19 DEF nodes

LEMMA TreeInit ==
  ASSUME Notebooks!Init
  PROVE  TreeTypes /\ Notebooks!FoldersComplete /\ Carries
<1>1. /\ listed \in Notebooks!BoundedSeq(Notebooks!Entries, ListedAtMost) /\ read = 0
      /\ tree.order = <<>> /\ DOMAIN tree.id = {}
  BY DEF Notebooks!Init
<1>2. PICK k \in 0..ListedAtMost : listed \in [1..k -> Notebooks!Entries]
  BY <1>1 DEF Notebooks!BoundedSeq, Notebooks!SeqOf
<1>3. DOMAIN listed = 1..k /\ Len(listed) = k /\ k \in Nat
  BY <1>2, ToolsAssumption
<1>4. ASSUME NEW i \in DOMAIN listed PROVE listed[i].path \in Seq(Names)
  <2>1. listed[i].path \in Notebooks!BoundedSeq(Names, PathDepth)
    BY <1>2, <1>4 DEF Notebooks!Entries, Notebooks!Paths
  <2>2. PICK l \in 0..PathDepth : listed[i].path \in [1..l -> Names]
    BY <2>1 DEF Notebooks!BoundedSeq, Notebooks!SeqOf
  <2>3. QED
    BY <2>2, ToolsAssumption
<1>5. Notebooks!NodesOf(tree) = {} /\ Notebooks!Taken = {}
  BY <1>1 DEF Notebooks!NodesOf, Notebooks!ToSet, Notebooks!Taken
<1>6. QED
  BY <1>1, <1>3, <1>4, <1>5 DEF TreeTypes, Carries, Notebooks!FoldersComplete

LEMMA TreeStep ==
  ASSUME TreeTypes, Notebooks!FoldersComplete, Carries, Notebooks!Next
  PROVE  TreeTypes' /\ Notebooks!FoldersComplete' /\ Carries'
<1> DEFINE entry == listed[read + 1]
<1>1. read < Len(listed) /\ read' = read + 1 /\ listed' = listed
  BY DEF Notebooks!Next, Notebooks!ReadEntry
<1>2. read + 1 \in DOMAIN listed /\ read \in Nat /\ entry.path \in Seq(Names)
  BY <1>1 DEF TreeTypes
<1>3. CASE ~(entry.readable /\ entry.path # <<>>)
  <2>1. tree' = tree
    BY <1>3 DEF Notebooks!Next, Notebooks!ReadEntry
  <2>2. Notebooks!Taken' = Notebooks!Taken
    BY <1>1, <1>2, <1>3 DEF Notebooks!Taken
  <2>3. Notebooks!NodesOf(tree') = Notebooks!NodesOf(tree)
    BY <2>1
  <2>4. TreeTypes'
    BY <1>1, <1>2, <2>1, <2>3 DEF TreeTypes
  <2>5. Notebooks!FoldersComplete'
    BY <2>1, FoldersStay
  <2>6. Carries'
    BY <1>1, <2>1, <2>2, <2>3 DEF Carries
  <2>7. QED
    BY <2>4, <2>5, <2>6
<1>4. CASE entry.readable /\ entry.path # <<>>
  <2> DEFINE path == entry.path
             id == read + 1
             nodes == Notebooks!NodesOf(tree)
             nodes2 == Notebooks!NodesOf(tree')
  <2>1. path \in Paths /\ tree' = Notebooks!Insert(tree, path, id)
    BY <1>2, <1>4 DEF Notebooks!Next, Notebooks!ReadEntry, Paths
  <2>2. Notebooks!Taken' = Notebooks!Taken \cup {id}
    BY <1>1, <1>2, <1>4 DEF Notebooks!Taken
  <2>3. id # 0 /\ listed'[id].path = path
    BY <1>1, <1>2
  <2> HIDE DEF path, id
  <2>4. /\ tree'.order \in Seq(Paths) /\ DOMAIN tree'.id = nodes2
        /\ nodes \subseteq nodes2 /\ path \in nodes2 /\ tree'.id[path] = id
        /\ \A p \in nodes2 : p # path => tree'.id[p] = IF p \in nodes THEN tree.id[p] ELSE 0
        /\ Notebooks!FoldersComplete'
    BY <2>1, InsertRight DEF id
  <2>5. ASSUME NEW p \in nodes2, tree'.id[p] # 0
        PROVE  tree'.id[p] \in Notebooks!Taken' /\ listed'[tree'.id[p]].path = p
    <3>1. CASE p = path
      BY <2>2, <2>3, <2>4, <3>1
    <3>2. CASE p # path
      BY <1>1, <2>2, <2>4, <2>5, <3>2 DEF Carries
    <3>3. QED
      BY <3>1, <3>2
  <2>6. ASSUME NEW i \in Notebooks!Taken'
        PROVE  /\ listed'[i].path \in nodes2
               /\ tree'.id[listed'[i].path] # 0 /\ i <= tree'.id[listed'[i].path]
    <3>4. i <= id
      BY <1>1, <1>2, <2>6 DEF Notebooks!Taken, id
    <3>1. CASE listed'[i].path = path
      BY <2>3, <2>4, <3>1, <3>4
    <3>2. CASE listed'[i].path # path
      BY <1>1, <2>2, <2>3, <2>4, <2>6, <3>2 DEF Carries
    <3>3. QED
      BY <3>1, <3>2
  <2>7. TreeTypes'
    BY <1>1, <1>2, <2>4 DEF TreeTypes
  <2>8. Carries'
    BY <2>5, <2>6 DEF Carries
  <2>9. QED
    BY <2>4, <2>7, <2>8
<1>5. QED
  BY <1>3, <1>4

LEMMA TreeRight ==
  ASSUME TreeTypes, Carries
  PROVE  Notebooks!LastNotebookFound
<1> SUFFICES ASSUME NEW p \in Notebooks!NodesOf(tree)
             PROVE  tree.id[p] =
                      Notebooks!Max({0} \cup {i \in Notebooks!Taken : listed[i].path = p})
  BY DEF Notebooks!LastNotebookFound, Carries
<1> DEFINE sharing == {0} \cup {i \in Notebooks!Taken : listed[i].path = p}
           last == tree.id[p]
<1>1. sharing \subseteq Nat
  BY DEF Notebooks!Taken, TreeTypes
<1>2. last \in sharing
  BY DEF Carries
<1>3. \A i \in sharing : last >= i
  <2>1. ASSUME NEW i \in Notebooks!Taken, listed[i].path = p PROVE last >= i
    <3>1. i <= tree.id[listed[i].path]
      BY <2>1 DEF Carries
    <3>2. i \in Nat /\ last \in Nat
      BY <1>1, <1>2, <2>1
    <3>3. QED
      BY <2>1, <3>1, <3>2
  <2>2. QED
    BY <1>1, <1>2, <2>1
<1> HIDE DEF sharing, last
<1>4. \A k \in sharing : (\A i \in sharing : k >= i) => k = last
  BY <1>1, <1>2, <1>3
<1>5. Notebooks!Max(sharing) = last
  BY <1>2, <1>3, <1>4 DEF Notebooks!Max
<1>6. QED
  BY <1>5 DEF sharing, last

\* However many notebooks are listed, in whatever order and however deep: every
\* listed path is in the tree below all its folders and leads to the last
\* notebook listed with it (build_notebook_tree).
THEOREM TreeHolds == ToolsSpec => []NotebooksListed
<1>1. ToolsInit => TreeInv
  BY TreeInit DEF ToolsInit, TreeInv, ResultsUnused, GateUnused
<1>2. TreeInv /\ [ToolsNext]_allVars => TreeInv'
  <2> SUFFICES ASSUME TreeInv, [ToolsNext]_allVars, part' = "notebooks"
               PROVE  TreeTypes' /\ Notebooks!FoldersComplete' /\ Carries'
    BY DEF TreeInv
  <2>1. part = "notebooks" /\ (Notebooks!Next \/ UNCHANGED notebookVars)
    BY DEF ToolsNext, CallStep, ResultStep, GateStep, NotebookStep, allVars
  <2>2. CASE Notebooks!Next
    BY <2>1, <2>2, TreeStep DEF TreeInv
  <2>3. CASE UNCHANGED notebookVars
    <3>1. listed' = listed /\ read' = read /\ tree' = tree
      BY <2>3 DEF notebookVars
    <3>2. Notebooks!Taken' = Notebooks!Taken
      BY <3>1 DEF Notebooks!Taken
    <3>3. Notebooks!NodesOf(tree') = Notebooks!NodesOf(tree)
      BY <3>1
    <3>4. TreeTypes /\ Notebooks!FoldersComplete /\ Carries
      BY <2>1 DEF TreeInv
    <3>5. TreeTypes'
      BY <3>1, <3>3, <3>4 DEF TreeTypes
    <3>6. Notebooks!FoldersComplete'
      BY <3>1, <3>4, FoldersStay
    <3>7. Carries'
      BY <3>1, <3>2, <3>3, <3>4 DEF Carries
    <3>8. QED
      BY <3>5, <3>6, <3>7
  <2>4. QED
    BY <2>1, <2>2, <2>3
<1>3. TreeInv => NotebooksListed
  BY TreeRight DEF TreeInv, NotebooksListed
<1>4. QED
  BY <1>1, <1>2, <1>3, PTL DEF ToolsSpec

-----------------------------------------------------------------------------
(* The result of a paragraph.  The invariant: an answer is that of the      *)
(* paragraph that Zeppelin holds, which it holds throughout.                *)

ResultInv ==
  part = "results" => /\ held \in Results!Paragraphs
                      /\ answer \in {Results!Failure("none"), Results!Answer(held)}

\* The bytes of no character, and of one character more.
LEMMA BytesCount ==
  ASSUME NEW text \in Seq(Widths)
  PROVE  /\ Results!Bytes(Results!Prefix(text, 0)) = 0
         /\ \A k \in 0..Len(text) : Results!Bytes(Results!Prefix(text, k)) \in Nat
         /\ \A k \in 0..(Len(text) - 1) :
              Results!Bytes(Results!Prefix(text, k + 1))
                = Results!Bytes(Results!Prefix(text, k)) + text[k + 1]
<1>1. \A t, S : Results!SumFunctionOnSet(t, S) = SumFunctionOnSet(t, S)
  BY DEF Results!SumFunctionOnSet, Results!FoldFunctionOnSet, Results!MapThenFoldSet,
         SumFunctionOnSet, FoldFunctionOnSet, MapThenFoldSet
<1>0. \A i \in 1..Len(text) : text[i] \in Nat
  <2>1. \A i \in 1..Len(text) : text[i] \in Widths
    OBVIOUS
  <2>2. QED
    BY <2>1, ResultsAssumption
<1>2. ASSUME NEW k \in 0..Len(text)
      PROVE  /\ Results!Bytes(Results!Prefix(text, k)) = SumFunctionOnSet(text, 1..k)
             /\ SumFunctionOnSet(text, 1..k) \in Nat
  <2> DEFINE p == SubSeq(text, 1, k)
  <2>1. Len(p) = k /\ \A i \in 1..k : p[i] = text[i]
    <3>1. 1 \in 1..(Len(text) + 1)
      OBVIOUS
    <3>2. /\ Len(p) = IF 1 > k THEN 0 ELSE k - 1 + 1
          /\ \A i \in 1..Len(p) : p[i] = text[1 + i - 1]
      BY <3>1, PartItems
    <3> HIDE DEF p
    <3>3. QED
      BY <3>2
  <2>2. IsFiniteSet(1..k)
    BY FS_Interval
  <2>3. Results!Bytes(Results!Prefix(text, k)) = SumFunctionOnSet(p, 1..k)
    BY <1>1, <2>1 DEF Results!Bytes, Results!Prefix
  <2>4. \A i \in 1..k : text[i] \in Nat
    BY <1>0
  <2> HIDE DEF p
  <2>5. SumFunctionOnSet(p, 1..k) = SumFunctionOnSet(text, 1..k)
    BY <2>1, <2>2, SumSame
  <2>6. SumFunctionOnSet(text, 1..k) \in Nat
    BY <2>2, <2>4, SumType
  <2>7. QED
    BY <2>3, <2>5, <2>6
<1>3. Results!Bytes(Results!Prefix(text, 0)) = 0
  <2>1. 1..0 = {} /\ 0 \in 0..Len(text)
    OBVIOUS
  <2>2. SumFunctionOnSet(text, 1..0) = 0
    BY <2>1, SumEmpty
  <2>3. QED
    BY <1>2, <2>1, <2>2
<1>4. ASSUME NEW k \in 0..(Len(text) - 1)
      PROVE  SumFunctionOnSet(text, 1..(k + 1)) = SumFunctionOnSet(text, 1..k) + text[k + 1]
  <2> DEFINE T == 1..k
             x == k + 1
  <2>1. x \notin T /\ 1..(k + 1) = T \union {x} /\ \A z \in T \union {x} : text[z] \in Nat
    BY <1>0
  <2>2. IsFiniteSet(T)
    BY FS_Interval
  <2>3. SumFunctionOnSet(text, T) \in Nat
    BY <2>1, <2>2, SumType
  <2> HIDE DEF T, x
  <2>4. SumFunctionOnSet(text, T \union {x}) = text[x] + SumFunctionOnSet(text, T)
    BY <2>1, <2>2, SumWith
  <2>5. text[x] \in Nat
    BY <2>1
  <2> DEFINE now == SumFunctionOnSet(text, T)
             c == text[x]
  <2>6. now \in Nat /\ c \in Nat
    BY <2>3, <2>5
  <2> HIDE DEF now, c
  <2>7. c + now = now + c
    BY <2>6
  <2>8. SumFunctionOnSet(text, 1..(k + 1)) = now + c
    BY <2>1, <2>4, <2>7 DEF now, c
  <2>9. QED
    BY <2>8 DEF now, c, T, x
<1>5. ASSUME NEW k \in 0..(Len(text) - 1)
      PROVE  Results!Bytes(Results!Prefix(text, k + 1))
               = Results!Bytes(Results!Prefix(text, k)) + text[k + 1]
  <2>1. k \in 0..Len(text) /\ k + 1 \in 0..Len(text)
    OBVIOUS
  <2>2. QED
    BY <1>2, <1>4, <2>1
<1>6. QED
  BY <1>2, <1>3, <1>5

\* The longest piece from the start that fits.
LEMMA TruncatedRight ==
  ASSUME NEW text \in Seq(Widths)
  PROVE  LET piece == Results!Truncate(text) IN
           /\ Results!IsPrefix(piece, text)
           /\ Results!Bytes(piece) <= MaxResultBytes
           /\ piece # text => Results!Bytes(piece) + text[Len(piece) + 1] > MaxResultBytes
           /\ ~Results!Cut(text) => piece = text
<1> DEFINE B(k) == Results!Bytes(Results!Prefix(text, k))
           fits == {k \in 0..Len(text) : B(k) <= MaxResultBytes}
           k == Results!Max(fits)
           piece == Results!Prefix(text, k)
<1>1. /\ B(0) = 0 /\ \A i \in 0..Len(text) : B(i) \in Nat
      /\ \A i \in 0..(Len(text) - 1) : B(i + 1) = B(i) + text[i + 1]
  BY BytesCount
<1>2. Results!Truncate(text) = piece
  BY DEF Results!Truncate
<1>3. Len(text) \in Nat /\ MaxResultBytes \in Nat
  BY ResultsAssumption
<1>4. Results!Prefix(text, Len(text)) = text
  BY DEF Results!Prefix
<1> HIDE DEF B
<1>5. k \in fits /\ \A i \in fits : k >= i
  <2> DEFINE short == {Len(text) - i : i \in fits}
  <2>1. short \in SUBSET Nat
    OBVIOUS
  <2>2. 0 \in fits
    BY <1>1, <1>3
  <2>3. short # {}
    BY <2>2
  <2>4. \E n \in short : \A m \in short : n <= m
    BY <2>1, <2>3, Least
  <2>5. PICK i \in fits : \A j \in fits : Len(text) - i <= Len(text) - j
    BY <2>4
  <2>6. \A j \in fits : i >= j
    BY <1>3, <2>5
  <2> HIDE DEF fits
  <2>7. QED
    BY <2>5, <2>6 DEF Results!Max
<1> HIDE DEF k
<1>6. k \in 0..Len(text) /\ B(k) <= MaxResultBytes
  BY <1>5
<1>7. /\ piece \in Seq(Widths) /\ Len(piece) = k
      /\ \A i \in 1..k : piece[i] = text[i]
  <2>1. 1 \in 1..(Len(text) + 1)
    BY <1>3
  <2>2. /\ piece \in Seq(Widths) /\ Len(piece) = IF 1 > k THEN 0 ELSE k - 1 + 1
        /\ \A i \in 1..Len(piece) : piece[i] = text[1 + i - 1]
    BY <1>6, <2>1, PartItems DEF Results!Prefix
  <2> HIDE DEF piece
  <2>3. QED
    BY <1>6, <2>2
<1>8. Results!IsPrefix(piece, text)
  <2>1. SubSeq(piece, 1, k) = piece
    <3> HIDE DEF piece
    <3>1. QED
      BY <1>7
  <2>2. SubSeq(text, 1, k) = piece
    BY DEF Results!Prefix
  <2> HIDE DEF piece
  <2>3. Len(piece) <= Len(text)
    BY <1>3, <1>6, <1>7
  <2>4. QED
    BY <1>7, <2>1, <2>2, <2>3 DEF Results!IsPrefix
<1>9. Results!Bytes(piece) = B(k)
  BY DEF B
<1> DEFINE n == Len(text)
<1>10. n \in Nat /\ k \in 0..n
  BY <1>3, <1>6
<1>11. piece # text => B(k) + text[k + 1] > MaxResultBytes
  <2> SUFFICES ASSUME piece # text PROVE B(k) + text[k + 1] > MaxResultBytes
    OBVIOUS
  <2>1. k # Len(text)
    BY <1>4
  <2>2. k \in 0..(Len(text) - 1) /\ k + 1 \in 0..Len(text)
    BY <1>3, <1>6, <2>1
  <2>3. k + 1 \notin fits
    <3> HIDE DEF fits
    <3>1. QED
      BY <1>5, <1>6
  <2>4. ~(B(k + 1) <= MaxResultBytes)
    BY <2>2, <2>3
  <2>5. B(k + 1) = B(k) + text[k + 1] /\ B(k + 1) \in Nat
    BY <1>1, <2>2
  <2> HIDE DEF fits
  <2>6. QED
    BY <1>3, <2>4, <2>5
<1>12. ~Results!Cut(text) => piece = text
  <2> SUFFICES ASSUME ~Results!Cut(text) PROVE k = Len(text)
    BY <1>4
  <2>1. B(Len(text)) \in Nat /\ ~(B(Len(text)) > MaxResultBytes)
    BY <1>1, <1>3, <1>4 DEF Results!Cut, B
  <2>2. Len(text) \in fits
    BY <1>3, <2>1
  <2> HIDE DEF fits
  <2>3. QED
    BY <1>3, <1>5, <1>6, <2>2
<1>13. QED
  BY <1>2, <1>6, <1>7, <1>8, <1>9, <1>11, <1>12

\* What is given are the messages that are objects, in their order.
LEMMA GivenRight ==
  ASSUME NEW p \in Results!Paragraphs
  PROVE  LET given == Results!Picked(p.msg, Results!Objects) IN
           /\ Len(given) \in Nat /\ DOMAIN given = 1..Len(given)
           /\ \A i \in DOMAIN given : /\ given[i].data \in Seq(Widths)
                                      /\ \E j \in DOMAIN p.msg : given[i] = p.msg[j]
<1> DEFINE R == {p.msg[j] : j \in DOMAIN p.msg}
           given == Results!Picked(p.msg, Results!Objects)
<1>1. p.msg \in Seq(R)
  <2>1. PICK m \in 0..MaxItems : p.msg \in [1..m -> Results!Messages]
    BY DEF Results!Paragraphs, Results!BoundedSeq, Results!SeqOf
  <2>2. m \in Nat
    BY <2>1, ResultsAssumption
  <2> DEFINE msg == p.msg
  <2>3. msg \in [1..m -> Results!Messages]
    BY <2>1
  <2>4. DOMAIN msg = 1..m /\ \A j \in 1..m : msg[j] \in R
    BY <2>3
  <2>5. msg = [j \in 1..m |-> msg[j]]
    BY <2>3
  <2> HIDE DEF R, msg
  <2>6. msg \in [1..m -> R]
    BY <2>4, <2>5
  <2>7. QED
    BY <2>2, <2>6 DEF msg
<1>2. given = Picked(p.msg, Results!Objects)
  BY DEF Results!Picked, Picked
<1> HIDE DEF given
<1>3. given \in Seq(R \intersect Results!Objects)
  <2> HIDE DEF R
  <2>1. QED
    BY <1>1, <1>2, PickedType
<1>4. \A o \in Results!Objects : o.data \in Seq(Widths)
  <2> SUFFICES ASSUME NEW text \in Results!Texts PROVE text \in Seq(Widths)
    BY DEF Results!Objects
  <2>1. PICK m \in 0..MaxChars : text \in [1..m -> Widths]
    BY DEF Results!Texts, Results!BoundedSeq, Results!SeqOf
  <2>2. m \in Nat
    BY <2>1, ResultsAssumption
  <2>3. QED
    BY <2>1, <2>2
<1>5. \A r \in R : \E j \in DOMAIN p.msg : r = p.msg[j]
  OBVIOUS
<1> HIDE DEF R
<1>6. /\ Len(given) \in Nat /\ DOMAIN given = 1..Len(given)
      /\ \A i \in DOMAIN given : given[i] \in R \intersect Results!Objects
  BY <1>3
<1>7. QED
  BY <1>4, <1>5, <1>6 DEF given

\* An answer is right about the paragraph it is about.
LEMMA AnswerRight ==
  ASSUME NEW p \in Results!Paragraphs, held = p, answer = Results!Answer(p)
  PROVE  Results!OutputsFit /\ Results!TruncatedIsHonest /\ Results!FailuresExplained
<1> DEFINE given == Results!Picked(p.msg, Results!Objects)
<1> SUFFICES ASSUME Results!OK
             PROVE  Results!OutputsFit /\ Results!TruncatedIsHonest /\ Results!FailuresExplained
  BY DEF Results!OutputsFit, Results!TruncatedIsHonest, Results!FailuresExplained
<1>1. \/ /\ p.status = "ERROR" /\ answer = Results!Failed(p)
      \/ /\ p.status = "FINISHED"
         /\ answer = Results!Result("OK", "FINISHED", Results!Outputs(p), "none",
                                    Results!SomethingCut(p))
  BY DEF Results!OK, Results!Answer, Results!Failure, Results!Result
<1>2. /\ answer.outputs = Results!Outputs(p)
      /\ answer.truncated = Results!SomethingCut(p)
      /\ (answer.status = "ERROR") <=> (answer.error # "none")
  BY <1>1 DEF Results!Failed, Results!Result
<1>3. Results!Given = given
  BY DEF Results!Given
<1>4. Results!Outputs(p) = [i \in DOMAIN given |->
                              [kind |-> Results!Kind(given[i].kind),
                               text |-> Results!Truncate(given[i].data)]]
  BY DEF Results!Outputs
<1>5. /\ Len(given) \in Nat /\ DOMAIN given = 1..Len(given)
      /\ \A i \in DOMAIN given : /\ given[i].data \in Seq(Widths)
                                 /\ \E j \in DOMAIN p.msg : given[i] = p.msg[j]
  BY GivenRight
<1> HIDE DEF given
<1>6. /\ Len(answer.outputs) = Len(given)
      /\ \A i \in DOMAIN given : answer.outputs[i].text = Results!Truncate(given[i].data)
  <2>1. Len(Results!Outputs(p)) = Len(given)
    BY <1>4, <1>5
  <2>2. \A i \in DOMAIN given : Results!Outputs(p)[i].text = Results!Truncate(given[i].data)
    BY <1>4
  <2>3. QED
    BY <1>2, <2>1, <2>2
<1>7. Results!OutputsFit
  <2> SUFFICES ASSUME NEW i \in DOMAIN given
               PROVE  LET whole == given[i].data
                          text == answer.outputs[i].text
                      IN  /\ Results!IsPrefix(text, whole)
                          /\ Results!Bytes(text) <= MaxResultBytes
                          /\ text # whole =>
                               Results!Bytes(text) + whole[Len(text) + 1] > MaxResultBytes
    BY <1>3, <1>6 DEF Results!OutputsFit
  <2>1. given[i].data \in Seq(Widths) /\ answer.outputs[i].text = Results!Truncate(given[i].data)
    BY <1>5, <1>6
  <2>2. QED
    BY <2>1, TruncatedRight
<1>8. Results!TruncatedIsHonest
  <2> SUFFICES ASSUME ~answer.truncated, NEW i \in DOMAIN given
               PROVE  answer.outputs[i].text = given[i].data
    BY <1>3 DEF Results!TruncatedIsHonest
  <2>1. \A j \in DOMAIN p.msg : ~Results!Cut(p.msg[j].data)
    BY <1>2 DEF Results!SomethingCut
  <2>2. ~Results!Cut(given[i].data) /\ given[i].data \in Seq(Widths)
    BY <1>5, <2>1
  <2>3. Results!Truncate(given[i].data) = given[i].data
    BY <2>2, TruncatedRight
  <2>4. QED
    BY <1>6, <2>3
<1>9. Results!FailuresExplained
  BY <1>2 DEF Results!FailuresExplained
<1>10. QED
  BY <1>7, <1>8, <1>9

\* The outputs of a result are what Zeppelin gave, in its order, each the
\* longest piece of it that fits max_result_bytes and ends with a character; a
\* result that does not say it is truncated is complete, and one says ERROR
\* exactly if it comes with an error: for any limits, widths of characters and
\* number of outputs (get_paragraph_result).
THEOREM ResultsRight == ToolsSpec => []ResultsHonest
<1>1. ToolsInit => ResultInv
  <2> SUFFICES ASSUME part = "results", Results!Init PROVE ResultInv
    BY DEF ToolsInit, ResultInv, GateUnused, NotebooksUnused
  <2>1. QED
    BY DEF Results!Init, ResultInv
<1>2. ResultInv /\ [ToolsNext]_allVars => ResultInv'
  <2> SUFFICES ASSUME ResultInv, [ToolsNext]_allVars, part' = "results" PROVE ResultInv'
    BY DEF ResultInv
  <2>1. part = "results" /\ (Results!Next \/ UNCHANGED resultVars)
    BY DEF ToolsNext, CallStep, ResultStep, GateStep, NotebookStep, allVars
  <2>2. held' = held /\ answer' \in {answer, Results!Answer(held)}
    BY <2>1 DEF Results!Next, Results!GetParagraphResult, resultVars
  <2>3. QED
    BY <2>1, <2>2 DEF ResultInv
<1>3. ResultInv => ResultsHonest
  <2> SUFFICES ASSUME ResultInv, part = "results"
               PROVE  Results!OutputsFit /\ Results!TruncatedIsHonest /\ Results!FailuresExplained
    BY DEF ResultsHonest
  <2>1. CASE answer = Results!Failure("none")
    <3>1. ~Results!OK
      BY <2>1 DEF Results!OK, Results!Failure, Results!Result
    <3>2. QED
      BY <3>1 DEF Results!OutputsFit, Results!TruncatedIsHonest, Results!FailuresExplained
  <2>2. CASE answer = Results!Answer(held)
    BY <2>2, AnswerRight DEF ResultInv
  <2>3. QED
    BY <2>1, <2>2 DEF ResultInv
<1>4. QED
  BY <1>1, <1>2, <1>3, PTL DEF ToolsSpec
=============================================================================
