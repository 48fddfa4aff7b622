--------------------------- MODULE ParagraphGate ---------------------------
(***************************************************************************)
(* add_paragraph up to the gateway: the validation of its arguments, the   *)
(* interpreter the body names, and the checkers of ParagraphSafetyHook in  *)
(* their order.  A SQL text is the sequence of its statements, a statement *)
(* its leading keyword and the database it writes to; a shell body is the  *)
(* sequence of its lines.                                                  *)
(***************************************************************************)
EXTENDS Integers, Sequences, SequencesExt, FiniteSetsExt

CONSTANTS
  Interpreters,        \* names a body may give
  SqlInterpreters,     \* those that contain "sql"
  Allowed,             \* allowed_interpreters
  Forbidden,           \* sql_forbidden_keywords
  AllowedDatabases,    \* sql_write_allowed_databases
  AllowedCommands,     \* sh_allowed_commands
  MaxStatements        \* bound: statements of a text

VARIABLES
  request,    \* the arguments of the call
  outcome     \* "sent", or why the call was refused

vars == <<request, outcome>>

WriteKeywords == {"INSERT", "UPDATE", "DELETE", "MERGE", "CREATE", "ALTER", "DROP", "TRUNCATE", "LOAD"}

\* "unclear": the pattern of the keyword finds no target in the statement.
Statements == [keyword : {"SELECT", "INSERT", "DROP"}, database : {"tmp_dc_ep", "dwd", "unclear"}]
Sql == BoundedSeq(Statements, MaxStatements)
Lines == BoundedSeq({"comment", "echo", "rm"}, 2)

Bodies(names) ==
  [shebang : names \ {"sh"}, sql : Sql, lines : {<<>>}, embedded : BoundedSeq(Sql, 1)]
Shells(names) ==
  [shebang : names \cap {"sh"}, sql : {<<>>}, lines : Lines, embedded : BoundedSeq(Sql, 1)]
Requests ==
  LET names == Interpreters \cup {"none", "malformed"}
  IN  [valid : BOOLEAN, body : Bodies(names) \cup Shells(names)]

-----------------------------------------------------------------------------
(* The checkers.  Each answers "pass" or the reason it raises. *)

\* A check that raises is the last one.
FirstRejection(verdicts, otherwise) ==
  LET rejected == {i \in DOMAIN verdicts : verdicts[i] # "pass"}
  IN  IF rejected = {} THEN otherwise ELSE verdicts[Min(rejected)]

AllowlistCheck(body) == IF body.shebang \in Allowed THEN "pass" ELSE "interpreter"

\* Variant: the statements after the first go unread.
ForbidsFirst(sql) == sql # <<>> /\ sql[1].keyword \in Forbidden

\* validate_sql_forbidden_keywords, validate_sql_write_target
Forbids(sql) == \E i \in DOMAIN sql : sql[i].keyword \in Forbidden

WritesElsewhere(sql) ==
  \E i \in DOMAIN sql :
    sql[i].keyword \in WriteKeywords /\ sql[i].database \notin AllowedDatabases

IsSql(body) == body.shebang \in SqlInterpreters

ForbiddenCheck(body) == IF IsSql(body) /\ Forbids(body.sql) THEN "keyword" ELSE "pass"
TargetCheck(body) == IF IsSql(body) /\ WritesElsewhere(body.sql) THEN "database" ELSE "pass"

\* One text after the other, each by both rules.
EmbeddedCheck(body) ==
  LET Reason(sql) == IF Forbids(sql) THEN "keyword"
                     ELSE IF WritesElsewhere(sql) THEN "database" ELSE "pass"
  IN  FirstRejection([i \in DOMAIN body.embedded |-> Reason(body.embedded[i])], "pass")

\* validate_sh_command: the first line that is no comment decides.
ShellCheck(body) ==
  LET commands == SelectSeq(body.lines, LAMBDA l : l # "comment")
  IN  IF body.shebang # "sh" \/ (commands # <<>> /\ Head(commands) \in AllowedCommands)
      THEN "pass" ELSE "command"

Checkers(body) ==
  <<AllowlistCheck(body), ForbiddenCheck(body), TargetCheck(body), EmbeddedCheck(body),
    ShellCheck(body)>>

\* ParagraphSafetyHook.enforce: the first rejection wins.
Enforced(body) == FirstRejection(Checkers(body), "sent")

Outcome(r) ==
  IF ~r.valid THEN "argument"
  ELSE IF r.body.shebang \in {"none", "malformed"} THEN "shebang" ELSE Enforced(r.body)

Init == request \in Requests /\ outcome = "none"

AddParagraph ==
  /\ outcome' = Outcome(request)
  /\ UNCHANGED request

Next == AddParagraph
Spec == Init /\ [][Next]_vars

-----------------------------------------------------------------------------
(* What the specification of the tool says of a body, statement by statement. *)
Acceptable(s) ==
  /\ s.keyword \notin Forbidden
  /\ s.keyword \in WriteKeywords => s.database \in AllowedDatabases

SqlTexts(body) ==
  {body.embedded[i] : i \in DOMAIN body.embedded} \cup (IF IsSql(body) THEN {body.sql} ELSE {})

(* A paragraph reaches Zeppelin exactly when its arguments are valid, its
   interpreter is listed, and every statement of every SQL text in it, up to
   the last one, is neither forbidden nor writes to another database. *)
SentIffAllowed ==
  outcome # "none" =>
    ((outcome = "sent") <=>
       /\ request.valid /\ request.body.shebang \in Allowed \cap Interpreters
       /\ \A sql \in SqlTexts(request.body) : \A i \in DOMAIN sql : Acceptable(sql[i])
       /\ ShellCheck(request.body) = "pass")

(* A statement that is forbidden is refused as forbidden, whatever database it
   or a statement before it names. *)
ForbiddenIsTheReason ==
  /\ outcome \notin {"none", "argument"} /\ IsSql(request.body)
  /\ request.body.shebang \in Allowed
  /\ \E i \in DOMAIN request.body.sql : request.body.sql[i].keyword \in Forbidden
  => outcome = "keyword"
=============================================================================
