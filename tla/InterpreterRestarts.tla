------------------------- MODULE InterpreterRestarts -------------------------
(***************************************************************************)
(* What the notebook gateway promises about discovery and notebook-scoped   *)
(* interpreter restarts, whatever the lock, the deadlines, cancellations    *)
(* and the shutdown do: calls use the upstream session one at a time, a     *)
(* restart request is made at most once, only from inside the call's turn   *)
(* and never after shutdown began, and the answer a caller gets is          *)
(* consistent with what the server did.  A request that was made leaves a   *)
(* moment later, or not at all.                                             *)
(***************************************************************************)
CONSTANTS Calls,      \* all calls of the process
          Restarts,   \* those of Calls that are notebook-scoped restarts
          NoCall      \* not a call

VARIABLES holder,     \* the call whose turn it is to use the session
          effect,     \* per call: the restart request as the server sees it
          answer,     \* per call: what its caller was told
          shut,       \* shutdown has begun
          down        \* shutdown is complete

vars == <<holder, effect, answer, shut, down>>

Answers == {"ok", "transient", "permanent", "cancelled"}

TypeOK == /\ holder \in Calls \cup {NoCall}
          /\ effect \in [Calls -> {"none", "due", "sent", "performed"}]
          /\ answer \in [Calls -> Answers \cup {"none"}]
          /\ shut \in BOOLEAN
          /\ down \in BOOLEAN

Init == /\ holder = NoCall
        /\ effect = [c \in Calls |-> "none"]
        /\ answer = [c \in Calls |-> "none"]
        /\ shut = FALSE
        /\ down = FALSE

Enter(c) == /\ holder = NoCall /\ ~shut /\ answer[c] = "none"
            /\ holder' = c
            /\ UNCHANGED <<effect, answer, shut, down>>

Request(c) == /\ holder = c /\ ~shut /\ c \in Restarts /\ effect[c] = "none"
              /\ effect' = [effect EXCEPT ![c] = "due"]
              /\ UNCHANGED <<holder, answer, shut, down>>

Send(c) == /\ effect[c] = "due"
           /\ effect' = [effect EXCEPT ![c] = "sent"]
           /\ UNCHANGED <<holder, answer, shut, down>>

Perform(c) == /\ effect[c] = "sent"
              /\ effect' = [effect EXCEPT ![c] = "performed"]
              /\ UNCHANGED <<holder, answer, shut, down>>

Leave(c) == /\ holder = c
            /\ holder' = NoCall
            /\ UNCHANGED <<effect, answer, shut, down>>

\* "ok" for a restart means the server did it; an answer that invites a
\* retry means that no request was made.
Answer(c, a) == /\ answer[c] = "none" /\ holder # c
                /\ (a = "ok" /\ c \in Restarts) => effect[c] = "performed"
                /\ a = "transient" => effect[c] = "none"
                /\ answer' = [answer EXCEPT ![c] = a]
                /\ UNCHANGED <<holder, effect, shut, down>>

Shut == /\ ~shut
        /\ shut' = TRUE
        /\ UNCHANGED <<holder, effect, answer, down>>

Down == /\ shut /\ ~down /\ holder = NoCall
        /\ down' = TRUE
        /\ UNCHANGED <<holder, effect, answer, shut>>

Next == \/ \E c \in Calls : \/ Enter(c) \/ Request(c) \/ Send(c) \/ Perform(c) \/ Leave(c)
                            \/ \E a \in Answers : Answer(c, a)
        \/ Shut
        \/ Down

Spec == Init /\ [][Next]_vars
=============================================================================
