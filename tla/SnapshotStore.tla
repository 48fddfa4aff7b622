---------------------------- MODULE SnapshotStore ----------------------------
(***************************************************************************)
(* What the event-log store promises, without locks, staging directories,   *)
(* deadlines or cancellations: snapshots appear atomically, one writing     *)
(* process at a time, and are never overwritten or removed; a fetch is      *)
(* answered once, with a snapshot of the selection it asked for or with a   *)
(* failure, and an error is final for what the fetch might have saved.      *)
(***************************************************************************)
CONSTANTS Fetches, Procs, Keys, Nobody

VARIABLES holder,   \* the process that owns the store
          want,     \* the selection each fetch asks for
          saved,    \* the snapshots, named after the fetch that made them
          answer,   \* what each fetch was told
          given     \* the snapshot it was given

vars == <<holder, want, saved, answer, given>>

Init == /\ holder = Nobody
        /\ want \in [Fetches -> Keys]
        /\ saved = {}
        /\ answer = [f \in Fetches |-> "none"]
        /\ given = [f \in Fetches |-> Nobody]

Open(p) == /\ holder = Nobody
           /\ holder' = p
           /\ UNCHANGED <<want, saved, answer, given>>

Release == /\ holder # Nobody
           /\ holder' = Nobody
           /\ UNCHANGED <<want, saved, answer, given>>

\* A caller that is cancelled may leave before its snapshot is saved.
Save(f) == /\ holder # Nobody /\ f \notin saved
           /\ answer[f] \in {"none", "cancelled"}
           /\ saved' = saved \cup {f}
           /\ UNCHANGED <<holder, want, answer, given>>

Give(f, s, how) ==
  /\ answer[f] = "none" /\ s \in saved /\ want[s] = want[f]
  /\ how = IF s = f THEN "downloaded" ELSE "hit"
  /\ answer' = [answer EXCEPT ![f] = how]
  /\ given' = [given EXCEPT ![f] = s]
  /\ UNCHANGED <<holder, want, saved>>

\* A timeout or a cancellation may hide a snapshot that was saved.
Fail(f, how) == /\ answer[f] = "none"
                /\ how = "error" => f \notin saved
                /\ answer' = [answer EXCEPT ![f] = how]
                /\ UNCHANGED <<holder, want, saved, given>>

Next == \/ \E p \in Procs : Open(p)
        \/ Release
        \/ \E f \in Fetches :
             \/ Save(f)
             \/ \E s \in Fetches, how \in {"hit", "downloaded"} : Give(f, s, how)
             \/ \E how \in {"error", "timeout", "cancelled"} : Fail(f, how)

Spec == Init /\ [][Next]_vars
=============================================================================
