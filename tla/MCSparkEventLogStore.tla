------------------------ MODULE MCSparkEventLogStore ------------------------
(***************************************************************************)
(* Small instances of SparkEventLogStore, and the refinement of the promise *)
(* stated in SnapshotStore.                                                 *)
(***************************************************************************)
EXTENDS SparkEventLogStore, TLC

Promise == INSTANCE SnapshotStore
             WITH holder <- flock, saved <- published, answer <- outcome, given <- got

\* Every behaviour of the store is one the promise allows.
ImplementsPromise == Promise!Spec

\* Fetches are interchangeable.
FetchSymmetry == Permutations(Fetches)
=============================================================================
