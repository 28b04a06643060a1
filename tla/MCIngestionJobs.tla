--------------------------- MODULE MCIngestionJobs ---------------------------
(* Small instances of IngestionJobs for TLC. *)
EXTENDS IngestionJobs, TLC

(* Two attempts for either type: enough for one attempt to be retried or   *)
(* recovered and for the next to be the last.                              *)
TwoAttempts == [type \in JobType |-> 2]

Symmetry == Permutations(Worker) \cup Permutations(JobId)
              \cup Permutations(Doc)
=============================================================================
