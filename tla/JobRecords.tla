----------------------------- MODULE JobRecords -----------------------------
(***************************************************************************)
(* The row of table ingestion_jobs and what each operation of              *)
(* IngestionJobRepository does to it (adapters/database/jobs.py).  There   *)
(* is no state here: an operation is a guard on a row and the row it       *)
(* leaves behind, so that the job queue and the document life cycle move   *)
(* rows with the same definitions.                                         *)
(*                                                                         *)
(* Time is relative: left is what remains of lease_until - now and wait    *)
(* what remains of available_at - now, both stopping at 0.  Every          *)
(* comparison the code makes with now is a comparison of one of them       *)
(* with 0, so no clock and no bound on it is needed.                       *)
(*                                                                         *)
(* A definition marked "Seeded bug" is a wrong variant of the definition   *)
(* that follows it.  Nothing uses it: it records a mistake which one of    *)
(* the checked properties is there to notice.                              *)
(***************************************************************************)
EXTENDS Naturals

CONSTANTS
    Worker,       \* the owner strings worker processes lease jobs under
    NoOwner,      \* lease_owner IS NULL
    Doc,          \* documents
    MaxAttempts,  \* max_attempts given to enqueue for each type of job
    LeaseFor,     \* lease_for, in ticks
    RetryDelay,   \* the delay given to retry, in ticks
    Done          \* progress 100

JobType == {"ingest", "delete"}

ASSUME NoOwnerAssumption == NoOwner \notin Worker
ASSUME LimitAssumption == MaxAttempts \in [JobType -> Nat \ {0}]
ASSUME TimeAssumption == LeaseFor \in Nat \ {0} /\ RetryDelay \in Nat
ASSUME DoneAssumption == Done \in Nat \ {0}

-----------------------------------------------------------------------------

Waiting  == {"queued", "retry_wait"}
Active   == {"leased", "running"}
Terminal == {"succeeded", "failed", "cancelled"}

(* A JobId whose row has not been inserted is "absent". *)
JobStatus == {"absent"} \cup Waiting \cup Active \cup Terminal

JobRow == [type     : JobType,
           doc      : Doc,
           status   : JobStatus,
           attempts : Nat,
           wait     : Nat,
           owner    : Worker \cup {NoOwner},
           left     : Nat,
           progress : 0 .. Done,
           cancel   : BOOLEAN]

Limit(job) == MaxAttempts[job.type]

NewJob(type, doc) ==
    [type |-> type, doc |-> doc, status |-> "queued", attempts |-> 0,
     wait |-> 0, owner |-> NoOwner, left |-> 0, progress |-> 0,
     cancel |-> FALSE]

AbsentRow(doc) == [NewJob("ingest", doc) EXCEPT !.status = "absent"]

-----------------------------------------------------------------------------
(* lease_next: only waiting rows whose available_at has passed; the type   *)
(* filter is the caller's.  Leasing spends one attempt.                    *)

Leasable(job, type) ==
    /\ job.status \in Waiting
    /\ job.wait = 0
    /\ job.type = type

Leased(job, w) ==
    [job EXCEPT !.status = "leased",
                !.owner = w,
                !.left = LeaseFor,
                !.attempts = @ + 1]

(* Seeded bug: any worker passes for the owner. *)
OwnedActiveByAnyone(job, w) == job.left > 0 /\ job.status \in Active

(* _lock_owned_active: the check before every owned transition. *)
OwnedActive(job, w) ==
    /\ job.owner = w
    /\ job.left > 0
    /\ job.status \in Active

OwnedRunning(job, w) == OwnedActive(job, w) /\ job.status = "running"

(* Seeded bug: an expired lease passes until recovery takes the job. *)
OwnedUncancelledAnyLease(job, w) ==
    job.owner = w /\ job.status = "running" /\ ~job.cancel

(* ensure_owned_running, and the guard succeed and retry share with it. *)
OwnedUncancelled(job, w) == OwnedRunning(job, w) /\ ~job.cancel

Started(job) == [job EXCEPT !.status = "running"]

Renewed(job, progress) == [job EXCEPT !.left = LeaseFor, !.progress = progress]

(* The lease is given back and the row moves to status. *)
Released(job, status) ==
    [job EXCEPT !.status = status, !.owner = NoOwner, !.left = 0]

(* checkpoint: a cancelled running job is acknowledged, before its progress *)
(* is looked at; otherwise progress may not fall and the lease is renewed.  *)
CheckpointAccepts(job, w, progress) ==
    /\ OwnedRunning(job, w)
    /\ job.cancel \/ progress >= job.progress

Checkpointed(job, progress) ==
    IF job.cancel THEN Released(job, "cancelled") ELSE Renewed(job, progress)

(* heartbeat: renews a leased or running row, cancelled or not. *)
HeartbeatAccepts(job, w, progress) ==
    /\ OwnedActive(job, w)
    /\ progress >= job.progress

Succeeded(job) == [Released(job, "succeeded") EXCEPT !.progress = Done]

(* retry: an attempt is left or the job is failed. *)
Retried(job) ==
    IF job.attempts >= Limit(job)
    THEN Released(job, "failed")
    ELSE [Released(job, "retry_wait") EXCEPT !.wait = RetryDelay]

-----------------------------------------------------------------------------
(* request_cancel. *)
Cancellable(job) == job.status \in Waiting \cup Active

CancelRequested(job) ==
    IF job.status \in Waiting
    THEN [job EXCEPT !.status = "cancelled"]
    ELSE [job EXCEPT !.cancel = TRUE]

(* Seeded bug: a deletion leaves the jobs in execution alone. *)
CancelledByDeletionWaiting(job) ==
    IF job.status \in Waiting
    THEN [job EXCEPT !.status = "cancelled", !.cancel = TRUE]
    ELSE job

(* What request_delete does to the other jobs of the document: unlike      *)
(* request_cancel it also sets the flag on the rows it cancels.            *)
CancelledByDeletion(job) ==
    CASE job.status \in Waiting -> [job EXCEPT !.status = "cancelled",
                                               !.cancel = TRUE]
      [] job.status \in Active  -> [job EXCEPT !.cancel = TRUE]
      [] OTHER                  -> job

ExpiredEarly(job) == job.status \in Active /\ job.left <= 1
ExpiredRunningOnly(job) == job.status = "running" /\ job.left = 0
ExpiredUncancelled(job) == job.status \in Active /\ job.left = 0 /\ ~job.cancel

(* recover_expired, on one row. *)
Expired(job) == job.status \in Active /\ job.left = 0

Recovered(job) ==
    IF job.cancel THEN Released(job, "cancelled")
    ELSE IF job.attempts >= Limit(job) THEN Released(job, "failed")
    ELSE [Released(job, "retry_wait") EXCEPT !.wait = 0]

(* One tick of the clock, seen from a row. *)
Countdown(n) == IF n > 0 THEN n - 1 ELSE 0

Aged(job) == [job EXCEPT !.left = Countdown(@), !.wait = Countdown(@)]
=============================================================================
