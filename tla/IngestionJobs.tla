---------------------------- MODULE IngestionJobs ----------------------------
(***************************************************************************)
(* The persistent job queue (adapters/database/jobs.py): table             *)
(* ingestion_jobs, the worker processes that lease its rows, heartbeat,    *)
(* finish or lose them, the users who cancel them and the periodic         *)
(* recovery of expired leases.                                             *)
(*                                                                         *)
(* Each repository method runs in one transaction that locks the row it    *)
(* changes, so each is one atomic action.  A method called on a lease that *)
(* was lost raises and changes nothing; that is its action being disabled. *)
(* Which eligible row lease_next picks, and which expired rows one         *)
(* recovery gets (rows locked by others are skipped, the batch is          *)
(* limited), is left open.                                                 *)
(***************************************************************************)
EXTENDS JobRecords

CONSTANTS
    JobId,        \* the rows that may be inserted
    NoJob,        \* a worker that is not executing a job
    LeasedTypes   \* the job types workers ask lease_next for: "ingest" in the
                  \* program, in which nothing leases a "delete" job

ASSUME NoJobAssumption == NoJob \notin JobId
ASSUME LeasedTypesAssumption == LeasedTypes \subseteq JobType

VARIABLES
    jobs,   \* the table: [JobId -> JobRow]
    held    \* the job, and which attempt at it, each worker process executes

vars == <<jobs, held>>

Handle == [job : JobId \cup {NoJob}, attempt : Nat]
Idle == [job |-> NoJob, attempt |-> 0]

(* One type invariant for the table and the worker handles. *)
TypeOK ==
    /\ jobs \in [JobId -> JobRow]
    /\ held \in [Worker -> Handle]

(* No row has been inserted and every worker is idle. *)
Init ==
    /\ \E d \in Doc : jobs = [j \in JobId |-> AbsentRow(d)]
    /\ held = [w \in Worker |-> Idle]

-----------------------------------------------------------------------------
Enqueue(j, type, doc) ==
    /\ jobs[j].status = "absent"
    /\ jobs' = [jobs EXCEPT ![j] = NewJob(type, doc)]
    /\ UNCHANGED held

LeaseNext(w, type, j) ==
    /\ held[w] = Idle
    /\ Leasable(jobs[j], type)
    /\ jobs' = [jobs EXCEPT ![j] = Leased(@, w)]
    /\ held' = [held EXCEPT ![w] = [job |-> j, attempt |-> jobs'[j].attempts]]

Start(w, j) ==
    /\ held[w].job = j
    /\ OwnedActive(jobs[j], w)
    /\ jobs[j].status = "leased"
    /\ jobs' = [jobs EXCEPT ![j] = Started(@)]
    /\ UNCHANGED held

Heartbeat(w, j, progress) ==
    /\ held[w].job = j
    /\ HeartbeatAccepts(jobs[j], w, progress)
    /\ jobs' = [jobs EXCEPT ![j] = Renewed(@, progress)]
    /\ UNCHANGED held

(* A worker told that its job is cancelled stops executing it. *)
Checkpoint(w, j, progress) ==
    /\ held[w].job = j
    /\ CheckpointAccepts(jobs[j], w, progress)
    /\ jobs' = [jobs EXCEPT ![j] = Checkpointed(@, progress)]
    /\ held' = IF jobs[j].cancel THEN [held EXCEPT ![w] = Idle] ELSE held

Succeed(w, j) ==
    /\ held[w].job = j
    /\ OwnedUncancelled(jobs[j], w)
    /\ jobs' = [jobs EXCEPT ![j] = Succeeded(@)]
    /\ held' = [held EXCEPT ![w] = Idle]

Retry(w, j) ==
    /\ held[w].job = j
    /\ OwnedUncancelled(jobs[j], w)
    /\ jobs' = [jobs EXCEPT ![j] = Retried(@)]
    /\ held' = [held EXCEPT ![w] = Idle]

(* fail does not look at cancel_requested. *)
Fail(w, j) ==
    /\ held[w].job = j
    /\ OwnedRunning(jobs[j], w)
    /\ jobs' = [jobs EXCEPT ![j] = Released(@, "failed")]
    /\ held' = [held EXCEPT ![w] = Idle]

(* Seeded bug: a cancellation nobody requested is acknowledged. *)
AcknowledgeAnyCancel(w, j) ==
    /\ held[w].job = j
    /\ OwnedActive(jobs[j], w)
    /\ jobs' = [jobs EXCEPT ![j] = Released(@, "cancelled")]
    /\ held' = [held EXCEPT ![w] = Idle]

AcknowledgeCancel(w, j) ==
    /\ held[w].job = j
    /\ OwnedActive(jobs[j], w)
    /\ jobs[j].cancel
    /\ jobs' = [jobs EXCEPT ![j] = Released(@, "cancelled")]
    /\ held' = [held EXCEPT ![w] = Idle]

RequestCancel(j) ==
    /\ Cancellable(jobs[j])
    /\ jobs' = [jobs EXCEPT ![j] = CancelRequested(@)]
    /\ UNCHANGED held

(* request_delete cancels every job of the document except deletions. *)
CancelForDeletion(d) ==
    /\ jobs' = [j \in JobId |->
                   IF jobs[j].doc = d /\ jobs[j].type # "delete"
                   THEN CancelledByDeletion(jobs[j])
                   ELSE jobs[j]]
    /\ UNCHANGED held

RecoverExpired(batch) ==
    /\ batch # {}
    /\ \A j \in batch : Expired(jobs[j])
    /\ jobs' = [j \in JobId |->
                   IF j \in batch THEN Recovered(jobs[j]) ELSE jobs[j]]
    /\ UNCHANGED held

(* The process dies, or an exception reaches its poll loop: nothing more   *)
(* is written for the job, whose lease runs out.                           *)
Drop(w) ==
    /\ held[w] # Idle
    /\ held' = [held EXCEPT ![w] = Idle]
    /\ UNCHANGED jobs

(* A worker whose lease is gone gets JOB_INVALID_TRANSITION and lets go.   *)
Abandon(w) ==
    /\ held[w] # Idle
    /\ ~OwnedActive(jobs[held[w].job], w)
    /\ Drop(w)

Tick ==
    /\ jobs' = [j \in JobId |-> Aged(jobs[j])]
    /\ UNCHANGED held

-----------------------------------------------------------------------------
LeaseAny(w) == \E type \in LeasedTypes, j \in JobId : LeaseNext(w, type, j)

Settle(w) ==
    \E j \in JobId :
        \/ Succeed(w, j)
        \/ Retry(w, j)
        \/ Fail(w, j)
        \/ AcknowledgeCancel(w, j)

StartAny(w) == \E j \in JobId : Start(w, j)

Report(w) ==
    \E j \in JobId, progress \in 0 .. Done :
        \/ Heartbeat(w, j, progress)
        \/ Checkpoint(w, j, progress)

RecoverAny == \E batch \in SUBSET JobId : RecoverExpired(batch)

Next ==
    \/ \E j \in JobId, type \in JobType, doc \in Doc : Enqueue(j, type, doc)
    \/ \E w \in Worker : LeaseAny(w) \/ StartAny(w) \/ Report(w) \/ Settle(w)
    \/ \E w \in Worker : Drop(w)
    \/ \E j \in JobId : RequestCancel(j)
    \/ \E d \in Doc : CancelForDeletion(d)
    \/ RecoverAny
    \/ Tick

Spec == Init /\ [][Next]_vars

(***************************************************************************)
(* Time passes, the poll loop of every worker keeps recovering rows and    *)
(* leasing those of the leased types (IngestionWorker.run_forever never    *)
(* exits on an exception), a worker that holds a lease reaches some end of *)
(* its job, and one that lost its lease finds out.  Crashes need not stop  *)
(* happening.                                                              *)
(***************************************************************************)
FairSpec ==
    /\ Spec
    /\ WF_vars(Tick)
    /\ WF_vars(RecoverAny)
    /\ \A w \in Worker :
        /\ WF_vars(LeaseAny(w))
        /\ WF_vars(StartAny(w))
        /\ WF_vars(Settle(w))
        /\ WF_vars(Abandon(w))

-----------------------------------------------------------------------------
(* A row names an owner exactly while it is leased or running, and only    *)
(* such a row has lease time left: no path out of an active state leaves   *)
(* a lease behind, and no path into one forgets to take it.                *)
LeaseHeldExactlyWhileActive ==
    \A j \in JobId :
        /\ jobs[j].owner # NoOwner <=> jobs[j].status \in Active
        /\ jobs[j].left > 0 => jobs[j].status \in Active

(* However attempts end (retry, expiry, crash), a job is leased at most    *)
(* max_attempts times: one that waits still has an attempt left.           *)
AttemptsWithinLimit ==
    \A j \in JobId :
        /\ jobs[j].attempts <= Limit(jobs[j])
        /\ jobs[j].status \in Waiting => jobs[j].attempts < Limit(jobs[j])

(* A job whose cancellation was requested while it was held ends cancelled *)
(* or failed: it never succeeds and never returns to the queue.            *)
CancelNeverRerun ==
    \A j \in JobId :
        jobs[j].cancel => jobs[j].status \in Active \cup {"cancelled", "failed"}

(* Fencing by owner name is enough while names are unique per process: a   *)
(* process still executing an earlier attempt at a job cannot pass the     *)
(* ownership check of the later one, so it can neither renew nor end it.   *)
StaleAttemptIsPowerless ==
    \A w \in Worker, j \in JobId :
        held[w].job = j /\ held[w].attempt # jobs[j].attempts
            => ~OwnedActive(jobs[j], w)

(* Succeeded, failed and cancelled rows never change status again, whoever *)
(* cancels, recovers or finishes late.                                     *)
TerminalIsFinal ==
    [][\A j \in JobId :
        jobs[j].status \in Terminal => jobs'[j].status = jobs[j].status]_vars

(* While its lease lasts a job is taken from its owner only by the owner's *)
(* own step that ends the execution.                                       *)
LiveLeaseEndsByHolder ==
    [][\A j \in JobId :
        jobs[j].left > 0 /\ jobs'[j].owner # jobs[j].owner
            => \E w \in Worker : /\ w = jobs[j].owner
                                 /\ held[w].job = j
                                 /\ held'[w].job # j]_vars

(* Progress of a row only grows, across heartbeats racing checkpoints,     *)
(* retries and recoveries.                                                 *)
ProgressMonotone ==
    [][\A j \in JobId :
        jobs[j].status # "absent" => jobs'[j].progress >= jobs[j].progress]_vars

(* Every job of a leased type that is put in the queue reaches a terminal  *)
(* status, although workers may crash at every attempt and jobs nobody     *)
(* leases stay in the table beside it.                                     *)
EveryJobSettles ==
    \A j \in JobId :
        jobs[j].status = "queued" /\ jobs[j].type \in LeasedTypes
            ~> jobs[j].status \in Terminal

-----------------------------------------------------------------------------
(* The queue promises of JobQueue, seen through the lease protocol. *)
PhaseOf(status) ==
    CASE status \in Waiting -> "waiting"
      [] status \in Active  -> "held"
      [] OTHER              -> status

Queue == INSTANCE JobQueue WITH
    Job    <- JobId,
    Holder <- Worker,
    Nobody <- NoOwner,
    Limits <- {MaxAttempts[t] : t \in JobType},
    phase  <- [j \in JobId |-> PhaseOf(jobs[j].status)],
    holder <- [j \in JobId |-> jobs[j].owner],
    limit  <- [j \in JobId |-> IF jobs[j].status = "absent"
                               THEN 0 ELSE Limit(jobs[j])],
    tries  <- [j \in JobId |-> jobs[j].attempts],
    doomed <- {j \in JobId : jobs[j].cancel \/ jobs[j].status = "cancelled"}

(* Leases, timers, crashes and recovery together implement the abstract    *)
(* queue: at most one holder, bounded tries, final outcomes, and a doomed  *)
(* job is never given back.                                                *)
ImplementsQueue == Queue!QueueSpec
=============================================================================
