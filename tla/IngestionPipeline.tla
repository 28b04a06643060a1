-------------------------- MODULE IngestionPipeline --------------------------
(***************************************************************************)
(* IngestionPipeline.run_once (services/ingestion.py) with the content     *)
(* repository (adapters/database/ingestion.py) and ProjectionService, as   *)
(* executed by each worker process.  One action is one transaction or one  *)
(* call to a store; whatever another process does can come between two.    *)
(*                                                                         *)
(* Stages are numbered: the stages that only compute (loading, images,     *)
(* cleaning, splitting) first, then persisting, projecting, finalizing.    *)
(* The checkpoint before stage k reports progress k; the code's numbers    *)
(* (10, 30, 40, 55, 65, 75, 95, and 100 on success) are in the same order. *)
(***************************************************************************)
EXTENDS DocumentStore

CONSTANTS
    Ingester,       \* the worker processes; each leases under its own name
    ComputeStages,  \* how many stages come before persisting: 4 in the code
    Unreadable,     \* contents every load rejects with a terminal input error
    MaxFaults       \* bound: failures of a process, a call or a lease

ASSUME IngesterAssumption == Ingester \subseteq Worker
ASSUME StagesAssumption ==
    ComputeStages \in Nat \ {0} /\ Done = ComputeStages + 4
(* No clock runs here: a retried job may be leased at once or later, which *)
(* covers every delay.                                                     *)
ASSUME DelayAssumption == RetryDelay = 0

VARIABLES
    work,    \* what each worker process is executing
    faults   \* failures so far

pipelineVars == <<work, faults>>

Persisting == ComputeStages + 1
Projecting == ComputeStages + 2
Finalizing == ComputeStages + 3

IdleWork == [step |-> "idle", job |-> NoJob, stage |-> 1, terminal |-> FALSE,
             mark |-> NoMark]

PipelineInit ==
    /\ work = [w \in Ingester |-> IdleWork]
    /\ faults = 0

-----------------------------------------------------------------------------
At(w, step) == work[w].step = step
JobOf(w) == jobs[work[w].job]
VersionOf(w) == target[work[w].job]

(* The row of the job is locked by the transaction that fails it for good. *)
Settling(j) == \E w \in Ingester : At(w, "settling") /\ work[w].job = j

Goto(w, step) == work' = [work EXCEPT ![w].step = step]
Stop(w) == work' = [work EXCEPT ![w] = IdleWork]
NextStage(w) ==
    work' = [work EXCEPT ![w].step = "checkpoint", ![w].stage = @ + 1]

SetJob(w, row) == jobs' = [jobs EXCEPT ![work[w].job] = row]

(* lease_next and start, in one transaction. *)
Lease(w, j) ==
    /\ At(w, "idle")
    /\ Leasable(jobs[j], "ingest")
    /\ jobs' = [jobs EXCEPT ![j] = Started(Leased(@, w))]
    /\ work' = [work EXCEPT ![w] = [IdleWork EXCEPT !.step = "prepare", !.job = j]]
    /\ UNCHANGED <<docs, vers, claims, roots, vectors, objects, target, faults>>

(* prepare: only the job is checked, the document's own status is not. *)
Prepare(w) ==
    /\ At(w, "prepare")
    /\ IF OwnedUncancelled(JobOf(w), w)
       THEN /\ docs' = [docs EXCEPT ![JobOf(w).doc].status = "processing"]
            /\ vers' = [vers EXCEPT ![VersionOf(w)].status = "processing"]
            /\ Goto(w, "checkpoint")
       ELSE /\ UNCHANGED <<docs, vers>>
            /\ Goto(w, "settle_unprepared")
    /\ UNCHANGED <<claims, roots, vectors, objects, jobs, target, faults>>

(* _checkpoint: continue, stop for a cancellation, or raise. *)
Checkpoint(w) ==
    /\ At(w, "checkpoint")
    /\ IF CheckpointAccepts(JobOf(w), w, work[w].stage)
       THEN /\ SetJob(w, Checkpointed(JobOf(w), work[w].stage))
            /\ Goto(w, IF JobOf(w).cancel THEN "cancel_vectors" ELSE "work")
       ELSE /\ UNCHANGED jobs
            /\ Goto(w, "undo_vectors")
    /\ UNCHANGED <<docs, vers, claims, roots, vectors, objects, target, faults>>

(* _LeaseHeartbeat carries the progress of the coming checkpoint, so it    *)
(* may write it first.  Its renewal of a live lease is left out: a lease   *)
(* that is being renewed is one that has not expired.                      *)
Heartbeat(w) ==
    /\ work[w].step \notin {"idle", "prepare", "settle_unprepared", "settling"}
    /\ HeartbeatAccepts(JobOf(w), w, work[w].stage)
    /\ JobOf(w).progress # work[w].stage
    /\ SetJob(w, Renewed(JobOf(w), work[w].stage))
    /\ UNCHANGED <<docs, vers, claims, roots, vectors, objects, target>>
    /\ UNCHANGED pipelineVars

(* Loading needs the object and may reject its content; the other compute  *)
(* stages touch no shared state.                                           *)
Compute(w) ==
    /\ At(w, "work")
    /\ work[w].stage <= ComputeStages
    /\ LET c == vers[VersionOf(w)].content
           loading == work[w].stage = 1 IN
       IF loading /\ (c \notin objects \/ c \in Unreadable)
       THEN work' = [work EXCEPT ![w].step = "undo_vectors",
                                 ![w].terminal = c \in objects]
       ELSE NextStage(w)
    /\ UNCHANGED storeVars
    /\ UNCHANGED faults

(* replace_content, in a transaction that does not look at the job. *)
Persist(w) ==
    /\ At(w, "work")
    /\ work[w].stage = Persisting
    /\ roots' = roots \cup {VersionOf(w)}
    /\ NextStage(w)
    /\ UNCHANGED <<docs, vers, claims, vectors, objects, jobs, target, faults>>

(* project: upsert as processing, count, upsert as ready, count again.     *)
(* A count sees rows of either status.                                     *)
Project(w, projection, next) ==
    /\ vectors' = [vectors EXCEPT ![VersionOf(w)] = projection]
    /\ Goto(w, next)
    /\ UNCHANGED <<docs, vers, claims, roots, objects, jobs, target, faults>>

CountMismatch(w) == vectors[VersionOf(w)] = "none"

StageVectors(w) ==
    /\ At(w, "work")
    /\ work[w].stage = Projecting
    /\ Project(w, "staged", "activate")

ActivateVectors(w) ==
    /\ At(w, "activate")
    /\ ~CountMismatch(w)
    /\ Project(w, "ready", "verify")

VerifyVectors(w) ==
    /\ At(w, "verify")
    /\ ~CountMismatch(w)
    /\ NextStage(w)
    /\ UNCHANGED storeVars
    /\ UNCHANGED faults

RejectCount(w) ==
    /\ work[w].step \in {"activate", "verify"}
    /\ CountMismatch(w)
    /\ Goto(w, "unproject")
    /\ UNCHANGED storeVars
    /\ UNCHANGED faults

(* _cleanup of the projection service. *)
Unproject(w) ==
    /\ At(w, "unproject")
    /\ Project(w, "none", "undo_vectors")

(* Seeded bug: the version indexed before stays indexed. *)
PublishedBesideOthers(v) == [vers EXCEPT ![v].status = "indexed"]

(* finalize: the version indexed so far is superseded. *)
Published(v) ==
    [u \in Version |->
        IF u = v THEN [vers[u] EXCEPT !.status = "indexed"]
        ELSE IF vers[u].doc = vers[v].doc /\ vers[u].status = "indexed"
        THEN [vers[u] EXCEPT !.status = "superseded"]
        ELSE vers[u]]

(* finalize and succeed, in one transaction: rolled back together when the *)
(* Leaf count or the lease is not as expected.                             *)
Finalize(w) ==
    LET v == VersionOf(w)
        d == vers[v].doc IN
    /\ At(w, "work")
    /\ work[w].stage = Finalizing
    /\ IF v \in roots /\ OwnedUncancelled(JobOf(w), w)
       THEN /\ vers' = Published(v)
            /\ docs' = [docs EXCEPT ![d] = [status |-> "ready", active |-> v]]
            /\ SetJob(w, Succeeded(JobOf(w)))
            /\ Stop(w)
       ELSE /\ UNCHANGED <<vers, docs, jobs>>
            /\ Goto(w, "undo_vectors")
    /\ UNCHANGED <<claims, roots, vectors, objects, target, faults>>

-----------------------------------------------------------------------------
(* _compensate, after an exception and after a cancellation alike: neither *)
(* step checks that the job is still this worker's.                        *)
RemoveVectors(w) ==
    /\ work[w].step \in {"undo_vectors", "cancel_vectors"}
    /\ Project(w, "none", IF At(w, "undo_vectors") THEN "undo_roots"
                                                   ELSE "cancel_roots")

RemoveRoots(w) ==
    /\ work[w].step \in {"undo_roots", "cancel_roots"}
    /\ roots' = roots \ {VersionOf(w)}
    /\ Goto(w, IF At(w, "undo_roots") THEN "settle" ELSE "cancel_mark")
    /\ UNCHANGED <<docs, vers, claims, vectors, objects, jobs, target, faults>>

ReadMark(w, next) ==
    work' = [work EXCEPT ![w].step = next, ![w].mark = MarkOf(VersionOf(w))]

(* fail for a terminal input error, retry otherwise; mark_failed in the    *)
(* same transaction when the job has failed for good, of which nothing is  *)
(* seen before the commit.  A rejected transition leaves the job to lease  *)
(* recovery.                                                               *)
Settle(w) ==
    LET row == IF work[w].terminal THEN Released(JobOf(w), "failed")
                                   ELSE Retried(JobOf(w))
        accepted == \/ OwnedUncancelled(JobOf(w), w)
                    \/ work[w].terminal /\ OwnedRunning(JobOf(w), w) IN
    /\ work[w].step \in {"settle", "settle_unprepared"}
    /\ IF accepted /\ row.status = "failed" /\ At(w, "settle")
       THEN UNCHANGED jobs /\ ReadMark(w, "settling")
       ELSE /\ IF accepted THEN SetJob(w, row) ELSE UNCHANGED jobs
            /\ Stop(w)
    /\ UNCHANGED <<docs, vers, claims, roots, vectors, objects, target, faults>>

SettleFailed(w) ==
    /\ At(w, "settling")
    /\ SetJob(w, Released(JobOf(w), "failed"))
    /\ MarkFailed(VersionOf(w), work[w].mark)
    /\ Stop(w)
    /\ UNCHANGED <<claims, roots, vectors, objects, target, faults>>

(* The cancelled job is already settled; its version is marked failed, in  *)
(* a transaction that locks nothing before it writes.                      *)
ReadCancelled(w) ==
    /\ At(w, "cancel_mark")
    /\ ReadMark(w, "marking")
    /\ UNCHANGED storeVars
    /\ UNCHANGED faults

MarkCancelled(w) ==
    /\ At(w, "marking")
    /\ MarkFailed(VersionOf(w), work[w].mark)
    /\ Stop(w)
    /\ UNCHANGED <<claims, roots, vectors, objects, jobs, target, faults>>

-----------------------------------------------------------------------------
Fault ==
    /\ faults < MaxFaults
    /\ faults' = faults + 1

(* A provider, the database or a store raises instead of doing the step:   *)
(* where the exception handlers of the code take the worker.  Projecting   *)
(* cleans up after itself only once it has begun to write.                 *)
AfterFailure(w) ==
    LET step == work[w].step IN
    CASE step = "prepare" -> {"settle_unprepared"}
      [] step = "work" /\ work[w].stage = Projecting -> {"unproject", "undo_vectors"}
      [] step \in {"checkpoint", "work", "unproject"} -> {"undo_vectors"}
      [] step \in {"activate", "verify"} -> {"unproject"}
      [] step = "undo_vectors" -> {"undo_roots"}
      [] step = "cancel_vectors" -> {"cancel_roots"}
      [] OTHER -> {"idle"}

StepFails(w) ==
    /\ ~At(w, "idle")
    /\ Fault
    /\ \E next \in AfterFailure(w) :
        IF next = "idle" THEN Stop(w) ELSE Goto(w, next)
    /\ UNCHANGED storeVars

(* The process dies; it is restarted idle. *)
Crash(w) ==
    /\ ~At(w, "idle")
    /\ Fault
    /\ Stop(w)
    /\ UNCHANGED storeVars

(* recover_expired, run by the poll loop of any worker, skips locked rows. *)
Recover(j) ==
    /\ Expired(jobs[j])
    /\ ~Settling(j)
    /\ jobs' = [jobs EXCEPT ![j] = Recovered(@)]
    /\ UNCHANGED <<docs, vers, claims, roots, vectors, objects, target>>
    /\ UNCHANGED pipelineVars

(* What a worker does by itself when nothing fails. *)
Advance(w) ==
    \/ \E j \in JobId : Lease(w, j)
    \/ Prepare(w) \/ Checkpoint(w) \/ Compute(w) \/ Persist(w)
    \/ StageVectors(w) \/ ActivateVectors(w) \/ VerifyVectors(w)
    \/ RejectCount(w) \/ Unproject(w) \/ Finalize(w)
    \/ RemoveVectors(w) \/ RemoveRoots(w) \/ Settle(w) \/ SettleFailed(w)
    \/ ReadCancelled(w) \/ MarkCancelled(w)

PipelineNext ==
    \/ \E w \in Ingester : Advance(w) \/ Heartbeat(w)
    \/ \E w \in Ingester : StepFails(w) \/ Crash(w)
    \/ \E j \in JobId : Recover(j)
=============================================================================
