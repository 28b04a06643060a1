---------------------------- MODULE Registration ----------------------------
(***************************************************************************)
(* Upload and deletion requests: DocumentRegistrationService.register with *)
(* DocumentRegistrationRepository, and request_delete of                   *)
(* DocumentLifecycleRepository.  An upload holds the mutation guard of the *)
(* object store while it stores the object and registers it in one         *)
(* transaction under advisory locks on its content and its name.           *)
(***************************************************************************)
EXTENDS DocumentStore

BeingDeleted(d) == docs[d].status \in {"deleting", "deleted"}

(* The content is new: a version, its claim and its first ingest job.      *)
RegisterNew(d, c, v, j) ==
    /\ claims[c] = NoVersion
    /\ ~BeingDeleted(d)
    /\ IsNextVersion(v) /\ IsNextJob(j)
    /\ objects' = Stored(c)
    /\ docs' = [docs EXCEPT ![d].status = IF @ = "absent" THEN "pending"
                                                          ELSE "processing"]
    /\ vers' = [vers EXCEPT ![v] = [doc |-> d, content |-> c, status |-> "pending"]]
    /\ claims' = [claims EXCEPT ![c] = v]
    /\ jobs' = Enqueued(jobs, j, "ingest", d)
    /\ target' = [target EXCEPT ![j] = v]
    /\ UNCHANGED <<roots, vectors>>

(* _prepare_failed_claim. *)
Revived(v) ==
    /\ vers[v].status = "failed"
    /\ ~BeingDeleted(vers[v].doc)

ReviveClaim(v) ==
    /\ vers' = IF Revived(v) THEN [vers EXCEPT ![v].status = "pending"] ELSE vers
    /\ docs' = IF Revived(v)
               THEN [docs EXCEPT ![vers[v].doc].status = "processing"] ELSE docs

(* Seeded bug: every repeated upload queues the version again. *)
RegisterDuplicateAgain(c, j) ==
    LET v == claims[c] IN
    /\ v # NoVersion
    /\ IsNextJob(j)
    /\ objects' = Stored(c)
    /\ ReviveClaim(v)
    /\ jobs' = Enqueued(jobs, j, "ingest", vers[v].doc)
    /\ target' = [target EXCEPT ![j] = v]
    /\ UNCHANGED <<claims, roots, vectors>>

(* The content is claimed: whatever the name, its version is returned, and *)
(* a new job is queued when the latest one failed or was cancelled.        *)
RegisterDuplicate(c, j) ==
    LET v == claims[c]
        latest == Latest(IngestJobsOf(v)) IN
    /\ v # NoVersion
    /\ objects' = Stored(c)
    /\ ReviveClaim(v)
    /\ IF jobs[latest].status \in {"failed", "cancelled"}
       THEN /\ IsNextJob(j)
            /\ jobs' = Enqueued(jobs, j, "ingest", vers[v].doc)
            /\ target' = [target EXCEPT ![j] = v]
       ELSE UNCHANGED <<jobs, target>>
    /\ UNCHANGED <<claims, roots, vectors>>

(* New content for a document being deleted: CONFLICT after the put.       *)
RegisterConflict(d, c) ==
    /\ claims[c] = NoVersion
    /\ BeingDeleted(d)
    /\ objects' = Stored(c)
    /\ UNCHANGED <<docs, vers, claims, roots, vectors, jobs, target>>

-----------------------------------------------------------------------------
(* request_delete: an unfinished or finished deletion is reused, otherwise *)
(* the document is hidden, its ingest jobs are cancelled and a deletion is *)
(* queued, all in one transaction.                                         *)
DeletionReused(d) ==
    LET deletions == JobsOf(d, "delete") IN
    /\ BeingDeleted(d)
    /\ deletions # {}
    /\ jobs[Latest(deletions)].status
          \in {"queued", "leased", "running", "retry_wait", "succeeded"}

RequestDelete(d, j) ==
    /\ VersionsOf(d) # {}
    /\ ~DeletionReused(d)
    /\ IsNextJob(j)
    /\ docs' = [docs EXCEPT ![d] = [status |-> "deleting", active |-> NoVersion]]
    /\ jobs' = Enqueued([i \in JobId |-> IF i \in JobsOf(d, "ingest")
                                         THEN CancelledByDeletion(jobs[i])
                                         ELSE jobs[i]],
                        j, "delete", d)
    /\ target' = [target EXCEPT ![j] = Latest(VersionsOf(d))]
    /\ UNCHANGED <<vers, claims, roots, vectors, objects>>

Upload ==
    \E c \in Content :
        \/ \E d \in Doc, v \in Version, j \in JobId : RegisterNew(d, c, v, j)
        \/ \E j \in JobId : RegisterDuplicate(c, j)
        \/ \E d \in Doc : RegisterConflict(d, c)
=============================================================================
