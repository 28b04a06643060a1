-------------------------- MODULE DocumentLifecycle --------------------------
(***************************************************************************)
(* Uploads, deletion requests, ingestion workers and the deletion saga     *)
(* over the same stores: the composition the correctness of the document   *)
(* life cycle depends on.                                                  *)
(***************************************************************************)
EXTENDS Registration, IngestionPipeline, DeletionSaga

vars == <<docs, vers, claims, roots, vectors, objects, jobs, target,
          work, faults, del>>

Init ==
    /\ StoreInit
    /\ PipelineInit
    /\ DeletionInit

DeletionNext ==
    \/ AdvanceDeletion /\ UNCHANGED pipelineVars
    \/ StopDeletion /\ Fault /\ UNCHANGED work

(* A lease runs out: inevitably when no process executes the job any more, *)
(* and as a fault (a stall, an outage of the database) under one that      *)
(* does.  Rows expire one by one: their lease_until differ.                *)
Executed(j) == del.job = j \/ \E w \in Ingester : work[w].job = j

LeaseRunsOut(j) ==
    /\ jobs[j].left > 0
    /\ IF Executed(j) THEN Fault ELSE UNCHANGED faults
    /\ jobs' = [jobs EXCEPT ![j] = Aged(@)]
    /\ UNCHANGED <<docs, vers, claims, roots, vectors, objects, target,
                   work, del>>

(* A deletion request updates the rows of the document's jobs, and waits   *)
(* for a transaction that has locked one of them.                          *)
Delete ==
    \E d \in Doc, j \in JobId :
        /\ \A i \in JobsOf(d, "ingest") : ~Settling(i)
        /\ RequestDelete(d, j)

Next ==
    \/ (Upload \/ Delete) /\ UNCHANGED <<work, faults, del>>
    \/ PipelineNext /\ UNCHANGED del
    \/ DeletionNext
    \/ \E j \in JobId : LeaseRunsOut(j)

Spec == Init /\ [][Next]_vars

(***************************************************************************)
(* Every worker keeps taking its next step, time passes over abandoned     *)
(* leases, and the poll loop keeps recovering expired ones; uploads,       *)
(* deletions and faults are not owed.  Neither is any step of the deletion *)
(* saga: it may run at any time, but no process of the program leases the  *)
(* jobs it needs.                                                          *)
(***************************************************************************)
FairSpec ==
    /\ Spec
    /\ \A w \in Ingester : WF_vars(Advance(w) /\ UNCHANGED del)
    /\ WF_vars(\E j \in JobId : Recover(j) /\ UNCHANGED del)
    /\ WF_vars(\E j \in JobId : ~Executed(j) /\ LeaseRunsOut(j))

-----------------------------------------------------------------------------
Live(j) == jobs[j].status \in Waiting \cup Active

(* Re-uploading never queues the same version twice: at most one of its    *)
(* ingest jobs is unfinished, whatever uploads, workers and deletions do.  *)
OneLiveIngestPerVersion ==
    \A v \in Version : \A i, j \in IngestJobsOf(v) : Live(i) /\ Live(j) => i = j

(* A version that is indexed is its document's active version, and a       *)
(* document that is ready has an active version of its own, unless a       *)
(* deletion was requested and took it; in particular a document never has  *)
(* two indexed versions while one of them is active.  "ready" without an   *)
(* active version is what a worker leaves behind that read the rows before *)
(* the deletion request and marks them failed after it.                    *)
Hidden(d) == docs[d].active = NoVersion /\ JobsOf(d, "delete") # {}

IndexedIsActive ==
    /\ \A v \in Version :
        vers[v].status = "indexed" =>
            docs[vers[v].doc].active = v \/ Hidden(vers[v].doc)
    /\ \A d \in Doc :
        docs[d].status = "ready" => docs[d].active \in VersionsOf(d) \/ Hidden(d)

(* Deletion wins over the ingestions it met: a document that is visible    *)
(* after a deletion request was published by a job queued after it.        *)
VisibleOnlyByLaterJob ==
    \A d \in Doc : Visible(d) =>
        \A k \in JobsOf(d, "delete") :
            \E j \in JobsOf(d, "ingest") :
                /\ j > k
                /\ jobs[j].status = "succeeded"
                /\ target[j] = docs[d].active

(* A document changes its active version only in the step in which an      *)
(* uncancelled job for that very version, under its lease, succeeds; or to *)
(* none, by a deletion.                                                    *)
PublishedOnlyBySuccess ==
    [][\A d \in Doc :
        docs'[d].active \notin {docs[d].active, NoVersion} =>
            \E j \in JobId : /\ target[j] = docs'[d].active
                             /\ jobs[j].left > 0
                             /\ ~jobs[j].cancel
                             /\ jobs[j].status = "running"
                             /\ jobs'[j].status = "succeeded"]_vars

(* Every upload ends: its job reaches a terminal status whatever step of   *)
(* its ingestion fails, and whatever deletions it meets on the way.        *)
UploadsSettle ==
    \A j \in JobId :
        jobs[j].status = "queued" /\ jobs[j].type = "ingest"
            ~> jobs[j].status \in Terminal

=============================================================================
