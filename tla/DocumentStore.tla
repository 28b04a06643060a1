---------------------------- MODULE DocumentStore ----------------------------
(***************************************************************************)
(* The three stores the document life cycle spans, for one tenant and one  *)
(* collection: PostgreSQL (documents, document_versions, content claims,   *)
(* Roots with their Leaves, ingestion_jobs), the vector store and the      *)
(* object store.  No transaction spans two of them.                        *)
(*                                                                         *)
(* Versions and jobs are numbered in the order their rows are created, so  *)
(* the order of created_at is the order of the numbers.                    *)
(***************************************************************************)
EXTENDS JobRecords, FiniteSets

CONSTANTS
    Content,      \* the distinct file contents (sha256)
    MaxVersions,  \* bound: document versions ever created
    MaxJobs       \* bound: job rows ever created

ASSUME BoundsAssumption == MaxVersions \in Nat /\ MaxJobs \in Nat

VARIABLES
    docs,     \* documents, one per logical name: status (absent, pending,
              \* processing, ready, failed, deleting, deleted), active_version_id
    vers,     \* document_versions: document, content and status (absent, pending,
              \* processing, indexed, superseded, failed, deleted)
    claims,   \* document_content_claims: the version that owns a content
    roots,    \* the versions whose Roots and Leaves are in PostgreSQL
    vectors,  \* the projection of each version: none, staged, ready
    objects,  \* the contents present in the object store
    jobs,     \* ingestion_jobs
    target    \* ingestion_jobs.version_id

storeVars == <<docs, vers, claims, roots, vectors, objects, jobs, target>>

Version == 1 .. MaxVersions
NoVersion == 0
JobId == 1 .. MaxJobs
NoJob == 0

StoreInit ==
    /\ docs = [d \in Doc |-> [status |-> "absent", active |-> NoVersion]]
    /\ \E d \in Doc, c \in Content :
        vers = [v \in Version |-> [doc |-> d, content |-> c, status |-> "absent"]]
    /\ claims = [c \in Content |-> NoVersion]
    /\ roots = {}
    /\ vectors = [v \in Version |-> "none"]
    /\ objects = {}
    /\ \E d \in Doc : jobs = [j \in JobId |-> AbsentRow(d)]
    /\ target = [j \in JobId |-> NoVersion]

-----------------------------------------------------------------------------
VersionsOf(d) == {v \in Version : vers[v].status # "absent" /\ vers[v].doc = d}

JobsOf(d, type) ==
    {j \in JobId : /\ jobs[j].status # "absent"
                   /\ jobs[j].doc = d
                   /\ jobs[j].type = type}

IngestJobsOf(v) ==
    {j \in JobId : /\ jobs[j].status # "absent"
                   /\ jobs[j].type = "ingest"
                   /\ target[j] = v}

(* ORDER BY created_at DESC LIMIT 1, and the id of the next row. *)
Latest(S) == CHOOSE n \in S : \A m \in S : m <= n

IsNextJob(j) ==
    /\ jobs[j].status = "absent"
    /\ \A i \in JobId : i < j => jobs[i].status # "absent"

IsNextVersion(v) ==
    /\ vers[v].status = "absent"
    /\ \A u \in Version : u < v => vers[u].status # "absent"

(* enqueue, inside the transaction of its caller. *)
Enqueued(rows, j, type, d) == [rows EXCEPT ![j] = NewJob(type, d)]

(* put: an object is there whole or not at all, under the name of its      *)
(* content, so storing it twice changes nothing.                           *)
Stored(c) == objects \cup {c}

(* mark_failed reads both rows without a lock and writes them at the end   *)
(* of its transaction: the version fails, the document falls back to what  *)
(* active_version_id was when it was read.  A status that was read as it   *)
(* is to be is not written.                                                *)
NoMark == [doc |-> "kept", ver |-> FALSE]

MarkOf(v) ==
    LET d == vers[v].doc
        fallback == IF docs[d].active # NoVersion THEN "ready" ELSE "failed" IN
    [doc |-> IF docs[d].status = fallback THEN "kept" ELSE fallback,
     ver |-> vers[v].status # "failed"]

MarkFailed(v, mark) ==
    /\ vers' = IF mark.ver THEN [vers EXCEPT ![v].status = "failed"] ELSE vers
    /\ docs' = IF mark.doc = "kept" THEN docs
               ELSE [docs EXCEPT ![vers[v].doc].status = mark.doc]

(* What resolve_scope, load_leaves and load_roots require of a document:   *)
(* only such a document is answered from.                                  *)
Visible(d) ==
    /\ docs[d].status = "ready"
    /\ docs[d].active # NoVersion
    /\ vers[docs[d].active].status = "indexed"

(* object_is_referenced. *)
Referenced(c) ==
    \E v \in Version : /\ vers[v].content = c
                       /\ vers[v].status \notin {"absent", "deleted"}
=============================================================================
