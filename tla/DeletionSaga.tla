---------------------------- MODULE DeletionSaga ----------------------------
(***************************************************************************)
(* DocumentDeletionService.execute (services/lifecycle.py) with            *)
(* DocumentLifecycleRepository, run under a leased delete job by one       *)
(* process.  Each store call and each transaction is one action; a crash   *)
(* may come between any two, and the lease is not renewed on the way.      *)
(***************************************************************************)
EXTENDS DocumentStore

CONSTANT Deleter   \* the owner string the deletion job is leased under

ASSUME DeleterAssumption == Deleter \in Worker

VARIABLE del   \* step of the saga, its job, its versions, those with vectors left

IdleDeletion == [step |-> "idle", job |-> NoJob, versions |-> {}, left |-> {}]

DeletionInit == del = IdleDeletion

-----------------------------------------------------------------------------
DeletedDoc == jobs[del.job].doc

LeaseDeletion(j) ==
    /\ del = IdleDeletion
    /\ Leasable(jobs[j], "delete")
    /\ jobs' = [jobs EXCEPT ![j] = Started(Leased(@, Deleter))]
    /\ del' = [IdleDeletion EXCEPT !.step = "load", !.job = j]
    /\ UNCHANGED <<docs, vers, claims, roots, vectors, objects, target>>

(* load_deletion: the versions are read once, here. *)
LoadDeletion ==
    /\ del.step = "load"
    /\ del' = IF OwnedUncancelled(jobs[del.job], Deleter)
              THEN [del EXCEPT !.step = "vectors",
                               !.versions = VersionsOf(DeletedDoc),
                               !.left = VersionsOf(DeletedDoc)]
              ELSE IdleDeletion
    /\ UNCHANGED storeVars

(* delete_by_version, one version after the other, oldest first. *)
DeleteVectors(v) ==
    /\ del.step = "vectors"
    /\ v \in del.left
    /\ \A u \in del.left : v <= u
    /\ vectors' = [vectors EXCEPT ![v] = "none"]
    /\ del' = [del EXCEPT !.left = @ \ {v},
                          !.step = IF del.left = {v} THEN "cleanup" ELSE @]
    /\ UNCHANGED <<docs, vers, claims, roots, objects, jobs, target>>

(* cleanup_content: by document, so it also takes versions created since. *)
CleanupContent ==
    LET gone == VersionsOf(DeletedDoc) IN
    /\ del.step = "cleanup"
    /\ roots' = roots \ gone
    /\ claims' = [c \in Content |-> IF claims[c] \in gone THEN NoVersion
                                                          ELSE claims[c]]
    /\ vers' = [v \in Version |-> IF v \in gone
                                  THEN [vers[v] EXCEPT !.status = "deleted"]
                                  ELSE vers[v]]
    /\ del' = [del EXCEPT !.step = "objects"]
    /\ UNCHANGED <<docs, vectors, objects, jobs, target>>

(* Under the mutation guard: an object no live version refers to goes. *)
DeleteObjects ==
    LET keys == {vers[v].content : v \in del.versions} IN
    /\ del.step = "objects"
    /\ objects' = {c \in objects : c \in keys => Referenced(c)}
    /\ del' = [del EXCEPT !.step = "finalize"]
    /\ UNCHANGED <<docs, vers, claims, roots, vectors, jobs, target>>

(* The tombstone and succeed, in one transaction.  The caller's now is     *)
(* that of the start of the saga, so an expired lease still passes as long *)
(* as recovery has not taken the job away.                                 *)
FinalizeDeletion ==
    LET row == jobs[del.job]
        accepted == row.owner = Deleter /\ row.status = "running" /\ ~row.cancel IN
    /\ del.step = "finalize"
    /\ IF accepted
       THEN /\ docs' = [docs EXCEPT ![DeletedDoc] =
                            [status |-> "deleted", active |-> NoVersion]]
            /\ jobs' = [jobs EXCEPT ![del.job] = Succeeded(@)]
       ELSE UNCHANGED <<docs, jobs>>
    /\ del' = IdleDeletion
    /\ UNCHANGED <<vers, claims, roots, vectors, objects, target>>

(* The process dies or a store call raises: execute handles no exception,  *)
(* the job is left to lease recovery and the saga starts over.             *)
StopDeletion ==
    /\ del # IdleDeletion
    /\ del' = IdleDeletion
    /\ UNCHANGED storeVars

AdvanceDeletion ==
    \/ \E j \in JobId : LeaseDeletion(j)
    \/ LoadDeletion
    \/ \E v \in Version : DeleteVectors(v)
    \/ CleanupContent \/ DeleteObjects \/ FinalizeDeletion
=============================================================================
