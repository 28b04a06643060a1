-------------------------- MODULE IndexMaintenance --------------------------
(***************************************************************************)
(* The three parties that rewrite the index of a document in the single    *)
(* runtime process, for one document with one version: manual cleaning     *)
(* (services/manual_llm_cleaning.py), the provider reindex                 *)
(* (services/provider_reindex.py) and the deletion of the document         *)
(* (services/lifecycle.py); the provider choice that becomes active when   *)
(* the process starts, and the reconcile command, run while it is stopped. *)
(*                                                                         *)
(* Each call to a store is one action.  The lock of cleaning is one per    *)
(* version and the lock of reindex one per process, so there is at most    *)
(* one of each; nothing excludes the three from each other.                *)
(*                                                                         *)
(* A call of cleaning or of reindex may fail before it took effect, or     *)
(* after it: a transaction is committed and its answer lost, or its caller *)
(* cancelled.  Either way the handler of the failure runs.                 *)
(***************************************************************************)
EXTENDS IndexStores

VARIABLES
    active,     \* the revision of the running process, or Down
    chosen,     \* the revision of the provider selection file
    cleaner,    \* manual cleaning: its step and the content it read
    indexer,    \* reindex: its step and the content it read
    deleter,    \* the delete job: the step it is at
    strays,     \* history: how a party got in the way of another
    crashes     \* bound: how often the process was stopped

CONSTANTS Down, MaxCrashes

ASSUME MaxCrashesAssumption == MaxCrashes \in Nat

vars == <<storeVars, active, chosen, cleaner, indexer, deleter, strays, crashes>>

Idle == [step |-> "idle", read |-> NoContent]

CleanerStep == {"idle", "call", "mark", "drop", "stage", "activate", "persist",
                "undo", "restage", "reactivate", "reopen", "fail"}
IndexerStep == {"idle", "compare", "stage", "activate", "swap", "abandon", "prune"}
DeleterStep == {"none", "vectors", "content", "final", "done"}

PartiesTypeOK ==
    /\ active \in Revision \cup {Down}
    /\ chosen \in Revision
    /\ cleaner \in [step : CleanerStep, read : Content \cup {NoContent}]
    /\ indexer \in [step : IndexerStep, read : Content \cup {NoContent}]
    /\ deleter \in DeleterStep
    /\ strays \subseteq {"reindexedWhileCleaned", "deletedWhileMaintained",
                         "killedWhileCleaned", "unansweredCommit",
                         "unansweredMark", "unmarkedFailure"}
    /\ crashes \in 0 .. MaxCrashes
    /\ active = Down => cleaner = Idle /\ indexer = Idle

TypeOK == StoreTypeOK /\ PartiesTypeOK

Init ==
    /\ doc = Indexed
    /\ \E rev \in Revision :
        /\ content = [text |-> "original", rev |-> rev]
        /\ vectors = [r \in Revision |->
                         IF r = rev THEN Rows(LeavesOf(content), "ready") ELSE {}]
        /\ active = rev
        /\ chosen = rev
    /\ cleaner = Idle
    /\ indexer = Idle
    /\ deleter = "none"
    /\ strays = {}
    /\ crashes = 0

Up == active # Down

(* Cleaning has made the document unanswerable and not yet opened it again. *)
Cleaning == cleaner.step \notin {"idle", "call", "mark"}

CleanerStrays(step, ways) ==
    /\ cleaner' = IF step = "idle" THEN Idle ELSE [cleaner EXCEPT !.step = step]
    /\ strays' = strays \cup ways
    /\ UNCHANGED <<active, chosen, indexer, deleter, crashes>>

CleanerGoes(step) ==
    CleanerStrays(step, IF step = "drop" /\ indexer # Idle
                        THEN {"reindexedWhileCleaned"} ELSE {})

IndexerStrays(step, ways) ==
    /\ indexer' = IF step = "idle" THEN Idle ELSE [indexer EXCEPT !.step = step]
    /\ strays' = strays \cup ways
    /\ UNCHANGED <<active, chosen, cleaner, deleter, crashes>>

IndexerGoes(step) == IndexerStrays(step, {})

DeleterGoes(step) ==
    /\ deleter' = step
    /\ UNCHANGED <<active, chosen, cleaner, indexer, strays, crashes>>

-----------------------------------------------------------------------------
(* Manual cleaning.                                                        *)

(* The snapshot and the preflight on it: one pass per version. *)
BeginCleaning ==
    /\ Up
    /\ cleaner = Idle
    /\ Visible
    /\ content.text = "original"
    /\ cleaner' = [step |-> "call", read |-> content]
    /\ UNCHANGED <<storeVars, active, chosen, indexer, deleter, strays, crashes>>

(* The call of the model, the parsing of its answer, and the new split. *)
CallModel ==
    /\ cleaner.step = "call"
    /\ \E step \in {"mark", "idle"} : CleanerGoes(step)
    /\ UNCHANGED storeVars

(* The mark took effect and its call raised: clean() has not set started   *)
(* yet, so nothing is undone.                                              *)
MarkUnanswered ==
    /\ doc' = [doc EXCEPT !.status = "processing", !.version = "processing"]
    /\ CleanerStrays("idle", {"unansweredMark"})

(* Seeded bug: the content is not compared with the one that was read. *)
MarkUncompared ==
    /\ cleaner.step = "mark"
    /\ \/ /\ Visible
          /\ \/ /\ doc' = [doc EXCEPT !.status = "processing", !.version = "processing"]
                /\ CleanerGoes("drop")
             \/ MarkUnanswered
       \/ doc' = doc /\ CleanerGoes("idle")
    /\ UNCHANGED <<content, vectors>>

(* The statuses, the active version and a fingerprint of the Roots are     *)
(* compared with what was read.                                            *)
MarkProcessing ==
    /\ cleaner.step = "mark"
    /\ \/ /\ Visible
          /\ content = cleaner.read
          /\ \/ /\ doc' = [doc EXCEPT !.status = "processing", !.version = "processing"]
                /\ CleanerGoes("drop")
             \/ MarkUnanswered
       \/ doc' = doc /\ CleanerGoes("idle")
    /\ UNCHANGED <<content, vectors>>

Cleaned == [cleaner.read EXCEPT !.text = "cleaned"]

DropVersion ==
    /\ cleaner.step = "drop"
    /\ \/ vectors' = Dropped /\ CleanerGoes("stage")
       \/ PartlyDropped /\ CleanerGoes("undo")
    /\ UNCHANGED <<doc, content>>

ProjectCleaned ==
    LET rev == cleaner.read.rev  leaves == LeavesOf(Cleaned) IN
    /\ \/ cleaner.step = "stage" /\ Staged(rev, leaves) /\ CleanerGoes("activate")
       \/ cleaner.step = "activate" /\ Activated(rev, leaves) /\ CleanerGoes("persist")
       \/ cleaner.step \in {"stage", "activate"} /\ Abandoned(rev, leaves) /\ CleanerGoes("undo")
    /\ UNCHANGED <<doc, content>>

(* Seeded bug: a failed write gives up at once. *)
PersistOrGiveUp ==
    /\ cleaner.step = "persist"
    /\ \/ /\ doc.status = "processing" /\ doc.version = "processing"
          /\ content' = Cleaned
          /\ doc' = [doc EXCEPT !.status = "ready", !.version = "indexed"]
       \/ UNCHANGED <<content, doc>>
    /\ CleanerGoes("idle")
    /\ UNCHANGED vectors

(* Both statuses are read again; the transaction may fail, and it may have *)
(* taken effect when its call raises.                                      *)
Persist ==
    /\ cleaner.step = "persist"
    /\ \/ /\ doc.status = "processing" /\ doc.version = "processing"
          /\ content' = Cleaned
          /\ doc' = [doc EXCEPT !.status = "ready", !.version = "indexed"]
          /\ CleanerGoes("idle") \/ CleanerStrays("undo", {"unansweredCommit"})
       \/ /\ UNCHANGED <<content, doc>>
          /\ CleanerGoes("undo")
    /\ UNCHANGED vectors

(* _restore: the rows that were read are projected again ... *)
UndoCleaning ==
    LET rev == cleaner.read.rev  leaves == LeavesOf(cleaner.read) IN
    /\ \/ cleaner.step = "undo" /\ vectors' = Dropped /\ CleanerGoes("restage")
       \/ cleaner.step = "restage" /\ Staged(rev, leaves) /\ CleanerGoes("reactivate")
       \/ cleaner.step = "reactivate" /\ Activated(rev, leaves) /\ CleanerGoes("reopen")
       \/ cleaner.step = "undo" /\ PartlyDropped /\ CleanerGoes("fail")
       \/ cleaner.step \in {"restage", "reactivate"} /\ Abandoned(rev, leaves) /\ CleanerGoes("fail")
    /\ UNCHANGED <<doc, content>>

(* Seeded bug: the version that was active when it was read is written     *)
(* back with them.                                                         *)
ReopenActive ==
    /\ cleaner.step = "reopen"
    /\ doc' = [active |-> TRUE, status |-> "ready", version |-> "indexed"]
    /\ CleanerGoes("idle")
    /\ UNCHANGED <<content, vectors>>

(* ... and the statuses written back, whatever they have become since. *)
Reopen ==
    /\ cleaner.step = "reopen"
    /\ \/ /\ doc' = [doc EXCEPT !.status = "ready", !.version = "indexed"]
          /\ \E step \in {"idle", "fail"} : CleanerGoes(step)
       \/ doc' = doc /\ CleanerGoes("fail")
    /\ UNCHANGED <<content, vectors>>

(* _mark_failed, which also overwrites whatever the statuses have become;  *)
(* nobody catches its own failure.                                         *)
MarkUnrestored ==
    /\ cleaner.step = "fail"
    /\ \/ /\ doc' = [doc EXCEPT !.status = "failed", !.version = "failed"]
          /\ CleanerGoes("idle")
       \/ /\ doc' = doc
          /\ CleanerStrays("idle", {"unmarkedFailure"})
    /\ UNCHANGED <<content, vectors>>

-----------------------------------------------------------------------------
(* Provider reindex.                                                       *)

BeginReindex ==
    /\ Up
    /\ indexer = Idle
    /\ Visible
    /\ indexer' = [step |-> "compare", read |-> content]
    /\ UNCHANGED <<storeVars, active, chosen, cleaner, deleter, strays, crashes>>

(* The revision of the snapshot, the leaves and rows as they are now. *)
Compatible ==
    /\ indexer.read.rev = active
    /\ LeavesOf(content) # {}
    /\ Count(active) = Cardinality(LeavesOf(content))

Compare ==
    /\ indexer.step = "compare"
    /\ IndexerGoes(IF Compatible THEN "idle" ELSE "stage")
    /\ UNCHANGED storeVars

Recut == [indexer.read EXCEPT !.rev = active]

ProjectRecut ==
    LET leaves == LeavesOf(Recut) IN
    /\ \/ indexer.step = "stage" /\ Staged(active, leaves) /\ IndexerGoes("activate")
       \/ indexer.step = "activate" /\ Activated(active, leaves) /\ IndexerGoes("swap")
       \/ indexer.step \in {"stage", "activate"} /\ Abandoned(active, leaves) /\ IndexerGoes("abandon")
    /\ UNCHANGED <<doc, content>>

(* The swap is one transaction and looks at nothing; before it the rows    *)
(* are counted once more.  A failed call is followed by the clean-up, also *)
(* when the swap took effect.                                              *)
SwapContent ==
    /\ indexer.step = "swap"
    /\ \/ /\ Count(active) = Cardinality(LeavesOf(Recut))
          /\ content' = Recut
          /\ \/ IndexerGoes(IF indexer.read.rev = active THEN "idle" ELSE "prune")
             \/ IndexerStrays("abandon", {"unansweredCommit"})
       \/ content' = content /\ IndexerGoes("abandon")
    /\ UNCHANGED <<doc, vectors>>

(* Seeded bug: the clean-up of a failed reindex takes the whole version. *)
CleanupVersion ==
    /\ indexer.step = "abandon"
    /\ vectors' = Dropped
    /\ IndexerGoes("idle")
    /\ UNCHANGED <<doc, content>>

(* The rows of the new revision go; a failure of that is swallowed. *)
CleanupTarget ==
    /\ indexer.step = "abandon"
    /\ vectors' \in {DroppedRevision(active), vectors}
    /\ IndexerGoes("idle")
    /\ UNCHANGED <<doc, content>>

(* The rows of the old revision go, or the run is reported as degraded. *)
PruneOld ==
    /\ indexer.step = "prune"
    /\ vectors' \in {DroppedRevision(indexer.read.rev), vectors}
    /\ IndexerGoes("idle")
    /\ UNCHANGED <<doc, content>>

-----------------------------------------------------------------------------
(* Deletion.                                                               *)

RequestDelete ==
    /\ Up
    /\ doc.status \notin {"deleting", "deleted"}
    /\ deleter \in {"none", "done"}
    /\ doc' = [doc EXCEPT !.status = "deleting", !.active = FALSE]
    /\ deleter' = "vectors"
    /\ strays' = IF Cleaning \/ indexer # Idle
                 THEN strays \cup {"deletedWhileMaintained"} ELSE strays
    /\ UNCHANGED <<content, vectors, active, chosen, cleaner, indexer, crashes>>

(* Seeded bug: only the collection of the active revision is cleared. *)
DeleteActiveVectors ==
    /\ Up
    /\ deleter = "vectors"
    /\ vectors' = DroppedRevision(active)
    /\ DeleterGoes("content")
    /\ UNCHANGED <<doc, content>>

DeleteVectors ==
    /\ Up
    /\ deleter = "vectors"
    /\ vectors' = Dropped
    /\ DeleterGoes("content")
    /\ UNCHANGED <<doc, content>>

CleanupContent ==
    /\ Up
    /\ deleter = "content"
    /\ content' = NoContent
    /\ doc' = [doc EXCEPT !.version = "deleted"]
    /\ DeleterGoes("final")
    /\ UNCHANGED vectors

FinalizeDeletion ==
    /\ Up
    /\ deleter = "final"
    /\ doc' = [doc EXCEPT !.status = "deleted", !.active = FALSE]
    /\ DeleterGoes("done")
    /\ UNCHANGED <<content, vectors>>

-----------------------------------------------------------------------------
(* The process.                                                            *)

(* RuntimeProviderCatalog.select: written to the file, used after a start. *)
SelectProvider ==
    /\ Up
    /\ \E rev \in Revision \ {chosen} : chosen' = rev
    /\ UNCHANGED <<storeVars, active, cleaner, indexer, deleter, strays, crashes>>

(* Whatever ran is gone; the delete job starts over. *)
Stop ==
    /\ Up
    /\ crashes < MaxCrashes
    /\ crashes' = crashes + 1
    /\ active' = Down
    /\ cleaner' = Idle
    /\ indexer' = Idle
    /\ deleter' = IF deleter \in {"none", "done"} THEN deleter ELSE "vectors"
    /\ strays' = IF Cleaning THEN strays \cup {"killedWhileCleaned"} ELSE strays
    /\ UNCHANGED <<storeVars, chosen>>

(* The revisions the vector store lists: those that hold rows. *)
Projections == {rev \in Revision : Count(rev) > 0}

(* The revisions PostgreSQL owns: that of the Roots, unless the version is *)
(* deleted.                                                                *)
OwnedRevisions == IF doc.version = "deleted" THEN {} ELSE {content.rev} \cap Revision

(* run_vectors with apply. *)
Reconcile ==
    /\ active = Down
    /\ vectors' = [rev \in Revision |->
                      IF rev \in Projections \ OwnedRevisions THEN {} ELSE vectors[rev]]
    /\ UNCHANGED <<doc, content, active, chosen, cleaner, indexer, deleter, strays, crashes>>

Start ==
    /\ active = Down
    /\ active' = chosen
    /\ UNCHANGED <<storeVars, chosen, cleaner, indexer, deleter, strays, crashes>>

-----------------------------------------------------------------------------
Clean ==
    \/ BeginCleaning \/ CallModel \/ MarkProcessing \/ DropVersion \/ ProjectCleaned
    \/ Persist \/ UndoCleaning \/ Reopen \/ MarkUnrestored
Reindex ==
    BeginReindex \/ Compare \/ ProjectRecut \/ SwapContent \/ CleanupTarget \/ PruneOld
Delete == RequestDelete \/ DeleteVectors \/ CleanupContent \/ FinalizeDeletion
Process == SelectProvider \/ Stop \/ Reconcile \/ Start

Next == Clean \/ Reindex \/ Delete \/ Process

Spec == Init /\ [][Next]_vars

-----------------------------------------------------------------------------
(* Once its deletion is requested a document is never answered from again, *)
(* although a cleaning that fails meanwhile writes "ready" over            *)
(* "deleting" (manual_llm_cleaning.py:518): active_version_id stays empty. *)
DeletedStaysHidden == deleter # "none" => ~Visible

(* Unless a reindex ran into a cleaning, or one of them was told that its  *)
(* committed text had failed and undid what it had projected for it, a     *)
(* document that is answered from has every leaf ready in the collection   *)
(* of its revision, whatever other call of a cleaning, a reindex or a      *)
(* reconcile failed, and wherever the process died.                        *)
VisibleIsIndexed ==
    Visible /\ strays \cap {"reindexedWhileCleaned", "unansweredCommit"} = {}
        => Searchable

(* A cleaning leaves no document in "processing" when it ends, unless the  *)
(* process died under it, the answer to its mark was lost, or the failure  *)
(* of its undoing could not be written either: nothing else would take the *)
(* document out of there.                                                  *)
ProcessingIsOwned ==
    doc.status = "processing"
    /\ strays \cap {"killedWhileCleaned", "unansweredMark", "unmarkedFailure"} = {}
        => Cleaning

(* A deletion that met no maintenance leaves neither text nor rows, in     *)
(* whatever revisions the version has been indexed before, even if it was  *)
(* interrupted and run again.                                              *)
DeletedIsGone ==
    deleter = "done" /\ "deletedWhileMaintained" \notin strays
        => content = NoContent /\ vectors = Dropped

(* Unless a reindex ran into it, a cleaning replaces the original only in  *)
(* the revision it is indexed in by then, and the cleaned text is not      *)
(* lost: it stays until the document is deleted.                           *)
CleaningIsKept ==
    [][ "reindexedWhileCleaned" \notin strays =>
        /\ content.text = "original" /\ content'.text = "cleaned"
              => content'.rev = content.rev
        /\ content.text = "cleaned" => content'.text \in {"cleaned", "none"} ]_vars
=============================================================================
