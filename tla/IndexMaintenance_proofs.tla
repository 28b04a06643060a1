----------------------- MODULE IndexMaintenance_proofs -----------------------
(***************************************************************************)
(* Index maintenance for any set of revisions and any number of leaves per *)
(* text.                                                                   *)
(*                                                                         *)
(* That a document that is answered from is indexed is not inductive: a    *)
(* reindex replaces rows that are in use unless it writes to another       *)
(* revision, which it does because equal numbers of leaves and rows made   *)
(* it stop before, which is right because the rows of the document are     *)
(* exactly its leaves.  The invariant therefore follows what each party    *)
(* has read, and says that the others have not changed it.                 *)
(***************************************************************************)
EXTENDS IndexMaintenance, FiniteSetTheorems, FunctionTheorems, TLAPS

(* A party that is at work has read a content, in a process that is up. *)
PartiesRead ==
    /\ cleaner.step = "idle" => cleaner = Idle
    /\ indexer.step = "idle" => indexer = Idle
    /\ cleaner.step # "idle" => cleaner.read \in Content /\ Up
    /\ indexer.step # "idle" => indexer.read \in Content /\ Up

(* No collection is ever infinite, so that counting its rows means something. *)
RowsAreFinite == \A rev \in Revision : IsFiniteSet(vectors[rev])

(* A deletion takes the document out of the answers for good, and no       *)
(* cleaning can claim it again; until then there is a content.             *)
DeletionCloses ==
    /\ deleter # "none" => ~doc.active /\ doc.status # "processing"
    /\ deleter = "none" => content \in Content

(* A cleaning that has closed the document keeps it closed while it writes *)
(* the new text, and undoes what it did while it is told of a failure; at  *)
(* "fail" the document may be open again, if the answer to that was lost.  *)
Rewriting == cleaner.step \in {"drop", "stage", "activate", "persist"}
Undoing == cleaner.step \in {"undo", "restage", "reactivate", "reopen"}

Clash == "reindexedWhileCleaned" \in strays
Unanswered == "unansweredCommit" \in strays

(* What a cleaning that undoes something holds on to is the document as it *)
(* was, unless its write, or that of a reindex, had been committed.        *)
CleanerOwns == Rewriting \/ (Undoing /\ ~Unanswered)

(* A cleaning keeps the document closed. *)
CleaningCloses == CleanerOwns /\ deleter = "none" => doc.status = "processing"

Exactly(rev, c) == vectors[rev] = Rows(LeavesOf(c), "ready")

(* Unless a reindex ran into a cleaning there is one of them at a time,    *)
(* and the text is the one the reindex read.                               *)
ApartFromEachOther ==
    ~Clash /\ indexer # Idle =>
        /\ ~CleanerOwns
        /\ content = NoContent \/ content.text = indexer.read.text

(* While nothing is deleted, the content is the one that cleaning read ... *)
CleanerHolds ==
    ~Clash /\ deleter = "none" /\ CleanerOwns =>
        /\ content = cleaner.read
        /\ cleaner.step = "persist" => Exactly(cleaner.read.rev, Cleaned)
        /\ cleaner.step = "reopen" => Exactly(cleaner.read.rev, cleaner.read)

(* ... or the one that reindexing read, until it has replaced it.          *)
IndexerHolds ==
    ~Clash /\ ~Unanswered /\ Visible /\ indexer # Idle =>
        /\ content = IF indexer.step = "prune" THEN Recut ELSE indexer.read
        /\ indexer.step # "compare" => indexer.read.rev # active
        /\ indexer.step = "swap" => Exactly(active, Recut)

(* What is answered from has its leaves in its collection, and no others. *)
VisibleIsExact == Visible /\ ~Clash /\ ~Unanswered => Exactly(content.rev, content)

(* A deletion that met no maintenance has the document for itself. *)
DeletionProceeds ==
    deleter # "none" /\ "deletedWhileMaintained" \notin strays =>
        /\ indexer = Idle /\ ~Cleaning
        /\ deleter \in {"content", "final", "done"} => vectors = Dropped
        /\ deleter \in {"final", "done"} => content = NoContent

IInv ==
    /\ TypeOK
    /\ PartiesRead
    /\ RowsAreFinite
    /\ DeletionCloses
    /\ CleaningCloses
    /\ ApartFromEachOther
    /\ CleanerHolds
    /\ IndexerHolds
    /\ VisibleIsExact
    /\ DeletionProceeds
    /\ ProcessingIsOwned

-----------------------------------------------------------------------------
(* The leaves of a content are finitely many, and rows of them are rows. *)
LEMMA LeavesAreFinite ==
    ASSUME NEW c \in Content
    PROVE  LeavesOf(c) \subseteq Leaf /\ IsFiniteSet(LeavesOf(c)) /\ LeavesOf(c) # {}
<1>1. c # NoContent /\ PartsOf[c.text] \in Nat \ {0}
    BY PartsAssumption DEF Content, NoContent, Text
<1> DEFINE Parts == 1 .. PartsOf[c.text]
           leaf == [n \in Parts |-> [text |-> c.text, rev |-> c.rev, part |-> n]]
<1>2. IsFiniteSet(Parts)
    BY <1>1, FS_Interval
<1>3. leaf \in Surjection(Parts, LeavesOf(c))
    BY <1>1 DEF LeavesOf, Surjection
<1>4. IsFiniteSet(LeavesOf(c))
    BY <1>2, <1>3, FS_Surjection
<1>5. LeavesOf(c) # {}
  <2>1. 1 \in Parts
      BY <1>1
  <2>2. [text |-> c.text, rev |-> c.rev, part |-> 1] \in LeavesOf(c)
      BY <1>1, <2>1 DEF LeavesOf
  <2> QED BY <2>2
<1> QED BY <1>4, <1>5 DEF Leaf

LEMMA RowsAreRows ==
    ASSUME NEW leaves \in SUBSET Leaf, IsFiniteSet(leaves),
           NEW status \in {"processing", "ready"}
    PROVE  Rows(leaves, status) \subseteq Row /\ IsFiniteSet(Rows(leaves, status))
<1> DEFINE row == [leaf \in leaves |-> [leaf |-> leaf, status |-> status]]
<1>1. row \in Surjection(leaves, Rows(leaves, status))
    BY DEF Surjection, Rows
<1>2. IsFiniteSet(Rows(leaves, status))
    BY <1>1, FS_Surjection
<1> QED BY <1>2 DEF Rows, Row
(* What the store holds after an upsert, a projection step or a failed one. *)
StoreOK == vectors \in [Revision -> SUBSET Row] /\ RowsAreFinite

LEMMA UpsertKeeps ==
    ASSUME StoreOK, NEW rev \in Revision, NEW leaves \in SUBSET Leaf, IsFiniteSet(leaves),
           NEW status \in {"processing", "ready"},
           vectors' = Upserted(rev, leaves, status)
    PROVE  /\ StoreOK'
           /\ Rows(leaves, status) \subseteq vectors'[rev]
           /\ \A row \in vectors'[rev] : row \in Rows(leaves, status) \/ row.leaf \notin leaves
           /\ \A r \in Revision \ {rev} : vectors'[r] = vectors[r]
<1> DEFINE kept == {row \in vectors[rev] : row.leaf \notin leaves}
<1>1. vectors' = [vectors EXCEPT ![rev] = kept \cup Rows(leaves, status)]
    BY DEF Upserted
<1>2. Rows(leaves, status) \subseteq Row /\ IsFiniteSet(Rows(leaves, status))
    BY RowsAreRows
<1>3. kept \subseteq Row /\ IsFiniteSet(kept)
  <2>1. IsFiniteSet(vectors[rev]) /\ kept \in SUBSET vectors[rev]
      BY DEF StoreOK, RowsAreFinite
  <2> QED BY <2>1, FS_Subset DEF StoreOK
<1>4. IsFiniteSet(kept \cup Rows(leaves, status))
    BY <1>2, <1>3, FS_Union
<1>5. vectors'[rev] = kept \cup Rows(leaves, status)
    BY <1>1 DEF StoreOK
<1>6. \A r \in Revision \ {rev} : vectors'[r] = vectors[r]
    BY <1>1 DEF StoreOK
<1>7. vectors' \in [Revision -> SUBSET Row]
    BY <1>1, <1>2, <1>3 DEF StoreOK
<1>8. RowsAreFinite'
    BY <1>4, <1>5, <1>6 DEF StoreOK, RowsAreFinite
<1> QED BY <1>5, <1>6, <1>7, <1>8 DEF StoreOK

(* If as many leaves are counted as were written, there are no others. *)
LEMMA CountedIsExact ==
    ASSUME NEW rows, IsFiniteSet(rows), NEW leaves,
           Rows(leaves, "ready") \subseteq rows,
           \A row \in rows : row \in Rows(leaves, "ready") \/ row.leaf \notin leaves,
           Cardinality({row.leaf : row \in rows}) = Cardinality(leaves)
    PROVE  rows = Rows(leaves, "ready")
<1> DEFINE stored == {row.leaf : row \in rows}
           leafOf == [row \in rows |-> row.leaf]
<1>1. IsFiniteSet(stored)
  <2>1. leafOf \in Surjection(rows, stored)
      BY DEF Surjection
  <2> QED BY <2>1, FS_Surjection
<1>2. leaves \in SUBSET stored
  <2>1. ASSUME NEW leaf \in leaves PROVE leaf \in stored
    <3>1. [leaf |-> leaf, status |-> "ready"] \in rows
        BY DEF Rows
    <3> QED BY <3>1
  <2> QED BY <2>1
<1>3. Cardinality(stored) = Cardinality(leaves)
    OBVIOUS
<1> HIDE DEF stored
<1>4. stored = leaves
    BY <1>1, <1>2, <1>3, FS_Subset
<1>5. \A row \in rows : row.leaf \in leaves
    BY <1>4 DEF stored
<1> QED BY <1>5

LEMMA ProjectionKeeps ==
    ASSUME StoreOK, NEW rev \in Revision, NEW leaves \in SUBSET Leaf, IsFiniteSet(leaves),
           Staged(rev, leaves) \/ Activated(rev, leaves) \/ Abandoned(rev, leaves)
    PROVE  /\ StoreOK'
           /\ \A r \in Revision \ {rev} : vectors'[r] = vectors[r]
<1>1. CASE Staged(rev, leaves)
    BY <1>1, UpsertKeeps DEF Staged
<1>2. CASE Activated(rev, leaves)
    BY <1>2, UpsertKeeps DEF Activated
<1>3. CASE \E written \in SUBSET leaves, status \in {"processing", "ready"} :
              vectors' = Upserted(rev, written, status)
  <2>1. PICK written \in SUBSET leaves, status \in {"processing", "ready"} :
            vectors' = Upserted(rev, written, status)
      BY <1>3
  <2>2. IsFiniteSet(written) /\ written \in SUBSET Leaf
      BY FS_Subset
  <2> QED BY <2>1, <2>2, UpsertKeeps
<1>4. CASE vectors' = DroppedRevision(rev)
  <2>1. IsFiniteSet({})
      BY FS_EmptySet
  <2> QED BY <1>4, <2>1 DEF DroppedRevision, StoreOK, RowsAreFinite
<1> QED BY <1>1, <1>2, <1>3, <1>4 DEF Abandoned

LEMMA ActivatedIsExact ==
    ASSUME StoreOK, NEW rev \in Revision, NEW leaves \in SUBSET Leaf, IsFiniteSet(leaves),
           Activated(rev, leaves)
    PROVE  vectors'[rev] = Rows(leaves, "ready")
<1>1. /\ vectors' = Upserted(rev, leaves, "ready")
      /\ Cardinality({row.leaf : row \in vectors'[rev]}) = Cardinality(leaves)
    BY DEF Activated
<1>2. /\ StoreOK'
      /\ Rows(leaves, "ready") \subseteq vectors'[rev]
      /\ \A row \in vectors'[rev] : row \in Rows(leaves, "ready") \/ row.leaf \notin leaves
    BY <1>1, UpsertKeeps
<1>3. IsFiniteSet(vectors'[rev])
    BY <1>2 DEF StoreOK, RowsAreFinite
<1> QED BY <1>1, <1>2, <1>3, CountedIsExact
-----------------------------------------------------------------------------
(* What the actions move, in the terms of the invariant. *)
LEMMA ContentsAreTexts ==
    /\ NoContent \notin Content
    /\ \A c \in Content : c.text \in {"original", "cleaned"} /\ c.rev \in Revision
BY PartsAssumption DEF Text, Content, NoContent

LEMMA StoresSound ==
    ASSUME IInv
    PROVE  StoreOK /\ (Up => active \in Revision)
BY DEF IInv, TypeOK, PartiesTypeOK, StoreTypeOK, StoreOK, Up

LEMMA DocMoves ==
    ASSUME IInv,
           NEW status \in {"ready", "processing", "failed", "deleting", "deleted"},
           NEW version \in {"indexed", "processing", "failed", "deleted"},
           doc' = [doc EXCEPT !.status = status, !.version = version]
    PROVE  /\ doc'.status = status /\ doc'.version = version
           /\ doc'.active = doc.active
           /\ content' \in Content \cup {NoContent} /\ vectors' = vectors => StoreTypeOK'
BY DEF IInv, TypeOK, StoreTypeOK

LEMMA CleanerMoves ==
    ASSUME IInv, cleaner.step # "idle", NEW step \in CleanerStep, CleanerGoes(step)
    PROVE  /\ PartiesTypeOK'
           /\ cleaner'.step = step
           /\ step = "idle" => cleaner' = Idle
           /\ step # "idle" => cleaner'.read = cleaner.read
           /\ UNCHANGED <<active, indexer, deleter>>
           /\ Clash \/ (step = "drop" /\ indexer # Idle) => Clash'
           /\ Clash' => Clash \/ (step = "drop" /\ indexer # Idle)
           /\ Unanswered' <=> Unanswered
           /\ \A s \in {"deletedWhileMaintained", "killedWhileCleaned",
                         "unansweredMark", "unmarkedFailure"} :
                 s \in strays' <=> s \in strays
<1>1. Up /\ cleaner.read \in Content
    BY DEF IInv, PartiesRead
<1>2. cleaner' \in [step : CleanerStep, read : Content \cup {NoContent}]
    BY DEF CleanerGoes, CleanerStrays, IInv, TypeOK, PartiesTypeOK, Idle
<1>3. cleaner'.step = step /\ (step # "idle" => cleaner'.read = cleaner.read)
    BY DEF CleanerGoes, CleanerStrays, IInv, TypeOK, PartiesTypeOK, Idle
<1> QED
    BY <1>1, <1>2, <1>3
       DEF CleanerGoes, CleanerStrays, IInv, TypeOK, PartiesTypeOK, Up, Clash, Unanswered

LEMMA CleanerMovesAstray ==
    ASSUME IInv, cleaner.step # "idle", NEW step \in CleanerStep,
           NEW way \in {"unansweredCommit", "unansweredMark", "unmarkedFailure"},
           CleanerStrays(step, {way})
    PROVE  /\ PartiesTypeOK'
           /\ cleaner'.step = step
           /\ step = "idle" => cleaner' = Idle
           /\ step # "idle" => cleaner'.read = cleaner.read
           /\ UNCHANGED <<active, indexer, deleter>>
           /\ strays' = strays \cup {way}
           /\ Clash' <=> Clash
           /\ Unanswered \/ way = "unansweredCommit" => Unanswered'
           /\ \A s \in {"deletedWhileMaintained", "killedWhileCleaned"} :
                 s \in strays' <=> s \in strays
<1>1. Up /\ cleaner.read \in Content
    BY DEF IInv, PartiesRead
<1>2. cleaner' \in [step : CleanerStep, read : Content \cup {NoContent}]
    BY DEF CleanerStrays, IInv, TypeOK, PartiesTypeOK, Idle
<1>3. cleaner'.step = step /\ (step # "idle" => cleaner'.read = cleaner.read)
    BY DEF CleanerStrays, IInv, TypeOK, PartiesTypeOK, Idle
<1> QED
    BY <1>1, <1>2, <1>3
       DEF CleanerStrays, IInv, TypeOK, PartiesTypeOK, Up, Clash, Unanswered

LEMMA IndexerMoves ==
    ASSUME IInv, indexer.step # "idle", NEW step \in IndexerStep, IndexerGoes(step)
    PROVE  /\ PartiesTypeOK'
           /\ indexer'.step = step
           /\ step = "idle" => indexer' = Idle
           /\ step # "idle" => indexer'.read = indexer.read
           /\ UNCHANGED <<active, cleaner, deleter, strays>>
<1>1. Up /\ indexer.read \in Content
    BY DEF IInv, PartiesRead
<1>2. indexer' \in [step : IndexerStep, read : Content \cup {NoContent}]
    BY DEF IndexerGoes, IndexerStrays, IInv, TypeOK, PartiesTypeOK, Idle
<1>3. indexer'.step = step /\ (step # "idle" => indexer'.read = indexer.read)
    BY DEF IndexerGoes, IndexerStrays, IInv, TypeOK, PartiesTypeOK, Idle
<1> QED
    BY <1>1, <1>2, <1>3 DEF IndexerGoes, IndexerStrays, IInv, TypeOK, PartiesTypeOK, Up

LEMMA IndexerMovesAstray ==
    ASSUME IInv, indexer.step # "idle", IndexerStrays("abandon", {"unansweredCommit"})
    PROVE  /\ PartiesTypeOK'
           /\ indexer'.step = "abandon"
           /\ indexer'.read = indexer.read
           /\ UNCHANGED <<active, cleaner, deleter>>
           /\ strays' = strays \cup {"unansweredCommit"}
<1>1. Up /\ indexer.read \in Content
    BY DEF IInv, PartiesRead
<1>2. indexer' \in [step : IndexerStep, read : Content \cup {NoContent}]
    BY DEF IndexerStrays, IInv, TypeOK, PartiesTypeOK, IndexerStep, Idle
<1>3. indexer'.step = "abandon" /\ indexer'.read = indexer.read
    BY DEF IndexerStrays, IInv, TypeOK, PartiesTypeOK, Idle
<1> QED
    BY <1>1, <1>2, <1>3 DEF IndexerStrays, IInv, TypeOK, PartiesTypeOK, Up

LEMMA GivingUpMoves ==
    ASSUME IInv, MarkUnrestored
    PROVE  /\ cleaner.step = "fail" /\ cleaner' = Idle
           /\ UNCHANGED <<content, vectors, active, indexer, deleter>>
           /\ Clash' <=> Clash
           /\ Unanswered' <=> Unanswered
           /\ \A s \in {"deletedWhileMaintained", "killedWhileCleaned", "unansweredMark"} :
                 s \in strays' <=> s \in strays
           /\ \/ doc' = doc /\ "unmarkedFailure" \in strays'
              \/ /\ doc'.status = "failed" /\ doc'.active = doc.active
                 /\ "unmarkedFailure" \in strays' <=> "unmarkedFailure" \in strays
<1>1. cleaner.step = "fail" /\ UNCHANGED <<content, vectors>>
    BY DEF MarkUnrestored
<1>2. CASE /\ doc' = [doc EXCEPT !.status = "failed", !.version = "failed"]
           /\ CleanerGoes("idle")
    BY <1>1, <1>2, DocMoves, CleanerMoves DEF CleanerStep
<1>3. CASE doc' = doc /\ CleanerStrays("idle", {"unmarkedFailure"})
    BY <1>1, <1>3, CleanerMovesAstray DEF CleanerStep, Unanswered
<1> QED BY <1>2, <1>3 DEF MarkUnrestored

LEMMA DeleterMoves ==
    ASSUME IInv, NEW step \in DeleterStep, DeleterGoes(step)
    PROVE  PartiesTypeOK' /\ deleter' = step
BY DEF DeleterGoes, IInv, TypeOK, PartiesTypeOK

-----------------------------------------------------------------------------
(* The store is a store of rows, finitely many, after every step. *)
LEMMA StoreKept ==
    ASSUME IInv, Next
    PROVE  StoreOK'
<1>0. StoreOK
    BY StoresSound
<1>1. CASE ProjectCleaned
  <2>1. /\ cleaner.read.rev \in Revision
        /\ LeavesOf(Cleaned) \subseteq Leaf /\ IsFiniteSet(LeavesOf(Cleaned))
    <3>1. cleaner.read \in Content
        BY <1>1 DEF ProjectCleaned, IInv, PartiesRead
    <3>2. Cleaned \in Content
        BY <3>1, PartsAssumption DEF Cleaned, Content, Text
    <3> QED BY <3>1, <3>2, ContentsAreTexts, LeavesAreFinite
  <2> QED BY <1>0, <1>1, <2>1, ProjectionKeeps DEF ProjectCleaned
<1>2. CASE UndoCleaning
  <2>1. /\ cleaner.read.rev \in Revision
        /\ LeavesOf(cleaner.read) \subseteq Leaf /\ IsFiniteSet(LeavesOf(cleaner.read))
    <3>1. cleaner.read \in Content
        BY <1>2 DEF UndoCleaning, IInv, PartiesRead
    <3> QED BY <3>1, ContentsAreTexts, LeavesAreFinite
  <2>2. CASE vectors' = Dropped
      BY <2>2, FS_EmptySet DEF Dropped, StoreOK, RowsAreFinite
  <2>3. CASE PartlyDropped
      BY <1>0, <2>3, FS_EmptySet DEF PartlyDropped, StoreOK, RowsAreFinite
  <2> QED BY <1>0, <1>2, <2>1, <2>2, <2>3, ProjectionKeeps DEF UndoCleaning
<1>3. CASE ProjectRecut
  <2>1. /\ active \in Revision
        /\ LeavesOf(Recut) \subseteq Leaf /\ IsFiniteSet(LeavesOf(Recut))
    <3>1. indexer.read \in Content /\ active \in Revision
        BY <1>3, StoresSound DEF ProjectRecut, IInv, PartiesRead
    <3>2. Recut \in Content
        BY <3>1 DEF Recut, Content
    <3> QED BY <3>1, <3>2, LeavesAreFinite
  <2> QED BY <1>0, <1>3, <2>1, ProjectionKeeps DEF ProjectRecut
<1>4. CASE DropVersion \/ DeleteVectors \/ CleanupTarget \/ PruneOld \/ Reconcile
    BY <1>0, <1>4, FS_EmptySet
       DEF DropVersion, DeleteVectors, CleanupTarget, PruneOld, Reconcile,
           Dropped, PartlyDropped, DroppedRevision, StoreOK, RowsAreFinite
<1>5. CASE UNCHANGED vectors
    BY <1>0, <1>5 DEF StoreOK, RowsAreFinite
<1> QED
    BY <1>1, <1>2, <1>3, <1>4, <1>5
       DEF Next, Clean, Reindex, Delete, Process, BeginCleaning, CallModel, MarkProcessing,
           Persist, Reopen, MarkUnrestored, BeginReindex, Compare, SwapContent, RequestDelete,
           CleanupContent, FinalizeDeletion, SelectProvider, Stop, Start, storeVars

-----------------------------------------------------------------------------
(* Type correctness is kept. *)
LEMMA TypesKept ==
    ASSUME IInv, Next
    PROVE  TypeOK'
<1> USE DEF StoreTypeOK
<1>1. TypeOK /\ vectors' \in [Revision -> SUBSET Row]
    BY StoreKept DEF IInv, StoreOK
<1>2. CASE BeginCleaning \/ BeginReindex \/ SelectProvider \/ Start
  <2>1. CASE BeginCleaning
      BY <1>1, <2>1 DEF BeginCleaning, storeVars, TypeOK, PartiesTypeOK, CleanerStep, Up
  <2>2. CASE BeginReindex
      BY <1>1, <2>2 DEF BeginReindex, storeVars, TypeOK, PartiesTypeOK, IndexerStep, Up
  <2>3. CASE SelectProvider
      BY <1>1, <2>3 DEF SelectProvider, storeVars, TypeOK, PartiesTypeOK
  <2>4. CASE Start
      BY <1>1, <2>4 DEF Start, storeVars, TypeOK, PartiesTypeOK
  <2> QED BY <1>2, <2>1, <2>2, <2>3, <2>4
<1>3. CASE CallModel \/ DropVersion \/ ProjectCleaned \/ UndoCleaning
  <2>1. CASE CallModel
      BY <1>1, <2>1, CleanerMoves DEF CallModel, storeVars, TypeOK, CleanerStep
  <2>2. CASE DropVersion
      BY <1>1, <2>2, CleanerMoves DEF DropVersion, TypeOK, CleanerStep
  <2>3. CASE ProjectCleaned
      BY <1>1, <2>3, CleanerMoves DEF ProjectCleaned, TypeOK, CleanerStep
  <2>4. CASE UndoCleaning
      BY <1>1, <2>4, CleanerMoves DEF UndoCleaning, TypeOK, CleanerStep
  <2> QED BY <1>3, <2>1, <2>2, <2>3, <2>4
<1>4. CASE MarkProcessing
  <2>1. PartiesTypeOK'
      BY <1>4, CleanerMoves, CleanerMovesAstray
         DEF MarkProcessing, MarkUnanswered, CleanerStep
  <2>2. StoreTypeOK'
      BY <1>1, <1>4, DocMoves DEF MarkProcessing, MarkUnanswered, TypeOK
  <2> QED BY <2>1, <2>2 DEF TypeOK
<1>5. CASE Persist
  <2>1. PartiesTypeOK'
      BY <1>5, CleanerMoves, CleanerMovesAstray DEF Persist, CleanerStep
  <2>2. content' \in Content \cup {NoContent}
    <3>1. cleaner.read \in Content
        BY <1>5 DEF Persist, IInv, PartiesRead
    <3>2. Cleaned \in Content
        BY <3>1, PartsAssumption DEF Cleaned, Content, Text
    <3> QED BY <1>1, <1>5, <3>2 DEF Persist, TypeOK
  <2>3. StoreTypeOK'
      BY <1>1, <1>5, <2>2, DocMoves DEF Persist, TypeOK
  <2> QED BY <2>1, <2>3 DEF TypeOK
<1>6. CASE Reopen \/ MarkUnrestored
  <2>1. PartiesTypeOK'
      BY <1>6, CleanerMoves, CleanerMovesAstray DEF Reopen, MarkUnrestored, CleanerStep
  <2>2. StoreTypeOK'
      BY <1>1, <1>6, DocMoves DEF Reopen, MarkUnrestored, TypeOK
  <2> QED BY <2>1, <2>2 DEF TypeOK
<1>7. CASE Compare \/ ProjectRecut \/ CleanupTarget \/ PruneOld
  <2>1. CASE Compare
      BY <1>1, <2>1, IndexerMoves DEF Compare, storeVars, TypeOK, IndexerStep
  <2>2. CASE ProjectRecut
      BY <1>1, <2>2, IndexerMoves DEF ProjectRecut, TypeOK, IndexerStep
  <2>3. CASE CleanupTarget
      BY <1>1, <2>3, IndexerMoves DEF CleanupTarget, TypeOK, IndexerStep
  <2>4. CASE PruneOld
      BY <1>1, <2>4, IndexerMoves DEF PruneOld, TypeOK, IndexerStep
  <2> QED BY <1>7, <2>1, <2>2, <2>3, <2>4
<1>8. CASE SwapContent
  <2>1. PartiesTypeOK'
      BY <1>8, IndexerMoves, IndexerMovesAstray DEF SwapContent, IndexerStep
  <2>2. indexer.read \in Content /\ active \in Revision
      BY <1>8, StoresSound DEF SwapContent, IInv, PartiesRead
  <2>3. Recut \in Content
      BY <2>2 DEF Recut, Content
  <2> QED BY <1>1, <1>8, <2>1, <2>3 DEF SwapContent, TypeOK
<1>9. CASE RequestDelete \/ DeleteVectors \/ CleanupContent \/ FinalizeDeletion
  <2>1. CASE RequestDelete
      BY <1>1, <2>1 DEF RequestDelete, TypeOK, PartiesTypeOK, DeleterStep
  <2>2. CASE DeleteVectors
      BY <1>1, <2>2, DeleterMoves DEF DeleteVectors, TypeOK, DeleterStep
  <2>3. CASE CleanupContent
      BY <1>1, <2>3, DeleterMoves DEF CleanupContent, TypeOK, DeleterStep
  <2>4. CASE FinalizeDeletion
      BY <1>1, <2>4, DeleterMoves DEF FinalizeDeletion, TypeOK, DeleterStep
  <2> QED BY <1>9, <2>1, <2>2, <2>3, <2>4
<1>10. CASE Stop \/ Reconcile
  <2>1. CASE Stop
      BY <1>1, <2>1, MaxCrashesAssumption
         DEF Stop, storeVars, TypeOK, PartiesTypeOK, DeleterStep, CleanerStep,
             IndexerStep, Idle
  <2>2. CASE Reconcile
      BY <1>1, <2>2 DEF Reconcile, TypeOK, PartiesTypeOK
  <2> QED BY <1>10, <2>1, <2>2
<1> QED
    BY <1>2, <1>3, <1>4, <1>5, <1>6, <1>7, <1>8, <1>9, <1>10
       DEF Next, Clean, Reindex, Delete, Process

-----------------------------------------------------------------------------
(* What the parties are allowed at one time is kept. *)
PartiesInOrder ==
    /\ PartiesRead /\ DeletionCloses /\ CleaningCloses
    /\ ApartFromEachOther /\ DeletionProceeds /\ ProcessingIsOwned

LEMMA MarkKeepsOrder ==
    ASSUME IInv, MarkProcessing
    PROVE  PartiesInOrder'
<1> USE DEF Cleaning, CleanerOwns, Rewriting, Undoing, Idle, Up
<1>1. /\ cleaner.step = "mark" /\ cleaner.read \in Content
      /\ content' = content /\ vectors' = vectors
      /\ UNCHANGED <<active, indexer, deleter>>
    BY CleanerMoves, CleanerMovesAstray
       DEF MarkProcessing, MarkUnanswered, CleanerStep, IInv, PartiesRead
<1>2. CASE Visible /\ doc' = [doc EXCEPT !.status = "processing", !.version = "processing"]
           /\ CleanerGoes("drop")
  <2>1. cleaner'.step = "drop" /\ cleaner'.read = cleaner.read
      BY <1>1, <1>2, CleanerMoves DEF CleanerStep
  <2>2. doc'.status = "processing" /\ doc'.active = doc.active
      BY <1>2, DocMoves
  <2>3. indexer # Idle => Clash'
      BY <1>1, <1>2, CleanerMoves DEF CleanerStep
  <2>4. deleter = "none"
      BY <1>2 DEF Visible, IInv, DeletionCloses
  <2> QED
      BY <1>1, <2>1, <2>2, <2>3, <2>4
         DEF IInv, PartiesInOrder, PartiesRead, DeletionCloses, CleaningCloses,
             ApartFromEachOther, DeletionProceeds, ProcessingIsOwned
<1>3. CASE doc' = doc /\ CleanerGoes("idle")
  <2>1. /\ cleaner' = Idle /\ (Clash' <=> Clash)
        /\ \A s \in {"deletedWhileMaintained", "killedWhileCleaned",
                      "unansweredMark", "unmarkedFailure"} : s \in strays' <=> s \in strays
      BY <1>1, <1>3, CleanerMoves DEF CleanerStep
  <2> QED
      BY <1>1, <1>3, <2>1
         DEF IInv, PartiesInOrder, PartiesRead, DeletionCloses, CleaningCloses,
             ApartFromEachOther, DeletionProceeds, ProcessingIsOwned
<1>4. CASE Visible /\ MarkUnanswered
  <2>1. /\ cleaner' = Idle /\ (Clash' <=> Clash) /\ strays' = strays \cup {"unansweredMark"}
        /\ doc'.status = "processing" /\ doc'.active = doc.active
      BY <1>1, <1>4, CleanerMovesAstray, DocMoves DEF MarkUnanswered, CleanerStep
  <2>2. deleter = "none"
      BY <1>4 DEF Visible, IInv, DeletionCloses
  <2> QED
      BY <1>1, <2>1, <2>2
         DEF IInv, PartiesInOrder, PartiesRead, DeletionCloses, CleaningCloses,
             ApartFromEachOther, DeletionProceeds, ProcessingIsOwned
<1> QED BY <1>2, <1>3, <1>4 DEF MarkProcessing

LEMMA PersistKeepsOrder ==
    ASSUME IInv, Persist
    PROVE  PartiesInOrder'
<1> USE DEF Cleaning, CleanerOwns, Rewriting, Undoing, Idle, Up
<1>1. /\ cleaner.step = "persist" /\ cleaner.read \in Content
      /\ vectors' = vectors /\ UNCHANGED <<active, indexer, deleter>>
      /\ Clash' <=> Clash
      /\ Unanswered => Unanswered'
      /\ \A s \in {"deletedWhileMaintained", "killedWhileCleaned"} :
            s \in strays' <=> s \in strays
    BY CleanerMoves, CleanerMovesAstray DEF Persist, CleanerStep, IInv, PartiesRead
<1>2. CASE /\ doc.status = "processing" /\ doc.version = "processing" /\ content' = Cleaned
           /\ doc' = [doc EXCEPT !.status = "ready", !.version = "indexed"]
           /\ CleanerGoes("idle") \/ CleanerStrays("undo", {"unansweredCommit"})
  <2>1. \/ cleaner' = Idle
        \/ cleaner'.step = "undo" /\ cleaner'.read = cleaner.read /\ Unanswered'
      BY <1>1, <1>2, CleanerMoves, CleanerMovesAstray DEF CleanerStep
  <2>2. doc'.status = "ready" /\ doc'.active = doc.active
      BY <1>2, DocMoves
  <2>3. content' \in Content
      BY <1>1, <1>2, PartsAssumption DEF Cleaned, Content, Text
  <2>4. ~Clash => indexer = Idle
      BY <1>1 DEF IInv, ApartFromEachOther
  <2>5. deleter # "none" => "deletedWhileMaintained" \in strays
      BY <1>1 DEF IInv, DeletionProceeds
  <2> QED
      BY <1>1, <2>1, <2>2, <2>3, <2>4, <2>5
         DEF IInv, PartiesInOrder, PartiesRead, DeletionCloses, CleaningCloses,
             ApartFromEachOther, DeletionProceeds, ProcessingIsOwned
<1>3. CASE UNCHANGED <<content, doc>> /\ CleanerGoes("undo")
  <2>1. cleaner'.step = "undo" /\ cleaner'.read = cleaner.read
      BY <1>1, <1>3, CleanerMoves DEF CleanerStep
  <2> QED
      BY <1>1, <1>3, <2>1
         DEF IInv, PartiesInOrder, PartiesRead, DeletionCloses, CleaningCloses,
             ApartFromEachOther, DeletionProceeds, ProcessingIsOwned
<1> QED BY <1>2, <1>3 DEF Persist

LEMMA ReopenKeepsOrder ==
    ASSUME IInv, Reopen
    PROVE  PartiesInOrder'
<1> USE DEF Cleaning, CleanerOwns, Rewriting, Undoing, Idle, Up
<1>1. /\ cleaner.step = "reopen" /\ cleaner.read \in Content
      /\ UNCHANGED <<content, vectors, active, indexer, deleter>>
      /\ Clash' <=> Clash
      /\ \A s \in {"deletedWhileMaintained", "killedWhileCleaned",
                    "unansweredMark", "unmarkedFailure"} : s \in strays' <=> s \in strays
    BY CleanerMoves DEF Reopen, CleanerStep, IInv, PartiesRead
<1>2. \/ cleaner' = Idle
      \/ cleaner'.step = "fail" /\ cleaner'.read = cleaner.read
    BY <1>1, CleanerMoves DEF Reopen, CleanerStep
<1>3. CASE doc' = [doc EXCEPT !.status = "ready", !.version = "indexed"]
  <2>1. doc'.status = "ready" /\ doc'.active = doc.active
      BY <1>3, DocMoves
  <2> QED
      BY <1>1, <1>2, <2>1
         DEF IInv, PartiesInOrder, PartiesRead, DeletionCloses, CleaningCloses,
             ApartFromEachOther, DeletionProceeds, ProcessingIsOwned
<1>4. CASE doc' = doc /\ CleanerGoes("fail")
  <2>1. cleaner'.step = "fail"
      BY <1>1, <1>4, CleanerMoves DEF CleanerStep
  <2> QED
      BY <1>1, <1>2, <1>4, <2>1
         DEF IInv, PartiesInOrder, PartiesRead, DeletionCloses, CleaningCloses,
             ApartFromEachOther, DeletionProceeds, ProcessingIsOwned
<1> QED BY <1>3, <1>4 DEF Reopen

LEMMA SwapKeepsOrder ==
    ASSUME IInv, SwapContent
    PROVE  PartiesInOrder'
<1> USE DEF Cleaning, CleanerOwns, Rewriting, Undoing, Idle, Up
<1>1. /\ indexer.step = "swap" /\ indexer.read \in Content /\ active \in Revision
      /\ UNCHANGED <<doc, vectors, active, cleaner, deleter>>
      /\ indexer'.step # "idle" => indexer'.read = indexer.read
      /\ indexer'.step = "idle" => indexer' = Idle
      /\ strays' \in {strays, strays \cup {"unansweredCommit"}}
    BY IndexerMoves, IndexerMovesAstray, StoresSound
       DEF SwapContent, IndexerStep, IInv, PartiesRead
<1>2. Recut \in Content /\ Recut.text = indexer.read.text
    BY <1>1 DEF Recut, Content
<1>3. deleter # "none" => "deletedWhileMaintained" \in strays
    BY <1>1 DEF IInv, DeletionProceeds
<1>4. content' = Recut \/ content' = content
    BY DEF SwapContent
<1>5. (Clash' <=> Clash) /\ (Unanswered => Unanswered')
      /\ \A s \in {"deletedWhileMaintained", "killedWhileCleaned",
                    "unansweredMark", "unmarkedFailure"} : s \in strays' <=> s \in strays
    BY <1>1 DEF Clash, Unanswered
<1> QED
    BY <1>1, <1>2, <1>3, <1>4, <1>5
       DEF IInv, PartiesInOrder, PartiesRead, DeletionCloses, CleaningCloses,
           ApartFromEachOther, DeletionProceeds, ProcessingIsOwned

LEMMA OrderKept ==
    ASSUME IInv, Next
    PROVE  PartiesInOrder'
<1>1. CASE MarkProcessing \/ Persist \/ Reopen \/ SwapContent
    BY <1>1, MarkKeepsOrder, PersistKeepsOrder, ReopenKeepsOrder, SwapKeepsOrder
<1> USE ContentsAreTexts
    DEF IInv, PartiesInOrder, PartiesRead, DeletionCloses, CleaningCloses, ApartFromEachOther,
        DeletionProceeds, ProcessingIsOwned, TypeOK, PartiesTypeOK, StoreTypeOK, Clash,
        Unanswered, CleanerOwns, Rewriting, Undoing, Cleaning, Idle, Visible, Up, Dropped
<1>2. CASE BeginCleaning
    BY <1>2 DEF BeginCleaning, storeVars
<1>3. CASE CallModel
    BY <1>3 DEF CallModel, CleanerGoes, CleanerStrays, storeVars
<1>4. CASE DropVersion
    BY <1>4 DEF DropVersion, CleanerGoes, CleanerStrays
<1>5. CASE ProjectCleaned
    BY <1>5 DEF ProjectCleaned, CleanerGoes, CleanerStrays
<1>6. CASE UndoCleaning
    BY <1>6 DEF UndoCleaning, CleanerGoes, CleanerStrays
<1>7. CASE MarkUnrestored
    BY <1>7, GivingUpMoves
<1>8. CASE BeginReindex
    BY <1>8 DEF BeginReindex, storeVars
<1>9. CASE Compare
    BY <1>9 DEF Compare, IndexerGoes, IndexerStrays, storeVars
<1>10. CASE ProjectRecut
    BY <1>10 DEF ProjectRecut, IndexerGoes, IndexerStrays
<1>11. CASE CleanupTarget
    BY <1>11 DEF CleanupTarget, IndexerGoes, IndexerStrays
<1>12. CASE PruneOld
    BY <1>12 DEF PruneOld, IndexerGoes, IndexerStrays
<1>13. CASE RequestDelete
    BY <1>13 DEF RequestDelete
<1>14. CASE DeleteVectors
    BY <1>14 DEF DeleteVectors, DeleterGoes
<1>15. CASE CleanupContent
    BY <1>15 DEF CleanupContent, DeleterGoes
<1>16. CASE FinalizeDeletion
    BY <1>16 DEF FinalizeDeletion, DeleterGoes
<1>17. CASE SelectProvider
    BY <1>17 DEF SelectProvider, storeVars
<1>18. CASE Stop
    BY <1>18 DEF Stop, storeVars
<1>19. CASE Reconcile
    BY <1>19 DEF Reconcile
<1>20. CASE Start
    BY <1>20 DEF Start, storeVars
<1> QED
    BY <1>1, <1>2, <1>3, <1>4, <1>5, <1>6, <1>7, <1>8, <1>9, <1>10, <1>11, <1>12,
       <1>13, <1>14, <1>15, <1>16, <1>17, <1>18, <1>19, <1>20
       DEF Next, Clean, Reindex, Delete, Process

-----------------------------------------------------------------------------
(* What a cleaning has read and written stays as it is. *)
LEMMA ProjectingKeepsHold ==
    ASSUME IInv, ProjectCleaned
    PROVE  CleanerHolds'
<1> USE DEF CleanerOwns, Rewriting, Undoing
<1>1. cleaner.step \in {"stage", "activate"} /\ cleaner.read \in Content
    BY DEF ProjectCleaned, IInv, PartiesRead
<1>2. /\ content' = content /\ UNCHANGED <<active, indexer, deleter>>
      /\ cleaner'.step \in {"activate", "persist", "undo"} /\ cleaner'.read = cleaner.read
      /\ (Clash' <=> Clash) /\ (Unanswered' <=> Unanswered)
    BY <1>1, CleanerMoves DEF ProjectCleaned, CleanerStep
<1>3. CASE cleaner'.step # "persist"
    BY <1>1, <1>2, <1>3 DEF CleanerHolds, IInv
<1>4. CASE cleaner'.step = "persist"
  <2>1. Activated(cleaner.read.rev, LeavesOf(Cleaned))
    <3>1. /\ ~CleanerGoes("activate")
          /\ ~CleanerGoes("undo")
        BY <1>1, <1>4, CleanerMoves DEF CleanerStep
    <3> QED BY <3>1 DEF ProjectCleaned
  <2>2. /\ cleaner.read.rev \in Revision
        /\ LeavesOf(Cleaned) \subseteq Leaf /\ IsFiniteSet(LeavesOf(Cleaned))
    <3>1. Cleaned \in Content
        BY <1>1, PartsAssumption DEF Cleaned, Content, Text
    <3> QED BY <1>1, <3>1, ContentsAreTexts, LeavesAreFinite
  <2>3. vectors'[cleaner.read.rev] = Rows(LeavesOf(Cleaned), "ready")
      BY <2>1, <2>2, StoresSound, ActivatedIsExact
  <2>4. Exactly(cleaner.read.rev, Cleaned)'
      BY <1>2, <2>3 DEF Exactly, Cleaned
  <2> QED BY <1>1, <1>2, <1>4, <2>4 DEF CleanerHolds, IInv
<1> QED BY <1>3, <1>4

LEMMA UndoingKeepsHold ==
    ASSUME IInv, UndoCleaning
    PROVE  CleanerHolds'
<1> USE DEF CleanerOwns, Rewriting, Undoing
<1>1. cleaner.step \in {"undo", "restage", "reactivate"} /\ cleaner.read \in Content
    BY DEF UndoCleaning, IInv, PartiesRead
<1>2. /\ content' = content /\ UNCHANGED <<active, indexer, deleter>>
      /\ cleaner'.step \in {"restage", "reactivate", "reopen", "fail"}
      /\ cleaner'.read = cleaner.read
      /\ (Clash' <=> Clash) /\ (Unanswered' <=> Unanswered)
    BY <1>1, CleanerMoves DEF UndoCleaning, CleanerStep
<1>3. CASE cleaner'.step # "reopen"
    BY <1>1, <1>2, <1>3 DEF CleanerHolds, IInv
<1>4. CASE cleaner'.step = "reopen"
  <2>1. Activated(cleaner.read.rev, LeavesOf(cleaner.read))
    <3>1. ~CleanerGoes("restage") /\ ~CleanerGoes("reactivate") /\ ~CleanerGoes("fail")
        BY <1>1, <1>4, CleanerMoves DEF CleanerStep
    <3> QED BY <3>1 DEF UndoCleaning
  <2>2. /\ cleaner.read.rev \in Revision
        /\ LeavesOf(cleaner.read) \subseteq Leaf /\ IsFiniteSet(LeavesOf(cleaner.read))
      BY <1>1, ContentsAreTexts, LeavesAreFinite
  <2>3. vectors'[cleaner.read.rev] = Rows(LeavesOf(cleaner.read), "ready")
      BY <2>1, <2>2, StoresSound, ActivatedIsExact
  <2>4. Exactly(cleaner.read.rev, cleaner.read)'
      BY <1>2, <2>3 DEF Exactly
  <2> QED BY <1>1, <1>2, <1>4, <2>4 DEF CleanerHolds, IInv
<1> QED BY <1>3, <1>4

LEMMA CleanerHoldKept ==
    ASSUME IInv, Next
    PROVE  CleanerHolds'
<1>1. CASE ProjectCleaned \/ UndoCleaning
    BY <1>1, ProjectingKeepsHold, UndoingKeepsHold
<1> USE DEF CleanerOwns, Rewriting, Undoing
<1>2. CASE MarkProcessing
  <2>1. /\ cleaner.step = "mark" /\ UNCHANGED <<content, vectors>>
        /\ \/ /\ cleaner'.step = "drop" /\ cleaner'.read = cleaner.read
              /\ content = cleaner.read
           \/ cleaner' = Idle
      BY <1>2, CleanerMoves, CleanerMovesAstray
         DEF MarkProcessing, MarkUnanswered, CleanerStep
  <2> QED BY <2>1 DEF CleanerHolds, Idle
<1>3. CASE DropVersion
  <2>1. /\ cleaner.step = "drop" /\ content' = content /\ deleter' = deleter
        /\ cleaner'.step \in {"stage", "undo"} /\ cleaner'.read = cleaner.read
        /\ (Clash' <=> Clash) /\ (Unanswered' <=> Unanswered)
      BY <1>3, CleanerMoves DEF DropVersion, CleanerStep
  <2> QED BY <2>1 DEF CleanerHolds, IInv
<1>4. CASE Persist
  <2>1. /\ cleaner.step = "persist" /\ deleter' = deleter
        /\ \/ cleaner' = Idle
           \/ /\ cleaner'.step = "undo" /\ cleaner'.read = cleaner.read
              /\ content' = content \/ Unanswered'
        /\ (Clash' <=> Clash)
      BY <1>4, CleanerMoves, CleanerMovesAstray DEF Persist, CleanerStep
  <2> QED BY <2>1 DEF CleanerHolds, IInv, Idle
<1>5. CASE Reopen
  <2>1. /\ cleaner.step = "reopen" /\ deleter' = deleter
        /\ \/ cleaner' = Idle
           \/ /\ cleaner'.step = "fail" /\ cleaner'.read = cleaner.read
              /\ UNCHANGED content
        /\ (Clash' <=> Clash) /\ (Unanswered' <=> Unanswered)
      BY <1>5, CleanerMoves DEF Reopen, CleanerStep
  <2> QED BY <2>1 DEF CleanerHolds, IInv, Idle
<1> USE ContentsAreTexts
    DEF IInv, PartiesRead, DeletionCloses, CleaningCloses, ApartFromEachOther, CleanerHolds,
        IndexerHolds, VisibleIsExact, Exactly, Clash, Unanswered, CleanerOwns, Rewriting,
        Undoing, Idle, Visible, Up, Recut, Cleaned, NoContent
<1>6. CASE BeginCleaning
    BY <1>6 DEF BeginCleaning, storeVars
<1>7. CASE CallModel
    BY <1>7 DEF CallModel, CleanerGoes, CleanerStrays, storeVars
<1>8. CASE MarkUnrestored
    BY <1>8, GivingUpMoves
<1>9. CASE BeginReindex
    BY <1>9 DEF BeginReindex, storeVars
<1>10. CASE Compare
    BY <1>10 DEF Compare, IndexerGoes, IndexerStrays, storeVars
<1>11. CASE ProjectRecut
    BY <1>11 DEF ProjectRecut, IndexerGoes, IndexerStrays
<1>12. CASE SwapContent
    BY <1>12 DEF SwapContent, IndexerGoes, IndexerStrays
<1>13. CASE CleanupTarget
    BY <1>13 DEF CleanupTarget, IndexerGoes, IndexerStrays
<1>14. CASE PruneOld
    BY <1>14 DEF PruneOld, IndexerGoes, IndexerStrays
<1>15. CASE RequestDelete
    BY <1>15 DEF RequestDelete
<1>16. CASE DeleteVectors
    BY <1>16 DEF DeleteVectors, DeleterGoes
<1>17. CASE CleanupContent
    BY <1>17 DEF CleanupContent, DeleterGoes
<1>18. CASE FinalizeDeletion
    BY <1>18 DEF FinalizeDeletion, DeleterGoes
<1>19. CASE SelectProvider
    BY <1>19 DEF SelectProvider, storeVars
<1>20. CASE Stop
    BY <1>20 DEF Stop, storeVars
<1>21. CASE Reconcile
    BY <1>21 DEF Reconcile
<1>22. CASE Start
    BY <1>22 DEF Start, storeVars
<1> QED
    BY <1>1, <1>2, <1>3, <1>4, <1>5, <1>6, <1>7, <1>8, <1>9, <1>10, <1>11, <1>12,
       <1>13, <1>14, <1>15, <1>16, <1>17, <1>18, <1>19, <1>20, <1>21, <1>22
       DEF Next, Clean, Reindex, Delete, Process

-----------------------------------------------------------------------------
(* A reindex writes to another revision than the one in use: had it been   *)
(* the same one, its rows would have been counted and found complete.      *)
LEMMA ComparingKeepsHold ==
    ASSUME IInv, Compare
    PROVE  IndexerHolds'
<1>1. /\ indexer.step = "compare" /\ indexer.read \in Content /\ active \in Revision
      /\ indexer # Idle
    BY StoresSound DEF Compare, IInv, PartiesRead, Idle
<1>2. /\ UNCHANGED <<doc, content, vectors, active, cleaner, deleter, strays>>
      /\ IF Compatible THEN indexer' = Idle
         ELSE indexer'.step = "stage" /\ indexer'.read = indexer.read
    BY <1>1, IndexerMoves DEF Compare, IndexerStep, storeVars
<1>3. CASE Compatible
    BY <1>2, <1>3 DEF IndexerHolds
<1>4. CASE ~Compatible /\ ~Clash /\ ~Unanswered /\ Visible
  <2>1. content = indexer.read
      BY <1>1, <1>4 DEF IInv, IndexerHolds
  <2>2. indexer.read.rev # active
    <3>1. SUFFICES ASSUME indexer.read.rev = active PROVE FALSE
        OBVIOUS
    <3>2. vectors[active] = Rows(LeavesOf(content), "ready")
        BY <1>4, <2>1, <3>1 DEF IInv, VisibleIsExact, Exactly
    <3>3. {row.leaf : row \in Rows(LeavesOf(content), "ready")} = LeavesOf(content)
      <4> DEFINE leaves == LeavesOf(content)
      <4> HIDE DEF leaves
      <4>1. {row.leaf : row \in Rows(leaves, "ready")} = leaves
        <5>1. \A leaf \in leaves :
                  /\ [leaf |-> leaf, status |-> "ready"] \in Rows(leaves, "ready")
                  /\ [leaf |-> leaf, status |-> "ready"].leaf = leaf
            BY DEF Rows
        <5>2. \A row \in Rows(leaves, "ready") : row.leaf \in leaves
            BY DEF Rows
        <5> QED BY <5>1, <5>2
      <4> QED BY <4>1 DEF leaves
    <3>4. LeavesOf(content) # {}
        BY <1>1, <2>1, LeavesAreFinite
    <3>5. Count(active) = Cardinality(LeavesOf(content))
        BY <3>2, <3>3 DEF Count
    <3> QED BY <1>4, <3>1, <3>4, <3>5 DEF Compatible
  <2> QED BY <1>2, <1>4, <2>1, <2>2 DEF IndexerHolds
<1>5. CASE Clash \/ Unanswered \/ ~Visible
    BY <1>2, <1>5 DEF IndexerHolds, Clash, Unanswered, Visible
<1> QED BY <1>3, <1>4, <1>5

LEMMA RecuttingKeepsHold ==
    ASSUME IInv, ProjectRecut
    PROVE  IndexerHolds' /\ VisibleIsExact'
<1>1. /\ indexer.step \in {"stage", "activate"} /\ indexer.read \in Content
      /\ active \in Revision /\ indexer # Idle
    BY StoresSound DEF ProjectRecut, IInv, PartiesRead, Idle
<1>2. /\ UNCHANGED <<doc, content, active, cleaner, deleter, strays>>
      /\ indexer'.step \in {"activate", "swap", "abandon"} /\ indexer'.read = indexer.read
    BY <1>1, IndexerMoves DEF ProjectRecut, IndexerStep
<1>3. LeavesOf(Recut) \subseteq Leaf /\ IsFiniteSet(LeavesOf(Recut))
  <2>1. Recut \in Content
      BY <1>1 DEF Recut, Content
  <2> QED BY <2>1, LeavesAreFinite
<1>4. \A r \in Revision \ {active} : vectors'[r] = vectors[r]
    BY <1>1, <1>3, StoresSound, ProjectionKeeps DEF ProjectRecut
<1>5. indexer'.step = "swap" => Exactly(active, Recut)'
  <2>1. SUFFICES ASSUME indexer'.step = "swap" PROVE Exactly(active, Recut)'
      OBVIOUS
  <2>2. ~IndexerGoes("activate") /\ ~IndexerGoes("abandon")
      BY <1>1, <2>1, IndexerMoves DEF IndexerStep
  <2>3. Activated(active, LeavesOf(Recut))
      BY <2>2 DEF ProjectRecut
  <2>4. vectors'[active] = Rows(LeavesOf(Recut), "ready")
      BY <1>1, <1>3, <2>3, StoresSound, ActivatedIsExact
  <2> QED BY <1>2, <2>4 DEF Exactly, Recut
<1>6. IndexerHolds'
    BY <1>1, <1>2, <1>5 DEF IInv, IndexerHolds, Visible, Clash, Unanswered, Recut
<1>7. VisibleIsExact'
  <2>1. SUFFICES ASSUME Visible, ~Clash, ~Unanswered PROVE Exactly(content.rev, content)'
      BY <1>2 DEF VisibleIsExact, Visible, Clash, Unanswered
  <2>2. content = indexer.read /\ content.rev # active /\ content.rev \in Revision
      BY <1>1, <2>1, ContentsAreTexts DEF IInv, IndexerHolds
  <2> QED BY <1>2, <1>4, <2>1, <2>2 DEF IInv, VisibleIsExact, Exactly
<1> QED BY <1>6, <1>7

LEMMA SwappingKeepsHold ==
    ASSUME IInv, SwapContent
    PROVE  IndexerHolds' /\ VisibleIsExact'
<1>1. /\ indexer.step = "swap" /\ indexer.read \in Content
      /\ active \in Revision /\ indexer # Idle
    BY StoresSound DEF SwapContent, IInv, PartiesRead, Idle
<1>2. /\ UNCHANGED <<doc, vectors, active, cleaner, deleter>>
      /\ \/ content' = Recut /\ indexer' = Idle /\ strays' = strays
         \/ /\ content' = Recut /\ indexer'.step = "prune" /\ indexer'.read = indexer.read
            /\ strays' = strays
         \/ /\ content' = content /\ indexer'.step = "abandon"
            /\ indexer'.read = indexer.read /\ strays' = strays
         \/ Unanswered'
    BY <1>1, IndexerMoves, IndexerMovesAstray DEF SwapContent, IndexerStep, Unanswered
<1>3. Recut.rev = active
    BY <1>1 DEF Recut, Content
<1>4. Visible /\ ~Clash /\ ~Unanswered =>
          Exactly(active, Recut) /\ Exactly(content.rev, content)
    BY <1>1 DEF IInv, IndexerHolds, VisibleIsExact
<1>5. VisibleIsExact'
    BY <1>2, <1>3, <1>4 DEF VisibleIsExact, Exactly, Visible, Clash, Unanswered
<1>6. IndexerHolds'
    BY <1>1, <1>2 DEF IInv, IndexerHolds, Visible, Clash, Unanswered, Recut
<1> QED BY <1>5, <1>6

LEMMA IndexerHoldKept ==
    ASSUME IInv, Next
    PROVE  IndexerHolds'
<1>1. CASE Compare \/ ProjectRecut \/ SwapContent
    BY <1>1, ComparingKeepsHold, RecuttingKeepsHold, SwappingKeepsHold
<1> USE ContentsAreTexts
    DEF IInv, PartiesRead, DeletionCloses, CleaningCloses, ApartFromEachOther, CleanerHolds,
        IndexerHolds, VisibleIsExact, Exactly, Clash, Unanswered, CleanerOwns, Rewriting,
        Undoing, Idle, Visible, Up, Recut, Cleaned, NoContent
<1>2. CASE BeginCleaning
    BY <1>2 DEF BeginCleaning, storeVars
<1>3. CASE CallModel
    BY <1>3 DEF CallModel, CleanerGoes, CleanerStrays, storeVars
<1>4. CASE MarkProcessing
    BY <1>4 DEF MarkProcessing, MarkUnanswered, CleanerGoes, CleanerStrays
<1>5. CASE DropVersion
    BY <1>5 DEF DropVersion, CleanerGoes, CleanerStrays
<1>6. CASE ProjectCleaned
    BY <1>6 DEF ProjectCleaned, CleanerGoes, CleanerStrays
<1>7. CASE Persist
    BY <1>7 DEF Persist, CleanerGoes, CleanerStrays
<1>8. CASE UndoCleaning
    BY <1>8 DEF UndoCleaning, CleanerGoes, CleanerStrays
<1>9. CASE Reopen
    BY <1>9 DEF Reopen, CleanerGoes, CleanerStrays
<1>10. CASE MarkUnrestored
    BY <1>10, GivingUpMoves
<1>11. CASE BeginReindex
    BY <1>11 DEF BeginReindex, storeVars
<1>12. CASE CleanupTarget
    BY <1>12 DEF CleanupTarget, IndexerGoes, IndexerStrays
<1>13. CASE PruneOld
    BY <1>13 DEF PruneOld, IndexerGoes, IndexerStrays
<1>14. CASE RequestDelete
    BY <1>14 DEF RequestDelete
<1>15. CASE DeleteVectors
    BY <1>15 DEF DeleteVectors, DeleterGoes
<1>16. CASE CleanupContent
    BY <1>16 DEF CleanupContent, DeleterGoes
<1>17. CASE FinalizeDeletion
    BY <1>17 DEF FinalizeDeletion, DeleterGoes
<1>18. CASE SelectProvider
    BY <1>18 DEF SelectProvider, storeVars
<1>19. CASE Stop
    BY <1>19 DEF Stop, storeVars
<1>20. CASE Reconcile
    BY <1>20 DEF Reconcile
<1>21. CASE Start
    BY <1>21 DEF Start, storeVars
<1> QED
    BY <1>1, <1>2, <1>3, <1>4, <1>5, <1>6, <1>7, <1>8, <1>9, <1>10, <1>11, <1>12,
       <1>13, <1>14, <1>15, <1>16, <1>17, <1>18, <1>19, <1>20, <1>21
       DEF Next, Clean, Reindex, Delete, Process

-----------------------------------------------------------------------------
(* What is answered from stays exactly indexed. *)
LEMMA OpeningIsExact ==
    ASSUME IInv, Persist \/ Reopen
    PROVE  VisibleIsExact'
<1>1. /\ cleaner.step \in {"persist", "reopen"} /\ cleaner.read \in Content
      /\ vectors' = vectors /\ deleter' = deleter
      /\ (Clash' <=> Clash) /\ (Unanswered => Unanswered')
    BY CleanerMoves, CleanerMovesAstray
       DEF Persist, Reopen, CleanerStep, IInv, PartiesRead
<1>2. doc'.active = doc.active
    BY DocMoves DEF Persist, Reopen
<1>3. SUFFICES ASSUME Visible', ~Clash, ~Unanswered PROVE Exactly(content.rev, content)'
    BY <1>1 DEF VisibleIsExact
<1>4. deleter = "none" /\ CleanerOwns
    BY <1>1, <1>2, <1>3 DEF IInv, DeletionCloses, Visible, CleanerOwns, Rewriting, Undoing
<1>5. doc.status = "processing"
    BY <1>4 DEF IInv, CleaningCloses
<1>6. /\ content = cleaner.read
      /\ cleaner.step = "persist" => Exactly(cleaner.read.rev, Cleaned)
      /\ cleaner.step = "reopen" => Exactly(cleaner.read.rev, cleaner.read)
    BY <1>3, <1>4 DEF IInv, CleanerHolds
<1>7. Cleaned.rev = cleaner.read.rev
    BY <1>1 DEF Cleaned, Content
<1>8. CASE Persist
  <2>1. content' = Cleaned
      BY <1>3, <1>5, <1>8 DEF Persist, Visible
  <2> QED BY <1>1, <1>6, <1>7, <1>8, <2>1 DEF Persist, Exactly
<1>9. CASE Reopen
    BY <1>1, <1>6, <1>9 DEF Reopen, Exactly
<1> QED BY <1>8, <1>9

LEMMA DroppingSparesTheVisible ==
    ASSUME IInv, CleanupTarget \/ PruneOld
    PROVE  VisibleIsExact'
<1>1. /\ indexer.step \in {"abandon", "prune"} /\ indexer.read \in Content
      /\ active \in Revision /\ indexer # Idle
    BY StoresSound DEF CleanupTarget, PruneOld, IInv, PartiesRead, Idle
<1>2. UNCHANGED <<doc, content, strays>>
    BY <1>1, IndexerMoves DEF CleanupTarget, PruneOld, IndexerStep
<1>3. SUFFICES ASSUME Visible, ~Clash, ~Unanswered PROVE Exactly(content.rev, content)'
    BY <1>2 DEF VisibleIsExact, Visible, Clash, Unanswered
<1>4. /\ indexer.read.rev # active
      /\ content = IF indexer.step = "prune" THEN Recut ELSE indexer.read
      /\ Exactly(content.rev, content)
    BY <1>1, <1>3 DEF IInv, IndexerHolds, VisibleIsExact
<1>5. Recut.rev = active /\ indexer.read.rev \in Revision
    BY <1>1 DEF Recut, Content
<1>6. vectors'[content.rev] = vectors[content.rev]
    BY <1>1, <1>4, <1>5, StoresSound
       DEF CleanupTarget, PruneOld, DroppedRevision, StoreOK
<1> QED BY <1>2, <1>4, <1>6 DEF Exactly

LEMMA ReconcilingSparesTheVisible ==
    ASSUME IInv, Reconcile
    PROVE  VisibleIsExact'
<1>1. SUFFICES ASSUME Visible, ~Clash, ~Unanswered PROVE Exactly(content.rev, content)'
    BY DEF Reconcile, VisibleIsExact, Visible, Clash, Unanswered
<1>2. content \in Content /\ content.rev \in Revision
    BY <1>1, ContentsAreTexts DEF IInv, DeletionCloses, Visible
<1>3. content.rev \in OwnedRevisions
    BY <1>1, <1>2 DEF OwnedRevisions, Visible
<1>4. vectors'[content.rev] = vectors[content.rev]
    BY <1>2, <1>3 DEF Reconcile
<1> QED BY <1>1, <1>4 DEF IInv, VisibleIsExact, Exactly, Reconcile

LEMMA VisibleIsExactKept ==
    ASSUME IInv, Next
    PROVE  VisibleIsExact'
<1>1. CASE Persist \/ Reopen \/ ProjectRecut \/ SwapContent
    BY <1>1, OpeningIsExact, RecuttingKeepsHold, SwappingKeepsHold
<1>2. CASE CleanupTarget \/ PruneOld \/ Reconcile
    BY <1>2, DroppingSparesTheVisible, ReconcilingSparesTheVisible
<1> USE ContentsAreTexts
    DEF IInv, PartiesRead, DeletionCloses, CleaningCloses, ApartFromEachOther, CleanerHolds,
        IndexerHolds, VisibleIsExact, Exactly, Clash, Unanswered, CleanerOwns, Rewriting,
        Undoing, Idle, Visible, Up, Recut, Cleaned, NoContent
<1>3. CASE BeginCleaning
    BY <1>3 DEF BeginCleaning, storeVars
<1>4. CASE CallModel
    BY <1>4 DEF CallModel, CleanerGoes, CleanerStrays, storeVars
<1>5. CASE MarkProcessing
    BY <1>5 DEF MarkProcessing, MarkUnanswered, CleanerGoes, CleanerStrays
<1>6. CASE DropVersion
    BY <1>6 DEF DropVersion, CleanerGoes, CleanerStrays
<1>7. CASE ProjectCleaned
    BY <1>7 DEF ProjectCleaned, CleanerGoes, CleanerStrays
<1>8. CASE UndoCleaning
    BY <1>8 DEF UndoCleaning, CleanerGoes, CleanerStrays
<1>9. CASE MarkUnrestored
    BY <1>9, GivingUpMoves
<1>10. CASE BeginReindex
    BY <1>10 DEF BeginReindex, storeVars
<1>11. CASE Compare
    BY <1>11 DEF Compare, IndexerGoes, IndexerStrays, storeVars
<1>12. CASE RequestDelete
    BY <1>12 DEF RequestDelete
<1>13. CASE DeleteVectors
    BY <1>13 DEF DeleteVectors, DeleterGoes
<1>14. CASE CleanupContent
    BY <1>14 DEF CleanupContent, DeleterGoes
<1>15. CASE FinalizeDeletion
    BY <1>15 DEF FinalizeDeletion, DeleterGoes
<1>16. CASE SelectProvider
    BY <1>16 DEF SelectProvider, storeVars
<1>17. CASE Stop
    BY <1>17 DEF Stop, storeVars
<1>18. CASE Start
    BY <1>18 DEF Start, storeVars
<1> QED
    BY <1>1, <1>2, <1>3, <1>4, <1>5, <1>6, <1>7, <1>8, <1>9, <1>10, <1>11, <1>12,
       <1>13, <1>14, <1>15, <1>16, <1>17, <1>18
       DEF Next, Clean, Reindex, Delete, Process

-----------------------------------------------------------------------------
LEMMA InitIsInvariant ==
    ASSUME Init
    PROVE  IInv
<1>1. PICK rev \in Revision :
          /\ content = [text |-> "original", rev |-> rev]
          /\ vectors = [r \in Revision |->
                           IF r = rev THEN Rows(LeavesOf(content), "ready") ELSE {}]
          /\ active = rev
          /\ chosen = rev
    BY DEF Init
<1>2. content \in Content /\ content.rev = rev
    BY <1>1, PartsAssumption DEF Content, Text
<1>3. Rows(LeavesOf(content), "ready") \subseteq Row
      /\ IsFiniteSet(Rows(LeavesOf(content), "ready"))
    BY <1>2, LeavesAreFinite, RowsAreRows
<1>4. RowsAreFinite
    BY <1>1, <1>3, FS_EmptySet DEF RowsAreFinite
<1>5. TypeOK
    BY <1>1, <1>2, <1>3, MaxCrashesAssumption
       DEF Init, TypeOK, StoreTypeOK, PartiesTypeOK, Indexed, Idle, CleanerStep, IndexerStep,
           DeleterStep
<1>6. Exactly(content.rev, content)
    BY <1>1, <1>2 DEF Exactly
<1> QED
    BY <1>1, <1>2, <1>4, <1>5, <1>6
       DEF Init, IInv, PartiesRead, DeletionCloses, CleaningCloses, ApartFromEachOther,
           CleanerHolds, IndexerHolds, VisibleIsExact, DeletionProceeds, ProcessingIsOwned,
           Indexed, Idle, Cleaning, CleanerOwns, Rewriting, Undoing, Clash, Unanswered

LEMMA StepKeepsInvariant ==
    ASSUME IInv, [Next]_vars
    PROVE  IInv'
<1>1. CASE Next
  <2>1. RowsAreFinite'
      BY <1>1, StoreKept DEF StoreOK
  <2> QED
      BY <1>1, <2>1, TypesKept, OrderKept, CleanerHoldKept, IndexerHoldKept, VisibleIsExactKept
         DEF IInv, PartiesInOrder
<1>2. CASE UNCHANGED vars
    BY <1>2
       DEF vars, storeVars, IInv, TypeOK, StoreTypeOK, PartiesTypeOK, PartiesRead,
           RowsAreFinite, DeletionCloses, CleaningCloses, ApartFromEachOther, CleanerHolds,
           IndexerHolds, VisibleIsExact, DeletionProceeds, ProcessingIsOwned, Cleaning, Clash,
           Unanswered, CleanerOwns, Rewriting, Undoing, Visible, Up, Exactly, Cleaned, Recut
<1> QED BY <1>1, <1>2

(* The invariant holds in every reachable state: whatever the parties do,  *)
(* each has what it read, and the visible document is exactly indexed.     *)
THEOREM Invariance == Spec => []IInv
<1>1. Init => IInv
    BY InitIsInvariant
<1>2. IInv /\ [Next]_vars => IInv'
    BY StepKeepsInvariant
<1> QED BY <1>1, <1>2, PTL DEF Spec

(* Every variable keeps its type. *)
THEOREM TypeCorrectness == Spec => []TypeOK
<1>1. IInv => TypeOK
    BY DEF IInv
<1> QED BY <1>1, Invariance, PTL

(* A document is not answered from once its deletion was requested, even   *)
(* when a cleaning that fails writes "ready" over "deleting".              *)
THEOREM DeletedHidden == Spec => []DeletedStaysHidden
<1>1. IInv => DeletedStaysHidden
    BY DEF IInv, DeletionCloses, DeletedStaysHidden, Visible
<1> QED BY <1>1, Invariance, PTL

(* Without a reindex running into a cleaning, and without a committed text *)
(* whose writer was told it had failed, a document that is answered from   *)
(* has all its leaves ready in the collection of its revision.             *)
THEOREM VisibleIndexed == Spec => []VisibleIsIndexed
<1>1. IInv => VisibleIsIndexed
    BY DEF IInv, VisibleIsExact, VisibleIsIndexed, Searchable, Exactly, Clash, Unanswered
<1> QED BY <1>1, Invariance, PTL

(* A document is in "processing" only while a cleaning is at work on it,   *)
(* unless the process died under one, the answer to a mark was lost, or a  *)
(* failure could not be written down.                                      *)
THEOREM ProcessingOwned == Spec => []ProcessingIsOwned
<1>1. IInv => ProcessingIsOwned
    BY DEF IInv
<1> QED BY <1>1, Invariance, PTL

(* A deletion that met no cleaning or reindex leaves no text and no rows.  *)
THEOREM DeletionComplete == Spec => []DeletedIsGone
<1>1. IInv => DeletedIsGone
    BY DEF IInv, DeletionProceeds, DeletedIsGone
<1> QED BY <1>1, Invariance, PTL

(* A cleaned text stays until the document is deleted, unless a reindex    *)
(* ran into a cleaning: the text it swaps in is the one it found.          *)
LEMMA StepKeepsCleaned ==
    ASSUME IInv, [Next]_vars, ~Clash
    PROVE  /\ content.text = "original" /\ content'.text = "cleaned"
                 => content'.rev = content.rev
           /\ content.text = "cleaned" => content'.text \in {"cleaned", "none"}
<1>1. CASE Persist
  <2>1. cleaner.read \in Content /\ CleanerOwns
      BY <1>1 DEF Persist, IInv, PartiesRead, CleanerOwns, Rewriting
  <2>2. Cleaned.text = "cleaned" /\ Cleaned.rev = cleaner.read.rev
      BY <2>1 DEF Cleaned, Content
  <2>3. CASE content' = content
      BY <2>3
  <2>4. CASE doc.status = "processing" /\ content' = Cleaned
    <3>1. deleter = "none"
        BY <2>4 DEF IInv, DeletionCloses
    <3>2. content = cleaner.read
        BY <2>1, <3>1 DEF IInv, CleanerHolds
    <3> QED BY <2>2, <2>4, <3>2
  <2> QED BY <1>1, <2>3, <2>4 DEF Persist
<1>2. CASE SwapContent
  <2>1. indexer # Idle /\ indexer.read \in Content
      BY <1>2 DEF SwapContent, IInv, PartiesRead, Idle
  <2>2. content = NoContent \/ content.text = indexer.read.text
      BY <2>1 DEF IInv, ApartFromEachOther
  <2>3. Recut.text = indexer.read.text
      BY <2>1 DEF Recut, Content
  <2> QED BY <1>2, <2>2, <2>3 DEF SwapContent, NoContent
<1>3. CASE CleanupContent
    BY <1>3 DEF CleanupContent, NoContent
<1>4. CASE UNCHANGED content
    BY <1>4
<1> QED
    BY <1>1, <1>2, <1>3, <1>4
       DEF vars, storeVars, Next, Clean, Reindex, Delete, Process, BeginCleaning, CallModel,
           MarkProcessing, DropVersion, ProjectCleaned, UndoCleaning, Reopen, MarkUnrestored,
           BeginReindex, Compare, ProjectRecut, CleanupTarget, PruneOld, RequestDelete,
           DeleteVectors, FinalizeDeletion, SelectProvider, Stop, Reconcile, Start

(* Without a reindex running into it, a cleaning replaces the text in the  *)
(* revision it is indexed in, and what it wrote stays until the deletion.  *)
THEOREM CleanedKept == Spec => CleaningIsKept
<1>1. IInv /\ [Next]_vars =>
          [ "reindexedWhileCleaned" \notin strays =>
              /\ content.text = "original" /\ content'.text = "cleaned"
                    => content'.rev = content.rev
              /\ content.text = "cleaned" => content'.text \in {"cleaned", "none"} ]_vars
    BY StepKeepsCleaned DEF Clash
<1> QED BY <1>1, Invariance, PTL DEF Spec, CleaningIsKept
=============================================================================
