----------------------------- MODULE IndexStores -----------------------------
(***************************************************************************)
(* The stores index maintenance works on, for one document and its active  *)
(* version: the statuses and the Roots and Leaves in PostgreSQL, and the   *)
(* vector rows of the version, one collection per index revision           *)
(* (adapters/vector_store/milvus_lite.py).                                 *)
(*                                                                         *)
(* A content is a text cut under a revision; its leaves depend on both,    *)
(* since their ids are derived from both.  A call to the vector store may  *)
(* fail before or after it took effect, or half way.                       *)
(***************************************************************************)
EXTENDS Integers, FiniteSets

CONSTANTS
    Revision,     \* index revisions: an embedding model and a sparse encoder
    PartsOf       \* the number of leaves of each text: the original, the cleaned

ASSUME PartsAssumption == PartsOf \in [{"original", "cleaned"} -> Nat \ {0}]

VARIABLES
    doc,          \* document and version: statuses, and whether active_version_id is set
    content,      \* the text and revision of the rows in PostgreSQL
    vectors       \* for each revision, the rows by their primary key, the leaf

storeVars == <<doc, content, vectors>>

Text == DOMAIN PartsOf
Content == [text : Text, rev : Revision]
NoContent == [text |-> "none", rev |-> "none"]
NoLeaves == {}

LeavesOf(c) ==
    IF c = NoContent THEN NoLeaves
    ELSE {[text |-> c.text, rev |-> c.rev, part |-> n] : n \in 1 .. PartsOf[c.text]}

Leaf == UNION {LeavesOf(c) : c \in Content}
Row == [leaf : Leaf, status : {"processing", "ready"}]

Indexed == [status |-> "ready", version |-> "indexed", active |-> TRUE]

StoreTypeOK ==
    /\ doc \in [status : {"ready", "processing", "failed", "deleting", "deleted"},
                version : {"indexed", "processing", "failed", "deleted"},
                active : BOOLEAN]
    /\ content \in Content \cup {NoContent}
    /\ vectors \in [Revision -> SUBSET Row]

-----------------------------------------------------------------------------
Rows(leaves, status) == [leaf : leaves, status : {status}]

Count(rev) == Cardinality({row.leaf : row \in vectors[rev]})

(* Upserts replace rows of the same leaf; those of other leaves stay. *)
Upserted(rev, leaves, status) ==
    [vectors EXCEPT ![rev] = {row \in @ : row.leaf \notin leaves}
                                \cup Rows(leaves, status)]

DroppedRevision(rev) == [vectors EXCEPT ![rev] = {}]
Dropped == [r \in Revision |-> {}]

(* delete_by_version fails: some of the collections are cleared by then. *)
PartlyDropped ==
    \E gone \in SUBSET Revision :
        vectors' = [r \in Revision |-> IF r \in gone THEN {} ELSE vectors[r]]

(* What load_leaves and load_roots require before a text is answered from. *)
Visible ==
    /\ doc.active
    /\ doc.status = "ready"
    /\ doc.version = "indexed"

(* What a search of the content's own collection can return of it. *)
Searchable ==
    Rows(LeavesOf(content), "ready") \subseteq vectors[content.rev]

-----------------------------------------------------------------------------
(***************************************************************************)
(* ProjectionService.project (services/projection.py) as its callers see   *)
(* it: the steps a run of it goes through, each one call to the vector     *)
(* store, and the clean-up of a run that failed.                           *)
(***************************************************************************)

(* The first step: every leaf is written as "processing", and their number *)
(* verified.                                                               *)
Staged(rev, leaves) ==
    /\ vectors' = Upserted(rev, leaves, "processing")
    /\ Cardinality({row.leaf : row \in vectors'[rev]}) = Cardinality(leaves)

(* The second: the same rows as "ready", and their number verified again.  *)
Activated(rev, leaves) ==
    /\ vectors' = Upserted(rev, leaves, "ready")
    /\ Cardinality({row.leaf : row \in vectors'[rev]}) = Cardinality(leaves)

(* A batch, a count or the encoder fails.  The rows of the revision go, or *)
(* the retries of the clean-up are exhausted and some of this run's rows   *)
(* stay beside those that were there.                                      *)
Abandoned(rev, leaves) ==
    \/ vectors' = DroppedRevision(rev)
    \/ \E written \in SUBSET leaves, status \in {"processing", "ready"} :
          vectors' = Upserted(rev, written, status)
=============================================================================
