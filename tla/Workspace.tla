------------------------------ MODULE Workspace -------------------------------
(***************************************************************************)
(* Collections and the documents in them, as the requests of               *)
(* WorkspaceService change and list them (services/workspace.py).          *)
(*                                                                         *)
(* A request reads in one step and writes in a later one where the code    *)
(* does, other requests commit in between; row locks and the unique and    *)
(* foreign keys of the schema hold at the write.  What a deletion job does *)
(* to its document is the saga of DeletionSaga, here one step.             *)
(***************************************************************************)
EXTENDS Integers, FiniteSets

CONSTANTS
    Client,         \* requests in flight
    Collection,
    Name,
    Lower,          \* each name, lowered by the database
    Folded,         \* each name, case folded by the service
    Doc,            \* document ids: numbers, as ids are compared
    CreatedAt,      \* of each document: when its inserting transaction begins
    MaxDocuments,
    Limit           \* rows of a page

ASSUME LimitAssumption == Limit \in Nat \ {0}

ASSUME IdAssumption == Doc \subseteq Int /\ CreatedAt \in [Doc -> Nat]

ASSUME DocumentLimitAssumption == MaxDocuments \in Nat \ {0} /\ IsFiniteSet(Client)

-----------------------------------------------------------------------------
(***************************************************************************)
(* Keyset pages, newest first: the lists of documents and of jobs          *)
(* (services/workspace.py), of evaluations and of traces are read page by  *)
(* page in transactions of their own, and a cursor names the last row that *)
(* was returned.  A row is a record with its created_at, `at`, and its id. *)
(***************************************************************************)

(* Without a cursor the first page is read; no cursor comes with the last. *)
Start == [at |-> -1, id |-> 0]
End == [at |-> -2, id |-> 0]

Newer(a, b) == a.at > b.at \/ (a.at = b.at /\ a.id > b.id)

(* Seeded bug: rows of the same instant are not told apart. *)
OlderByTime(row, cursor) == cursor = Start \/ row.at < cursor.at

Older(row, cursor) == cursor = Start \/ Newer(cursor, row)

(* The newest rows behind the cursor, as many as a page holds; one row     *)
(* more tells whether there is another page, which begins behind the last. *)
Page(rows, cursor) ==
    LET left == {row \in rows : Older(row, cursor)}
        page == {row \in left : Cardinality({other \in left : Newer(other, row)}) < Limit}
    IN [rows |-> page,
        next |-> IF page = left THEN End
                 ELSE CHOOSE last \in page :
                        \A row \in page : row = last \/ Newer(row, last)]

-----------------------------------------------------------------------------
VARIABLES
    collections,
    docs,
    requests,       \* uploads and namings in flight
    walk            \* a client reading the list of documents page by page

workspaceVars == <<collections, docs, requests, walk>>

(* unseen: the collections that got their name between the check of this   *)
(* name and its write (history).                                           *)
NoCollection == [status |-> "absent", name |-> "", unseen |-> {}]

(* late: the collection was being deleted when the document was inserted   *)
(* (history, until the document itself is deleted).                        *)
NoDocument == [status |-> "absent", col |-> "", late |-> FALSE]

Idle == [step |-> "idle", col |-> "", name |-> "", saw |-> {}]

(* kept: the documents that were listed ever since the walk began; again:  *)
(* those that were on two pages (history).                                 *)
NoWalk == [cursor |-> End, seen |-> {}, again |-> {}, kept |-> {}]

(* revived: a worker wrote its outcome over a deletion. *)
Kept == {"live", "revived", "deleting", "deleted"}
Removed == [NoDocument EXCEPT !.status = "removed"]

RemovedCollection == [NoCollection EXCEPT !.status = "removed"]

Existing == {c \in Collection : collections[c].status \in {"active", "deleting"}}
Named == {<<c, collections[c].name>> : c \in Existing}
Deleting(row) == [row EXCEPT !.status = "deleting", !.late = FALSE]
DocumentsOf(c) == {d \in Doc : docs[d].status \in Kept /\ docs[d].col = c}
Uploaded == {d \in Doc : docs[d].status = "live"}
BroughtBack == {d \in Doc : docs[d].status = "revived"}
Live == Uploaded \cup BroughtBack

WorkspaceInit ==
    /\ collections = [c \in Collection |-> NoCollection]
    /\ docs = [d \in Doc |-> NoDocument]
    /\ requests = [r \in Client |-> Idle]
    /\ walk = NoWalk

-----------------------------------------------------------------------------
(* What list_documents shows: no tombstone, and nothing of a collection    *)
(* that is being deleted.                                                  *)
Listed(cols, ds) ==
    {d \in Doc : /\ ds[d].status \in {"live", "revived", "deleting"}
                 /\ cols[ds[d].col].status = "active"}

(* The documents and collections change, and a walk under way keeps count  *)
(* of what was listed all along.                                           *)
Become(cols, ds) ==
    /\ collections' = cols
    /\ docs' = ds
    /\ walk' = [walk EXCEPT !.kept = @ \cap Listed(cols, ds)]

Ends(r) == requests' = [requests EXCEPT ![r] = Idle]

Goes(r, with) ==
    /\ requests' = [requests EXCEPT ![r] = with]
    /\ UNCHANGED <<collections, docs, walk>>

-----------------------------------------------------------------------------
(* create_collection and update_collection look for another collection of  *)
(* the same name, whatever its case and status, ...                        *)

(* Seeded bug: a collection that is being deleted no longer has its name.  *)
NameTakenByActive(name, except) ==
    \E c \in Existing \ {except} :
        /\ collections[c].status = "active"
        /\ Lower[collections[c].name] = Folded[name]

NameTaken(name, except) ==
    \E c \in Existing \ {except} : Lower[collections[c].name] = Folded[name]

(* The row to rename is locked: no other request changes it meanwhile.     *)
Locked(c) == \E r \in Client : requests[r].step = "naming" /\ requests[r].col = c

CheckName(r, c, name) ==
    /\ requests[r].step = "idle"
    /\ collections[c].status \in {"absent", "active"}
    /\ ~Locked(c)
    /\ ~NameTaken(name, c)
    /\ Goes(r, [step |-> "naming", col |-> c, name |-> name, saw |-> Named])

(* ... and write it: the unique key compares the names as they are.        *)
WriteName(r) ==
    LET c == requests[r].col
        name == requests[r].name
        unseen == {other \in Existing : <<other, collections[other].name>> \notin requests[r].saw}
    IN
    /\ requests[r].step = "naming"
    /\ Ends(r)
    /\ IF \E other \in Existing \ {c} : collections[other].name = name
       THEN UNCHANGED <<collections, docs, walk>>
       ELSE Become([collections EXCEPT ![c] =
                       [status |-> "active", name |-> name, unseen |-> unseen]],
                   docs)

(* Seeded bug: a document whose deletion is under way does not count.      *)
RemainingLive(c) == DocumentsOf(c) \cap Live

Remaining(c) == {d \in DocumentsOf(c) : docs[d].status # "deleted"}

Taken(c) == Remaining(c)

Cascaded(c) == DocumentsOf(c)

(* delete_collection: an empty one is removed with its tombstones, the     *)
(* deletion of each document of another is requested with it.              *)
DeleteCollection(c) ==
    /\ collections[c].status = "active"
    /\ ~Locked(c)
    /\ IF Remaining(c) = {}
       THEN Become([collections EXCEPT ![c] = RemovedCollection],
                   [d \in Doc |-> IF d \in Cascaded(c) THEN Removed ELSE docs[d]])
       ELSE Become([collections EXCEPT ![c].status = "deleting"],
                   [d \in Doc |-> IF d \in Taken(c)
                                  THEN Deleting(docs[d]) ELSE docs[d]])
    /\ UNCHANGED requests

-----------------------------------------------------------------------------

WithinLimit == Cardinality(Live) < MaxDocuments

(* upload_document counts the documents in a transaction of its own, ...   *)
CountDocuments(r, c) ==
    /\ requests[r].step = "idle"
    /\ WithinLimit
    /\ Goes(r, [Idle EXCEPT !.step = "counted", !.col = c])

(* ... stores the object, reads that the collection is active, ...         *)
AcceptUpload(r) ==
    /\ requests[r].step = "counted"
    /\ Goes(r, IF collections[requests[r].col].status = "active"
               THEN [requests[r] EXCEPT !.step = "accepted"] ELSE Idle)

(* ... and inserts a document.  The key of its collection only asks that   *)
(* the row is there.                                                       *)
InsertDocument(r) ==
    LET c == requests[r].col IN
    /\ requests[r].step = "accepted"
    /\ Ends(r)
    /\ IF c \in Existing
       THEN \E d \in Doc :
                /\ docs[d].status = "absent"
                /\ Become(collections, [docs EXCEPT ![d] =
                       [status |-> "live", col |-> c,
                        late |-> collections[c].status # "active"]])
       ELSE UNCHANGED <<collections, docs, walk>>

(* The content is known or the name has a document: no new row. *)
AddToDocument(r) ==
    /\ requests[r].step = "accepted"
    /\ Goes(r, Idle)

DeleteDocument(d) ==
    /\ d \in Live
    /\ Become(collections, [docs EXCEPT ![d] = Deleting(@)])
    /\ UNCHANGED requests

(* An ingestion that the deletion had cancelled goes on until it notices:  *)
(* its prepare and mark_failed, and the upload that had read the document  *)
(* before, write "processing", "ready" or "failed" over whatever is there. *)
OverwriteDeletion(d) ==
    /\ docs[d].status \in {"deleting", "deleted"}
    /\ Become(collections, [docs EXCEPT ![d].status = "revived"])
    /\ UNCHANGED requests

DeletionDone(d) ==
    /\ docs[d].status = "deleting"
    /\ Become(collections, [docs EXCEPT ![d].status = "deleted"])
    /\ UNCHANGED requests

-----------------------------------------------------------------------------
(* list_documents, from the first page to the last. *)
BeginWalk ==
    /\ walk = NoWalk
    /\ walk' = [NoWalk EXCEPT !.cursor = Start, !.kept = Listed(collections, docs)]
    /\ UNCHANGED <<collections, docs, requests>>

ReadPage ==
    LET rows == {[at |-> CreatedAt[d], id |-> d] : d \in Listed(collections, docs)}
        page == Page(rows, walk.cursor)
        shown == {row.id : row \in page.rows}
    IN
    /\ walk.cursor # End
    /\ walk' = [walk EXCEPT !.cursor = page.next,
                            !.seen = @ \cup shown,
                            !.again = @ \cup (walk.seen \cap shown)]
    /\ UNCHANGED <<collections, docs, requests>>

EndWalk ==
    /\ walk.cursor = End
    /\ walk # NoWalk
    /\ walk' = NoWalk
    /\ UNCHANGED <<collections, docs, requests>>

WorkspaceNext ==
    \/ \E r \in Client :
        \/ \E c \in Collection, name \in Name : CheckName(r, c, name)
        \/ WriteName(r)
        \/ \E c \in Collection : CountDocuments(r, c)
        \/ AcceptUpload(r) \/ InsertDocument(r) \/ AddToDocument(r)
    \/ \E c \in Collection : DeleteCollection(c)
    \/ \E d \in Doc : DeleteDocument(d) \/ OverwriteDeletion(d) \/ DeletionDone(d)
    \/ BeginWalk \/ ReadPage \/ EndWalk

WorkspaceSpec == WorkspaceInit /\ [][WorkspaceNext]_workspaceVars

-----------------------------------------------------------------------------
(* A client that reads the list to its end has seen every document that    *)
(* stayed, and none twice, whatever was uploaded, deleted or renamed       *)
(* between the pages.                                                      *)
PagesAreComplete ==
    walk.cursor = End =>
        /\ walk.kept \subseteq walk.seen
        /\ walk.again = {}

(* Uploads that counted before one another exceed the limit of documents   *)
(* by no more than their number; documents that an ingestion brought back  *)
(* from their deletion come on top of that.                                *)
LimitOvershootBounded ==
    Cardinality(Uploaded) + Cardinality({r \in Client : requests[r].step \in {"counted", "accepted"}})
        < MaxDocuments + Cardinality(Client)

(* Two collections never have the same name, and names that only differ in *)
(* case, wherever lowering and folding agree, only when one got its name   *)
(* between the check and the write of the other's: the check sees every    *)
(* status.                                                                 *)
Twins(name, other) == Lower[name] = Folded[other] /\ Lower[other] = Folded[name]

TwinsOnlyByRace ==
    \A a, b \in Existing :
        a # b => /\ collections[a].name # collections[b].name
                 /\ Twins(collections[a].name, collections[b].name)
                       => a \in collections[b].unseen \/ b \in collections[a].unseen

(* Deleting a collection takes every document in it, except one whose      *)
(* upload had read before that the collection was active, and those that   *)
(* an ingestion brings back.                                               *)
DeletionTakesAll ==
    \A d \in Uploaded : collections[docs[d].col].status = "active" \/ docs[d].late

(* The row of a document only vanishes when its deletion is complete:      *)
(* removing a collection cascades to tombstones, never to a document whose *)
(* object and vectors are still there.                                     *)
OnlyTombstonesVanish ==
    [][\A d \in Doc : docs[d].status \in Kept /\ docs'[d].status \notin Kept
                        => docs[d].status = "deleted"]_workspaceVars
===============================================================================
