--------------------------- MODULE KnowledgeCatalog ---------------------------
(***************************************************************************)
(* What the requests let in by Access may read: McpKnowledgeCatalog        *)
(* (mcp/knowledge_catalog.py) behind the tools of mcp/server.py, and the   *)
(* document readers of services/workspace.py.  One action per call that is *)
(* awaited; documents change status in between, and the vector store       *)
(* returns any leaf of the documents it is asked for.                      *)
(***************************************************************************)
EXTENDS Access, ContextStore

CONSTANTS
    CollectionOf,   \* the collection of each document
    Submitted,      \* citations a client may submit
    MaxChanges      \* bound: changes of a document's status

ASSUME SubmittedAssumption ==
    \A cites \in Submitted : \A i \in DOMAIN cites : cites[i].root \in Roots
ASSUME ChangesAssumption == MaxChanges \in Nat

VARIABLES
    status,     \* of each document
    changes,
    work,       \* what each request asks for, and how far it has come
    response    \* the response a step gives

vars == <<accessVars, status, changes, work, response>>

Status == {"ready", "processing", "deleting", "deleted"}
Nothing == [to |-> NoCredential, op |-> "none", roots |-> {}, valid |-> FALSE]
NoWork == [op |-> "none", asked |-> {}, doc |-> "none", cites |-> <<>>,
           resolved |-> {}, found |-> {}, roots |-> {}]

(* The scope each tool requires; a session has them all. *)
ToolScope ==
    [search |-> "knowledge:read", sections |-> "knowledge:read",
     verify |-> "answer:verify"]
Tools == DOMAIN ToolScope

TypeOK ==
    /\ AccessTypeOK
    /\ status \in [Documents -> Status]
    /\ changes \in 0 .. MaxChanges
    /\ \A r \in Request :
        /\ work[r].op \in Tools \cup {"found", "opened", "cited", "none"}
        /\ work[r].op # "none" => requests[r].step = "reading"
        /\ work[r].resolved \subseteq Documents
        /\ work[r].found \subseteq Leaves /\ work[r].roots \subseteq Roots
    /\ response.roots \subseteq Roots

Init ==
    /\ AccessInit
    /\ status = [d \in Documents |-> "ready"]
    /\ changes = 0
    /\ work = [r \in Request |-> NoWork]
    /\ response = Nothing

-----------------------------------------------------------------------------
Ready == {d \in Documents : status[d] = "ready" /\ CollectionOf[d] \in active}

(* Seeded bug: a token is limited to the collections that still exist, and *)
(* to none when none is left.                                              *)
PermittedActive(c) ==
    LET own == credentials[c].collections \cap active IN
    {d \in Documents : own = {} \/ CollectionOf[d] \in own}

(* _authorization: a session may read the tenant, a token its collections. *)
Permitted(c) ==
    IF credentials[c].kind = "token"
    THEN {d \in Documents : CollectionOf[d] \in credentials[c].collections}
    ELSE Documents

Allows(c, tool) ==
    credentials[c].kind = "token" => ToolScope[tool] \in credentials[c].scopes

(* The collections asked for are refused unless the token has them all.    *)
Constrained(c, asked) ==
    credentials[c].kind = "token" => asked \subseteq credentials[c].collections

(* The answer of a request, which ends with it. *)
Reply(r, roots, valid) ==
    /\ response' = [to |-> requests[r].cred, op |-> work[r].op, roots |-> roots, valid |-> valid]
    /\ work' = [work EXCEPT ![r] = NoWork]
    /\ requests' = [requests EXCEPT ![r] = Idle]
    /\ UNCHANGED <<credentials, grants, gone, active, status, changes>>

Refuse(r) == Reply(r, {}, FALSE)

Continue(r, with) ==
    /\ work' = [work EXCEPT ![r] = with]
    /\ response' = Nothing
    /\ UNCHANGED <<accessVars, status, changes>>

ScopeOf(asked) ==
    [ids |-> {}, meta |-> {d \in Documents : CollectionOf[d] \in asked}]

(* Calls of tools share nothing but what they read: one is served at a     *)
(* time, while sessions are used and documents change.                     *)
Ask(r, tool, asked, with) ==
    /\ requests[r].step = "reading"
    /\ \A other \in Request : work[other].op = "none"
    /\ IF Allows(requests[r].cred, tool) /\ Constrained(requests[r].cred, asked)
       THEN Continue(r, with) ELSE Refuse(r)

(* search_documents: the scope is resolved, ...                            *)
AskSearch(r, asked) ==
    Ask(r, "search", asked, [NoWork EXCEPT !.op = "search", !.asked = asked])

ResolveSearch(r) ==
    LET resolved == Resolve(Ready, Permitted(requests[r].cred), ScopeOf(work[r].asked)) IN
    /\ work[r].op = "search"
    /\ IF resolved \in {Conflict, {}}
       THEN Refuse(r)
       ELSE \E found \in SUBSET {leaf \in Leaves : LeafDocument(leaf) \in resolved} :
                Continue(r, [work[r] EXCEPT !.op = "found", !.resolved = resolved,
                                            !.found = found])

(* ... the leaves found are loaded, and then their roots: an item needs    *)
(* both.                                                                   *)
LoadFoundLeaves(r) ==
    /\ work[r].op = "found" /\ work[r].roots = {}
    /\ LET leaves == LoadedLeaves(Ready, work[r].resolved, work[r].found) IN
       IF leaves = {} THEN Refuse(r)
       ELSE Continue(r, [work[r] EXCEPT !.roots = {RootOf[leaf] : leaf \in leaves}])

LoadFoundRoots(r) ==
    /\ work[r].op = "found" /\ work[r].roots # {}
    /\ Reply(r, LoadedRoots(Ready, work[r].resolved, work[r].roots), FALSE)

(* _authorized_document, for every reader of one document. *)
AskSections(r, d) ==
    Ask(r, "sections", {}, [NoWork EXCEPT !.op = "sections", !.doc = d])

(* What the readers of services/workspace.py refuse is a deleted document. *)
Shown(d) == status[d] # "deleted"

AuthorizeDocument(r) ==
    LET d == work[r].doc IN
    /\ work[r].op = "sections"
    /\ IF Shown(d) /\ status[d] = "ready" /\ d \in Permitted(requests[r].cred)
       THEN Continue(r, [work[r] EXCEPT !.op = "opened"])
       ELSE Refuse(r)

(* inspect_document_pipeline and inspect_pipeline_root look again, but     *)
(* only for a deleted document: the sections of all its roots, ...         *)
InspectDocument(r) ==
    LET d == work[r].doc IN
    /\ work[r].op = "opened"
    /\ IF Shown(d)
       THEN Reply(r, {root \in Roots : DocumentOf[root] = d}, FALSE)
       ELSE Refuse(r)

(* ... or the text of one, which must be a root of this document. *)
InspectRoot(r, root) ==
    LET d == work[r].doc IN
    /\ work[r].op = "opened"
    /\ IF Shown(d) /\ DocumentOf[root] = d
       THEN Reply(r, {root}, FALSE)
       ELSE Refuse(r)

(* verify_answer: the roots cited are loaded, then the leaves. *)
AskVerify(r, cites) ==
    Ask(r, "verify", {}, [NoWork EXCEPT !.op = "verify", !.cites = cites])

LoadCitedRoots(r) ==
    LET resolved == Ready \cap Permitted(requests[r].cred) IN
    /\ work[r].op = "verify"
    /\ Continue(r, [work[r] EXCEPT !.op = "cited", !.resolved = resolved,
                       !.roots = LoadedRoots(Ready, resolved, {c.root : c \in ToSet(work[r].cites)})])

(* Seeded bug: a citation without leaves is not an issue. *)
HoldsByRoot(cite, roots, leaves) ==
    /\ cite.root \in roots
    /\ cite.doc \in {"none", DocumentOf[cite.root]}
    /\ \A leaf \in cite.leaves : leaf \in leaves /\ RootOf[leaf] = cite.root
    /\ cite.quoted

Holds(cite, roots, leaves) ==
    /\ cite.root \in roots
    /\ cite.doc \in {"none", DocumentOf[cite.root]}
    /\ cite.leaves # {}
    /\ \A leaf \in cite.leaves : leaf \in leaves /\ RootOf[leaf] = cite.root
    /\ cite.quoted

Judge(r) ==
    LET cites == work[r].cites
        leaves == LoadedLeaves(Ready, work[r].resolved, UNION {c.leaves : c \in ToSet(cites)})
    IN
    /\ work[r].op = "cited"
    /\ Reply(r, {c.root : c \in ToSet(cites)},
                /\ \A i \in DOMAIN cites : Holds(cites[i], work[r].roots, leaves)
                /\ \A i, j \in DOMAIN cites : cites[i].id = cites[j].id => i = j)

(* Other requests and workers withdraw, change and publish documents, and  *)
(* delete collections.                                                     *)
ChangeDocument(d, new) ==
    /\ changes < MaxChanges
    /\ changes' = changes + 1
    /\ status[d] # new /\ status[d] # "deleted"
    /\ new = "deleted" => status[d] = "deleting"
    /\ status' = [status EXCEPT ![d] = new]
    /\ response' = Nothing
    /\ UNCHANGED <<accessVars, work>>

CloseCollection(c) ==
    /\ c \in active
    /\ changes < MaxChanges
    /\ changes' = changes + 1
    /\ active' = active \ {c}
    /\ response' = Nothing
    /\ UNCHANGED <<credentials, grants, gone, requests, status, work>>

Serve(r) ==
    \/ \E asked \in SUBSET Collections : AskSearch(r, asked)
    \/ ResolveSearch(r) \/ LoadFoundLeaves(r) \/ LoadFoundRoots(r)
    \/ \E d \in Documents : AskSections(r, d)
    \/ AuthorizeDocument(r) \/ InspectDocument(r)
    \/ \E root \in Roots : InspectRoot(r, root)
    \/ \E cites \in Submitted : AskVerify(r, cites)
    \/ LoadCitedRoots(r) \/ Judge(r)

Next ==
    \/ AccessNext /\ response' = Nothing /\ UNCHANGED <<status, changes, work>>
    \/ \E r \in Request : Serve(r)
    \/ \E d \in Documents, new \in Status : ChangeDocument(d, new)
    \/ \E c \in Collections : CloseCollection(c)

Spec == Init /\ [][Next]_vars

-----------------------------------------------------------------------------
(* A token reads nothing outside its collections, through any of the tools *)
(* above, even when they were deleted after it was issued; what a search   *)
(* returns was served at the moment its roots were read.                   *)
OnlyPermittedIsServed ==
    [][response'.op \in {"found", "opened"} =>
          \A root \in response'.roots :
              /\ credentials[response'.to].kind = "token" =>
                    CollectionOf[DocumentOf[root]] \in credentials[response'.to].collections
              /\ response'.op = "found" => DocumentOf[root] \in Ready]_vars

(* A citation is only confirmed while the document it cites is served and  *)
(* permitted: withdrawing it between the reads of the roots and of the     *)
(* leaves is noticed.                                                      *)
ConfirmedIsServed ==
    [][response'.valid =>
          \A root \in response'.roots :
              DocumentOf[root] \in Ready \cap Permitted(response'.to)]_vars
=============================================================================
