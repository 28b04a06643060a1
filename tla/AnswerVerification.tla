-------------------------- MODULE AnswerVerification --------------------------
(***************************************************************************)
(* The deterministic verification of an answer draft, and what is returned *)
(* of a draft that does not pass (services/answer_verification.py).        *)
(*                                                                         *)
(* The roots handed to the author are a set of [root, leaves].             *)
(* A draft is a sequence of citations [id, root, leaves, quoted], where    *)
(* quoted says that its quote occurs in the text of that root, a sequence  *)
(* of paragraphs [cites, factual], and whether it claims to cover the one  *)
(* requirement, the user's question: "yes", "no", or "other" when it       *)
(* claims something else.                                                  *)
(***************************************************************************)
EXTENDS Naturals, Sequences, FiniteSets, SequencesExt

CitationIds(citations) == {citations[i].id : i \in DOMAIN citations}

OfRoot(roots, citation) == {r \in roots : r.root = citation.root}

(* It cites leaves handed to the author with this root, and quotes it. *)
Grounded(roots, citation) ==
    /\ \E r \in OfRoot(roots, citation) : citation.leaves \subseteq r.leaves
    /\ citation.quoted

GroundedIds(roots, draft) ==
    {citation.id : citation \in
        {c \in ToSet(draft.citations) : Grounded(roots, c)}}

CitationIssue(roots, citation) ==
    IF OfRoot(roots, citation) = {} THEN "unknown_root"
    ELSE IF ~\E r \in OfRoot(roots, citation) : citation.leaves \subseteq r.leaves
    THEN "invalid_leaf"
    ELSE "quote_not_found"

Uncited(paragraph) == paragraph.factual /\ paragraph.cites = {}

(* Everything that is wrong with the draft. *)
Verify(roots, draft) ==
    LET wrong == {c \in ToSet(draft.citations) : ~Grounded(roots, c)}
    IN  {CitationIssue(roots, c) : c \in wrong}
        \cup {"duplicate_citation" : n \in
                {Len(draft.citations)} \ {Cardinality(CitationIds(draft.citations))}}
        \cup {"uncited_fact" : p \in {q \in ToSet(draft.paragraphs) : Uncited(q)}}
        \cup {"unknown_citation" : p \in
                {q \in ToSet(draft.paragraphs) :
                    ~(q.cites \subseteq GroundedIds(roots, draft))}}
        \cup {"missing_requirement" : c \in {draft.covers} \ {"yes"}}

FirstWithId(citations, id, grounded) ==
    citations[CHOOSE i \in DOMAIN citations :
        /\ citations[i].id = id /\ citations[i] \in grounded
        /\ \A k \in 1 .. i - 1 : citations[k].id # id \/ citations[k] \notin grounded]

(* Of a draft that did not pass, the paragraphs that stand by themselves   *)
(* and the citations they use.                                             *)
SafePart(roots, draft) ==
    LET valid == GroundedIds(roots, draft)
        kept == {p \in ToSet(draft.paragraphs) : p.cites \subseteq valid /\ ~Uncited(p)}
        grounded == {c \in ToSet(draft.citations) : Grounded(roots, c)}
    IN  [paragraphs |-> kept,
         citations  |-> {FirstWithId(draft.citations, id, grounded) :
                            id \in UNION {p.cites : p \in kept}}]

Answered(status, draft) ==
    [status |-> status, paragraphs |-> ToSet(draft.paragraphs),
     citations |-> ToSet(draft.citations)]

(* A partial answer when only coverage is missing, otherwise none. *)
Incomplete(roots, draft, issues) ==
    LET part == SafePart(roots, draft)
    IN  [status     |-> IF part.citations # {} /\ issues = {"missing_requirement"}
                        THEN "partial" ELSE "abstained",
         paragraphs |-> part.paragraphs,
         citations  |-> part.citations]

Nothing(status) == [status |-> status, paragraphs |-> {}, citations |-> {}]

-----------------------------------------------------------------------------
(* What must hold of every answer returned for these roots: each citation  *)
(* is grounded in the root it names, a number names one citation, and      *)
(* every paragraph's numbers are among those returned.                     *)
Sound(roots, answer) ==
    /\ \A citation \in answer.citations : Grounded(roots, citation)
    /\ \A c, d \in answer.citations : c.id = d.id => c = d
    /\ \A p \in answer.paragraphs :
        /\ ~Uncited(p)
        /\ p.cites \subseteq {c.id : c \in answer.citations}
=============================================================================
