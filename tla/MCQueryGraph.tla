----------------------------- MODULE MCQueryGraph -----------------------------
(* Two leaves of one root, one of another; each root a document.             *)
EXTENDS QueryGraph

MCRootOf == <<"A", "A", "B">>
MCDocumentOf == [root \in {"A", "B"} |-> IF root = "A" THEN "a" ELSE "b"]

Asked(mode, permission, ids, meta, question) ==
    [mode |-> mode, permission |-> permission, ready |-> {"a", "b"},
     scope |-> [ids |-> ids, meta |-> meta], question |-> question]

Both == {"a", "b"}
MCRequests ==
    {Asked("standard", Both, {}, {}, "other"), Asked("standard", {"a"}, {}, {}, "greeting"),
     Asked("standard", Both, Both, {"a"}, "other"),
     Asked("deep", {"a"}, {}, {}, "scope"), Asked("deep", Both, {}, {}, "scope"),
     Asked("deep", {"b"}, {"a", "b"}, {}, "other"),
     Asked("deep", Both, {}, {"b"}, "scope")}

Citation(id, root, leaf, quoted) ==
    [id |-> id, root |-> root, leaves |-> {leaf}, quoted |-> quoted]
Paragraph(cites, factual) == [cites |-> cites, factual |-> factual]

MCDrafts ==
    [citations : {<<>>, <<Citation(1, "A", 1, TRUE)>>,
                  <<Citation(1, "A", 2, TRUE), Citation(1, "B", 3, TRUE)>>,
                  <<Citation(1, "A", 1, FALSE), Citation(2, "B", 3, TRUE)>>},
     paragraphs : {<<Paragraph({1}, TRUE)>>,
                   <<Paragraph({}, TRUE), Paragraph({2}, TRUE)>>,
                   <<Paragraph({1}, TRUE), Paragraph({}, FALSE)>>},
     covers : {"yes", "no"}]
===============================================================================
