-------------------------- MODULE MCRetrievalFunnel --------------------------
(* Three leaves of one root, one of another; each root a document.          *)
EXTENDS RetrievalFunnel

MCRootOf == <<"A", "A", "A", "B">>
MCDocumentOf == [root \in {"A", "B"} |-> IF root = "A" THEN "a" ELSE "b"]
MCTextLength == <<1, 2, 1, 2>>

MCPermissions == {{"a", "b"}, {"b"}, {}}
MCScopes ==
    {[ids |-> {}, meta |-> {}], [ids |-> {"b"}, meta |-> {}],
     [ids |-> {}, meta |-> {"a"}]}
==============================================================================
