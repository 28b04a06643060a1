-------------------------- MODULE MCKnowledgeCatalog --------------------------
(* Two documents in two collections, each with one root of one leaf.        *)
EXTENDS KnowledgeCatalog, TLC

MCRootOf == <<"A", "B">>
MCDocumentOf == [root \in {"A", "B"} |-> IF root = "A" THEN "a" ELSE "b"]
MCCollectionOf == [d \in {"a", "b"} |-> IF d = "a" THEN "x" ELSE "y"]

MCOffers ==
    {[scopes |-> {"knowledge:read", "answer:verify"}, collections |-> {"x"}],
     [scopes |-> {"knowledge:read"}, collections |-> {"x", "y"}],
     [scopes |-> {"knowledge:read"}, collections |-> {}]}

Symmetry == Permutations(Credential) \cup Permutations(Request)

Cite(id, root, leaves) ==
    [id |-> id, doc |-> "none", root |-> root, leaves |-> leaves, quoted |-> TRUE]

MCSubmitted == {<<Cite(1, "A", {1}), Cite(2, "B", {2})>>, <<Cite(1, "A", {})>>}
===============================================================================
