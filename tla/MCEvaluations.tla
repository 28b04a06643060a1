---------------------------- MODULE MCEvaluations ----------------------------
(* Four roots in two documents, so that an expected root can fall outside  *)
(* the ones recall looks at and outside the ones ranked; one dataset with  *)
(* a case of each mode, one of them to be abstained from; another shares   *)
(* an id with it.                                                          *)
EXTENDS Evaluations

MCDocumentOf == <<1, 1, 2, 2>>

Case(id, mode, documents, roots, allowed) ==
    [id |-> id, mode |-> mode, documents |-> documents, roots |-> roots,
     allowed |-> allowed, abstain |-> roots = {}]

MCGoldenSets ==
    [g1 |-> <<Case("a", "standard", {1, 2}, {2, 3}, {1, 2}), Case("b", "deep", {2}, {}, {2}),
              Case("c", "standard", {2}, {4}, {2})>>,
     g2 |-> <<Case("a", "deep", {1}, {1}, {1})>>]
=============================================================================
