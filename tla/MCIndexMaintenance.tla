-------------------------- MODULE MCIndexMaintenance --------------------------
(* Two revisions; cleaning turns two leaves into one. *)
EXTENDS IndexMaintenance

MCPartsOf == [original |-> 2, cleaned |-> 1]
=============================================================================
