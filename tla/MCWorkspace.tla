------------------------------ MODULE MCWorkspace ------------------------------
(* Two requests, two collections whose names differ in case, and documents *)
(* of which two share an instant and the third has the lowest id.  Names   *)
(* that folding changes and lowering does not are left to the proof.       *)
EXTENDS Workspace, TLC

MCCreatedAt == <<2, 1, 1>>
MCFolded == [name \in {"n", "N"} |-> "n"]
Symmetry == Permutations(Client) \cup Permutations(Collection)
================================================================================
