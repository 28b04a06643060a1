------------------------ MODULE MCDocumentLifecycle ------------------------
(* Small instances of DocumentLifecycle for TLC. *)
EXTENDS DocumentLifecycle

TwoAttempts == [type \in JobType |-> 2]
=============================================================================
