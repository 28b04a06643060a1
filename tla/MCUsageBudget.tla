---------------------------- MODULE MCUsageBudget ----------------------------
(* Small instances of UsageBudget for TLC. *)
EXTENDS UsageBudget, TLC

Amounts(calls, tokens) == ("llm_calls" :> calls) @@ ("input_tokens" :> tokens)

(* Deep queries reserve more; two standard queries fit a day, a standard   *)
(* and a deep one do not.                                                  *)
TwoModes ==
    [m \in {"standard", "deep"} |->
        IF m = "deep" THEN Amounts(3, 2) ELSE Amounts(2, 1)]
FourCalls == Amounts(4, 3)

(* Part of either reservation, and more calls than any reserves. *)
TwoUsages == {Amounts(1, 1), Amounts(4, 1)}

(* A limit a deep reservation does not fit: with it in place of FourCalls  *)
(* WithinLimits fails, the first row of a day not being compared with it.  *)
TwoCalls == Amounts(2, 3)

Symmetry == Permutations(Queries)
=============================================================================
