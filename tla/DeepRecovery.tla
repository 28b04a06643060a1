----------------------------- MODULE DeepRecovery -----------------------------
(***************************************************************************)
(* The evidence of a deep query (EvidenceLedger) and the decisions on it   *)
(* (DeepRecoveryController), of services/deep_recovery.py, with the answer *)
(* of the language-model assessor (services/language_model_reasoning.py).  *)
(*                                                                         *)
(* An evidence item is [leaf, root, sure, round]: sure when its confidence *)
(* reaches the high threshold (0.7 for coverage and 0.3 of confidence make *)
(* at least 0.8).  Every item supports the one requirement of the plan, so *)
(* any evidence at all covers it.                                          *)
(***************************************************************************)
EXTENDS Integers, Sequences, FiniteSets, FiniteSetsExt

CONSTANTS
    MaxRounds,   \* recovery rounds
    TopK,        \* evidence items kept for the answer
    Reserve      \* of these, how many are kept for recovered ones

ASSUME SelectionAssumption == /\ MaxRounds \in Nat /\ TopK \in Nat \ {0}
                              /\ Reserve \in 0 .. TopK

LeavesIn(items) == {items[i].leaf : i \in DOMAIN items}
RootsIn(items) == {items[i].root : i \in DOMAIN items}

(* The items whose leaf is found for the first time. *)
Fresh(ledger, items) ==
    {i \in DOMAIN items :
        items[i].leaf \notin LeavesIn(ledger) \cup {items[k].leaf : k \in 1 .. i - 1}}

Nth(places, n) == CHOOSE i \in places : Cardinality({j \in places : j < i}) = n - 1

(* A leaf stays with the round that found it first. *)
Added(ledger, items) ==
    LET fresh == Fresh(ledger, items)
    IN  ledger \o [n \in 1 .. Cardinality(fresh) |-> items[Nth(fresh, n)]]

-----------------------------------------------------------------------------
Recovered(ledger) == {i \in DOMAIN ledger : ledger[i].round > 0}

Ahead(ledger, i, j) ==
    \/ ledger[i].sure /\ ~ledger[j].sure
    \/ ledger[i].sure = ledger[j].sure /\ i < j

(* How many of the items come before one of them. *)
Place(ledger, items, i) == Cardinality({j \in items : Ahead(ledger, j, i)})

Best(ledger, items, n) == {i \in items : Place(ledger, items, i) < n}

(* Seeded bug: the reserve is taken from what is left. *)
ChosenByRank(ledger) == Best(ledger, DOMAIN ledger, TopK)

Reserved(ledger) == Best(ledger, Recovered(ledger), Reserve)

(* The best items, Reserve places of them kept for recovered evidence. *)
Chosen(ledger) ==
    LET reserved == Reserved(ledger)
    IN  reserved \cup Best(ledger, DOMAIN ledger \ reserved, TopK - Cardinality(reserved))

Selected(ledger) ==
    LET chosen == Chosen(ledger)
    IN  [n \in 1 .. Cardinality(chosen) |->
            ledger[CHOOSE i \in chosen : Place(ledger, chosen, i) = n - 1]]

FirstPlace(items, root) == Min({i \in DOMAIN items : items[i].root = root})

(* The first roots of the selected evidence that the executor remembers. *)
RootsFor(selected, held, limit) ==
    LET known == RootsIn(selected) \cap DOMAIN held
        before(root) ==
            {r \in known : FirstPlace(selected, r) < FirstPlace(selected, root)}
    IN  {[root |-> root, leaves |-> held[root]] :
            root \in {r \in known : Cardinality(before(r)) < limit}}

-----------------------------------------------------------------------------
Decision == {"answer", "recover", "abstain"}

(* What the assessor may answer: does it name the requirement as covered,  *)
(* and does it name anything, the requirement or not, as missing?          *)
AssessorAnswer ==
    [named : BOOLEAN, lacking : BOOLEAN, conflict : BOOLEAN, decision : Decision]

Covers(answer) == answer.named /\ ~answer.lacking

(* Without coverage its answer counts as an abstention. *)
Judged(answer) ==
    [covers   |-> Covers(answer),
     conflict |-> answer.conflict,
     decision |-> IF answer.decision = "answer" /\ ~Covers(answer)
                  THEN "abstain" ELSE answer.decision,
     degraded |-> FALSE]

(* What counts when the assessor cannot be believed. *)
Fallback(ledger) ==
    [covers |-> TRUE, conflict |-> FALSE,
     decision |-> IF \E i \in DOMAIN ledger : ledger[i].sure
                  THEN "answer" ELSE "recover",
     degraded |-> TRUE]

NoEvidence == [covers |-> FALSE, conflict |-> FALSE, decision |-> "recover",
               degraded |-> FALSE]

(* The judgement as the controller accepts it: it does not answer without  *)
(* coverage, nor over a conflict.                                          *)
Believed(ledger, judgement) ==
    IF judgement.decision = "answer" /\ (~judgement.covers \/ judgement.conflict)
    THEN Fallback(ledger) ELSE judgement

(* Missing evidence is looked for while rounds are left, and after the     *)
(* last round nothing more is.                                             *)
Settled(judgement, round) ==
    IF /\ judgement.decision = "abstain" /\ round < MaxRounds
       /\ ~judgement.covers /\ ~judgement.conflict
    THEN [judgement EXCEPT !.decision = "recover"]
    ELSE IF judgement.decision = "recover" /\ round >= MaxRounds
    THEN [judgement EXCEPT !.decision = "abstain"]
    ELSE judgement
=============================================================================
