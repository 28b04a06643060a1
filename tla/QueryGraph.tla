------------------------------ MODULE QueryGraph ------------------------------
(***************************************************************************)
(* One query from its plan to its answer: SemanticQueryRunner.run          *)
(* (services/semantic_query.py), in standard mode and with the deep        *)
(* recovery of DeepRecoveryController, one action per call of the language *)
(* model or of a retrieval.                                                *)
(*                                                                         *)
(* The language model may answer anything, nothing, or something that      *)
(* cannot be parsed; BoundedLanguageModel (services/cost_guard.py) tries   *)
(* up to Tries times.  A retrieval finds any of the leaves that may be     *)
(* shown; its inner steps are RetrievalFunnel.                             *)
(***************************************************************************)
EXTENDS ContextStore, DeepRecovery, AnswerVerification

CONSTANTS
    MaxSubQueries,    \* the routes a plan may have
    Requests,     \* what may be asked: [mode, permission, ready, scope, question]
    Drafts,       \* what the author may write
    Tries,        \* the tries of one call of the language model
    HitsK,        \* the leaves of one retrieval that reach the graph
    RootLimit,    \* roots handed to the author of a simple query
    WideLimit     \* the same for a query of several routes or a deep one

ASSUME GraphAssumption == Tries \in Nat \ {0} /\ {HitsK, RootLimit, WideLimit} \subseteq Nat
ASSUME RequestsAssumption == \A asked \in Requests : asked.scope \in Scope
ASSUME DraftsAssumption ==
    \A draft \in Drafts : draft.citations \in Seq(ToSet(draft.citations))

-----------------------------------------------------------------------------
(***************************************************************************)
(* What a planner may make of the caller's scope                           *)
(* (services/query_planner.py), and what a scope repair of the deep        *)
(* recovery may take back (services/semantic_query.py, deep_recovery.py).  *)
(*                                                                         *)
(* A plan is [scope, routes]: the one requirement is always the caller's   *)
(* own question, whatever the planner lists as requirements, so a plan     *)
(* does not carry it.                                                      *)
(***************************************************************************)

(* Ids may be narrowed, never added. *)
AcceptableIds(candidate, base) == candidate \subseteq base

(* A metadata filter may be inferred where the caller gave none. *)
AcceptableMeta(candidate, base) == NoFilter \in {candidate, base} \/ candidate = base

Acceptable(candidate, base) ==
    /\ AcceptableIds(candidate.ids, base.ids)
    /\ AcceptableMeta(candidate.meta, base.meta)

Or(filter, base) == IF filter = NoFilter THEN base ELSE filter

Merged(candidate, base) ==
    [ids |-> Or(candidate.ids, base.ids), meta |-> Or(candidate.meta, base.meta)]

Deterministic(requested) == [scope |-> requested, routes |-> 1]

(* Every plan that can be made of a planner's answer for this scope: one   *)
(* that cannot be parsed, or that would widen it, becomes the              *)
(* deterministic plan.                                                     *)
Plans(requested) ==
    {[scope |-> Merged(candidate, requested), routes |-> routes] :
        candidate \in {c \in Scope : Acceptable(c, requested)},
        routes \in 1 .. MaxSubQueries}

-----------------------------------------------------------------------------
(* Seeded bug: any filter of the plan may be given up. *)
RepairableAny(requested, planned) ==
    {field \in DOMAIN planned : planned[field] # NoFilter}

(* The filters the planner added by itself. *)
Repairable(requested, planned) ==
    {field \in DOMAIN planned :
        requested[field] = NoFilter /\ planned[field] # NoFilter}

(* One of them is given up, in the order of the fields. *)
RepairedScope(scope, fields) ==
    [scope EXCEPT ![IF "ids" \in fields THEN "ids" ELSE "meta"] = NoFilter]

(* The route of a recovery round, by the words of the question. *)
Route(question, fields) ==
    CASE question = "scope" /\ fields # {} -> "scope_repair"
      [] question = "exact" -> "exact_term_sparse"
      [] question = "description" -> "hyde_dense"
      [] OTHER -> "query_rewrite_hybrid"

-----------------------------------------------------------------------------
VARIABLES
    step, request, plan,
    round,        \* recovery rounds begun
    searched,     \* the documents of the last retrieval
    ledger,       \* the evidence found so far
    held,         \* the remembered roots with their leaves
    judged,       \* the assessment an answer rests on
    context,      \* the roots handed to the author
    rejected,     \* the draft under repair
    result,
    emitted,      \* the stages reported
    unreported    \* tries of the model that the usage does not count

vars == <<step, request, plan, round, searched, ledger, held, judged, context,
          rejected, result, emitted, unreported>>

Stages == <<"planning", "retrieving", "reranking", "recovering", "answering">>
Rank(stage) == CHOOSE n \in DOMAIN Stages : Stages[n] = stage

NoJudgement == [covers |-> TRUE, conflict |-> FALSE, decision |-> "answer",
                degraded |-> FALSE]
NoDraft == [citations |-> <<>>, paragraphs |-> <<>>, covers |-> "no"]
NoResult == Nothing("none")

Init ==
    /\ step = "start" /\ request \in Requests
    /\ plan = Deterministic(request.scope)
    /\ round = 0 /\ searched = {} /\ ledger = <<>> /\ held = <<>>
    /\ judged = NoJudgement /\ context = {} /\ rejected = NoDraft
    /\ result = NoResult /\ emitted = <<>> /\ unreported = 0

-----------------------------------------------------------------------------
(* Seeded bug: a failed call is reported with the tries it might have had. *)
CountedAtMost(reported) == unreported' = unreported + 1 - Tries

(* A call of the model that answers counts its tries.  Where it failed, or *)
(* its answer could not be used, the caller counts what the error carries, *)
(* if anything, or a fixed number.                                         *)
CountedAs(reported) ==
    \E tries \in 1 .. Tries : unreported' = unreported + tries - reported

Counted == UNCHANGED unreported

Emit(stages) == emitted' = emitted \o stages

(* The stages a retrieval reports: only the first one does. *)
ReportedBy(first) == IF first THEN <<"reranking", "recovering">> ELSE <<>>

NextRound(n, found) == n + 1

(* A greeting is answered without the model. *)
Greet ==
    /\ step = "start" /\ request.question = "greeting"
    /\ Emit(<<"answering">>)
    /\ result' = Nothing("answered") /\ step' = "done"
    /\ UNCHANGED <<request, plan, round, searched, ledger, held, judged, context,
                   rejected, unreported>>

PlannerAnswers == plan' \in Plans(request.scope) /\ Counted

(* Without a planner, or when its answer cannot be used, the plan is       *)
(* deterministic.  Only an answer that came tells what it cost.            *)
PlannerFails == plan' = Deterministic(request.scope) /\ (Counted \/ CountedAs(1))

Plan ==
    /\ step = "start" /\ request.question # "greeting"
    /\ PlannerAnswers \/ PlannerFails
    /\ Emit(<<"planning", "retrieving">>)
    /\ step' = "retrieve"
    /\ UNCHANGED <<request, round, searched, ledger, held, judged, context,
                   rejected, result>>

Findable(scope) ==
    LET resolved == Resolve(request.ready, request.permission, scope)
    IN  LoadedLeaves(request.ready, resolved, Leaves)

(* The hits whose roots were restored, in order. *)
Found(leaves) ==
    {hits \in UNION {[1 .. n -> [leaf : leaves, sure : BOOLEAN]] : n \in 0 .. HitsK} :
        \A i, j \in DOMAIN hits : hits[i].leaf = hits[j].leaf => i = j}

Evidence(hits, n) ==
    [i \in DOMAIN hits |-> [leaf |-> hits[i].leaf, root |-> RootOf[hits[i].leaf],
                            sure |-> hits[i].sure, round |-> n]]

(* A root found again is remembered as it was found last. *)
Remembered(items) ==
    [root \in DOMAIN held \cup RootsIn(items) |->
        IF root \in RootsIn(items)
        THEN {items[i].leaf : i \in {k \in DOMAIN items : items[k].root = root}}
        ELSE held[root]]

AnswerRootLimit ==
    IF request.mode = "deep" \/ plan.routes > 1 THEN WideLimit ELSE RootLimit

Fail ==
    /\ result' = Nothing("failed") /\ step' = "done"
    /\ UNCHANGED <<ledger, held, context>>

(* Hand the roots to the author, unless there are none. *)
Answer(roots) ==
    /\ context' = roots
    /\ IF roots = {} THEN result' = Nothing("no_results") /\ step' = "done"
       ELSE step' = "draft" /\ UNCHANGED result

(* The first retrieval, of all routes of the plan.  It fails in the        *)
(* search, for a scope that cannot be met, or while restoring.             *)
Retrieve ==
    /\ step = "retrieve"
    /\ searched' = Resolve(request.ready, request.permission, plan.scope)
    /\ \/ Fail /\ \E n \in 0 .. IF searched' = Conflict THEN 1 ELSE 2 :
                     Emit(SubSeq(ReportedBy(TRUE), 1, n))
       \/ /\ searched' # Conflict
          /\ \E hits \in Found(Findable(plan.scope)) :
              LET items == Evidence(hits, 0)
              IN  IF request.mode = "deep"
                  THEN /\ ledger' = Added(<<>>, items) /\ held' = Remembered(items)
                       /\ Emit(ReportedBy(TRUE))
                       /\ step' = "assess" /\ UNCHANGED <<context, result>>
                  ELSE /\ Answer(RootsFor(items, Remembered(items), AnswerRootLimit))
                       /\ Emit(Append(ReportedBy(TRUE), "answering"))
                       /\ UNCHANGED <<ledger, held>>
    /\ UNCHANGED <<request, plan, round, judged, rejected, unreported>>

(* Another round, a safe refusal, or the author's turn, for which only the *)
(* context is kept.                                                        *)
Judge(judgement) ==
    LET settled == Settled(judgement, round)
    IN  \/ /\ settled.decision = "recover"
           /\ step' = "recover"
           /\ UNCHANGED <<ledger, held, judged, context, result, emitted>>
        \/ /\ settled.decision = "abstain" /\ Emit(<<"answering">>)
           /\ result' = Nothing("abstained") /\ step' = "done"
           /\ UNCHANGED <<ledger, held, judged, context>>
        \/ /\ settled.decision = "answer" /\ Emit(<<"answering">>)
           /\ judged' = settled
           /\ Answer(RootsFor(Selected(ledger), held, AnswerRootLimit))
           /\ ledger' = <<>> /\ held' = <<>>

AssessorAnswers ==
    \E answer \in AssessorAnswer : Judge(Believed(ledger, Judged(answer))) /\ Counted

AssessorFails == Judge(Fallback(ledger)) /\ (Counted \/ CountedAs(1))

(* Without evidence the assessor is not asked. *)
Assess ==
    /\ step = "assess"
    /\ IF ledger = <<>> THEN Judge(NoEvidence) /\ Counted
       ELSE AssessorAnswers \/ AssessorFails
    /\ UNCHANGED <<request, plan, round, searched, rejected>>

(* A recovery round retrieves by one route, in the plan's scope or in the  *)
(* repaired one.                                                           *)
ActionScope ==
    LET fields == Repairable(request.scope, plan.scope)
    IN  IF Route(request.question, fields) = "scope_repair"
        THEN RepairedScope(plan.scope, fields) ELSE plan.scope

Recover ==
    /\ step = "recover"
    /\ searched' = Resolve(request.ready, request.permission, ActionScope)
    /\ \/ Fail /\ round' = round + 1
       \/ /\ searched' # Conflict
          /\ \E hits \in Found(Findable(ActionScope)) :
              /\ round' = NextRound(round, hits)
              /\ ledger' = Added(ledger, Evidence(hits, round + 1))
              /\ held' = Remembered(Evidence(hits, round + 1))
          /\ step' = "assess" /\ UNCHANGED <<context, result>>
    /\ Emit(ReportedBy(FALSE))
    /\ UNCHANGED <<request, plan, judged, rejected, unreported>>

-----------------------------------------------------------------------------
Finish(answer) == result' = answer /\ step' = "done" /\ rejected' = NoDraft

(* The author's draft is verified; a rejected one may be repaired once. *)
Drafted(draft) ==
    IF Verify(context, draft) = {} THEN Finish(Answered("answered", draft))
    ELSE rejected' = draft /\ step' = "repair" /\ UNCHANGED result

(* Seeded bug: the repaired draft is trusted. *)
RepairedToTrusting(draft) == Finish(Answered("answered", draft))

RepairedTo(draft) ==
    IF Verify(context, draft) = {} THEN Finish(Answered("answered", draft))
    ELSE Finish(Incomplete(context, draft, Verify(context, draft)))

(* A model that does not answer ends the query safely, and so does a       *)
(* second draft that cannot be parsed.                                     *)
GiveUp == Finish(Nothing("abstained"))

(* A draft that cannot be parsed is asked for once more. *)
Redraft ==
    /\ step = "draft" /\ step' = "redraft"
    /\ Counted \/ CountedAs(0)
    /\ UNCHANGED <<result, rejected>>

Draft ==
    /\ step \in {"draft", "redraft"}
    /\ \/ \E draft \in Drafts : Drafted(draft) /\ Counted
       \/ Redraft
       \/ GiveUp /\ CountedAs(0)
       \/ step = "redraft" /\ GiveUp /\ Counted
    /\ UNCHANGED <<request, plan, round, searched, ledger, held, judged, context,
                   emitted>>

(* A repair that fails leaves what is safe of the first draft. *)
RepairFails ==
    Finish(Incomplete(context, rejected, Verify(context, rejected))) /\ CountedAs(0)

(* The repaired draft is verified again. *)
RepairAnswers == \E draft \in Drafts : RepairedTo(draft) /\ Counted

Repair ==
    /\ step = "repair"
    /\ RepairAnswers \/ RepairFails
    /\ UNCHANGED <<request, plan, round, searched, ledger, held, judged, context,
                   emitted>>

Done == step = "done" /\ UNCHANGED vars

Next == Greet \/ Plan \/ Retrieve \/ Assess \/ Recover \/ Draft \/ Repair \/ Done

Spec == Init /\ [][Next]_vars

-----------------------------------------------------------------------------
(* Neither a planner nor a scope repair leads a search beyond what the     *)
(* caller may see or beyond a filter the caller gave.                      *)
ScopeNeverWidens ==
    searched # Conflict =>
        /\ searched \subseteq request.permission
        /\ \A filter \in Filters(request.scope) : searched \subseteq filter

(* What is returned quotes only leaves that were handed to the author, all *)
(* of them the caller's to see, whatever the model wrote, also when only   *)
(* part of a draft is returned.                                            *)
QuotesSound ==
    /\ Sound(context, result)
    /\ \A citation \in result.citations : \A leaf \in citation.leaves :
        LeafDocument(leaf) \in request.permission
    /\ result.status = "partial" => result.citations # {}

(* The author of a deep query is asked only over evidence that was judged  *)
(* to cover the question without a conflict.                               *)
OnlyCoveredIsAnswered ==
    step \in {"draft", "redraft", "repair"} => judged.covers /\ ~judged.conflict

(* No answer without sufficient evidence, none that misquotes it.          *)
AnswerSound == QuotesSound /\ OnlyCoveredIsAnswered

(* However much better the first evidence is, recovered evidence keeps its *)
(* reserved places; the others go to the best of the rest.                 *)
RecoveredEvidenceKept ==
    LET chosen == Chosen(ledger)
        recovered == chosen \cap Recovered(ledger)
    IN  /\ Cardinality(chosen) = Min({TopK, Len(ledger)})
        /\ Cardinality(recovered) >= Min({Reserve, Cardinality(Recovered(ledger))})
        /\ \A i \in chosen, j \in DOMAIN ledger \ chosen :
            ledger[j].sure /\ ~ledger[i].sure
                => i \in recovered /\ Cardinality(recovered) <= Reserve

(* The stages a client sees only advance, with any number of recovery      *)
(* rounds between them: the stream of events depends on it (QueryStream),  *)
(* and the rounds stay within their limit.                                 *)
ProgressAdvances ==
    /\ \A i, j \in DOMAIN emitted : i < j => Rank(emitted[i]) < Rank(emitted[j])
    /\ round <= MaxRounds

(* A query never reports more calls of the model than were made: the cost  *)
(* guard would take such a report for unusable and keep the reservation.   *)
UsageNeverOverstated == unreported >= 0

(* What a query reports of its own course is true.                         *)
ReportsTrue == ProgressAdvances /\ UsageNeverOverstated
=============================================================================
