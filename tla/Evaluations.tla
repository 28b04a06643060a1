----------------------------- MODULE Evaluations -----------------------------
(***************************************************************************)
(* The evaluation runs of one tenant: EvaluationWorkspaceService           *)
(* (services/evaluation_workspace.py) over evaluation_runs                 *)
(* (adapters/database/evaluations.py) with EvaluationRunner                *)
(* (services/eval_runner.py).  A run is created by a request, and executed *)
(* by a task of the process that answered it; nothing takes a run over     *)
(* when that process dies.  The profile calls no model, so its budget of   *)
(* model calls is always met and is left out.                              *)
(*                                                                         *)
(* A golden case is observed by the sparse subject                         *)
(* (services/quality_gate.py) and scored by the deterministic metrics      *)
(* (services/evaluation.py).  A score in [0, 1] is a number of 1/Scale;    *)
(* Missing is Python's None.                                               *)
(***************************************************************************)
EXTENDS Integers, Sequences, FiniteSets, SequencesExt, FiniteSetsExt

CONSTANTS
    DocumentOf,     \* the document of each root of the golden corpus
    Scale,          \* divisible by every number of cases and of expected roots
    RecallK,        \* 5 in the code
    RankK,          \* 10
    CitedRoots,     \* 5
    GoldenSets,     \* for each dataset revision, its cases in order
    CaseLimit,      \* evaluation.max_cases
    MaxRuns,        \* bound: runs ever created
    MaxRestarts     \* bound: restarts of the process

ASSUME BoundsAssumption ==
    CaseLimit \in Nat \ {0} /\ MaxRuns \in Nat /\ MaxRestarts \in Nat

-----------------------------------------------------------------------------
Roots == DOMAIN DocumentOf
Documents == {DocumentOf[r] : r \in Roots}
Missing == -1
Score == {Missing} \cup 0 .. Scale

Top(ranked, k) == SubSeq(ranked, 1, IF Len(ranked) < k THEN Len(ranked) ELSE k)

(* A case names the documents it may search, the documents and the roots   *)
(* it expects, and whether the subject must abstain.                       *)
Expected(case) == case.roots
ExpectedDocuments(case) == case.documents

(* The loader refuses a dataset whose cases share an id or expect a root   *)
(* that is not of one of the expected documents (_validate_integrity).     *)
ASSUME GoldenAssumption ==
    /\ IsFiniteSet(Roots)
    /\ \A g \in DOMAIN GoldenSets :
        LET cases == GoldenSets[g] IN
        /\ cases \in Seq(Range(cases))
        /\ \A i, j \in DOMAIN cases : cases[i].id = cases[j].id => i = j
        /\ \A i \in DOMAIN cases :
            /\ cases[i].roots \subseteq Roots /\ IsFiniteSet(cases[i].documents)
            /\ {DocumentOf[r] : r \in cases[i].roots} \subseteq cases[i].documents

(* The ranks scored include those recalled; the fractions are exact.       *)
ASSUME ScaleAssumption ==
    /\ RecallK \in Nat \ {0} /\ RankK \in Nat /\ RecallK <= RankK
    /\ CitedRoots \in Nat /\ Scale \in Nat \ {0}
    /\ \A n \in 1 .. RankK : Scale % n = 0
    /\ \A g \in DOMAIN GoldenSets : \A i \in DOMAIN GoldenSets[g] :
        \A expected \in {GoldenSets[g][i].roots, GoldenSets[g][i].documents} :
            expected # {} => Scale % Cardinality(expected) = 0

(* The encoder orders the roots of the allowed documents: any order.       *)
RankingsOf(case) == SetToSeqs({r \in Roots : DocumentOf[r] \in case.allowed})

(* A document is ranked where its first root is. *)
DocumentsRanked(rankedRoots) ==
    LET add(docs, root) == IF DocumentOf[root] \in Range(docs) THEN docs
                           ELSE Append(docs, DocumentOf[root])
    IN  FoldLeft(add, <<>>, rankedRoots)

Observed(case, ranked) ==
    LET roots == Top(ranked, RankK) IN
    [roots |-> roots,
     documents |-> DocumentsRanked(roots),
     cited |-> IF case.abstain THEN <<>> ELSE Top(roots, CitedRoots),
     abstained |-> case.abstain]

-----------------------------------------------------------------------------
Recall(gold, ranked, k) ==
    IF gold = {} THEN Missing
    ELSE (Scale * Cardinality(gold \cap Range(Top(ranked, k)))) \div Cardinality(gold)

(* Seeded bug: the rank is that of the last expected root found. *)
LastReciprocalRank(gold, ranked, k) ==
    LET found == {n \in DOMAIN Top(ranked, k) : ranked[n] \in gold} IN
    IF gold = {} THEN Missing ELSE IF found = {} THEN 0 ELSE Scale \div Max(found)

ReciprocalRank(gold, ranked, k) ==
    LET found == {n \in DOMAIN Top(ranked, k) : ranked[n] \in gold} IN
    IF gold = {} THEN Missing ELSE IF found = {} THEN 0 ELSE Scale \div Min(found)

(* Quotes are whole root texts here, so a citation is valid when its root  *)
(* is one of the authorized ones.                                          *)
Metrics(case, seen) ==
    [documents |-> Recall(ExpectedDocuments(case), seen.documents, RecallK),
     roots |-> Recall(Expected(case), seen.roots, RecallK),
     rank |-> ReciprocalRank(Expected(case), seen.roots, RankK),
     coverage |-> IF case.abstain THEN Missing
                  ELSE Recall(Expected(case), seen.cited, CitedRoots),
     validity |-> IF seen.cited # <<>> THEN Scale
                  ELSE IF seen.abstained THEN Missing ELSE 0,
     abstention |-> IF seen.abstained = case.abstain THEN Scale ELSE 0]

(* The average over the cases that have a value. *)
Mean(values) ==
    LET known == {n \in DOMAIN values : values[n] # Missing} IN
    IF known = {} THEN Missing
    ELSE MapThenSumSet(LAMBDA n : values[n], known) \div Cardinality(known)

Aggregate(results) ==
    [name \in {"documents", "roots", "rank", "coverage", "validity", "abstention"} |->
        Mean([n \in DOMAIN results |-> results[n].metrics[name]])]

-----------------------------------------------------------------------------
VARIABLES
    golden,     \* the dataset revision this process has loaded
    runs,       \* evaluation_runs, in the order of creation
    tasks,      \* for each run, the step of its task and the results so far
    orphans,    \* history: the runs without a task that will write their end
    restarts

evaluationVars == <<golden, runs, tasks, orphans, restarts>>

Modes == {"all", "standard", "deep"}
Active == {"queued", "running"}
Ids(cases) == [n \in DOMAIN cases |-> cases[n].id]
NoReport == <<>>

RunIds == 1 .. Len(runs)
Step(r) == tasks[r].step

EvaluationInit ==
    /\ golden \in DOMAIN GoldenSets
    /\ runs = <<>>
    /\ tasks = <<>>
    /\ orphans = {}
    /\ restarts = 0

-----------------------------------------------------------------------------

(* The cases that are in S, in their order. *)
CasesAmong(cases, S) ==
    LET add(kept, case) == IF case \in S THEN Append(kept, case) ELSE kept
    IN  FoldLeft(add, <<>>, cases)

Golden == GoldenSets[golden]

(* _select_cases. *)
Chosen(mode, limit) ==
    Top(CasesAmong(Golden, {c \in Range(Golden) : mode = "all" \/ c.mode = mode}), limit)

(* The cases a run is executed on. *)
Executed(r) ==
    CasesAmong(Golden, {c \in Range(Golden) : c.id \in Range(runs[r].cases)})

(* A partial unique index refuses a second queued or running run, and a    *)
(* check constraint a run without cases.  The task is started behind the   *)
(* response: if the answer to the commit is lost, or the request is        *)
(* cancelled, the run exists and has none.                                 *)
Create(mode, limit) ==
    LET cases == Chosen(mode, limit) IN
    /\ Len(runs) < MaxRuns
    /\ cases # <<>>
    /\ \A r \in RunIds : runs[r].status \notin Active
    /\ runs' = Append(runs, [status |-> "queued", mode |-> mode, dataset |-> golden,
                             cases |-> Ids(cases), completed |-> 0, report |-> NoReport])
    /\ \E step \in {"fetch", "none"} :
        /\ tasks' = Append(tasks, [step |-> step, results |-> <<>>])
        /\ orphans' = IF step = "none" THEN orphans \cup {Len(runs')} ELSE orphans
    /\ UNCHANGED <<golden, restarts>>

MarkRunning(r) ==
    /\ Step(r) = "fetch"
    /\ IF runs[r].status = "queued"
       THEN /\ runs' = [runs EXCEPT ![r].status = "running"]
            /\ tasks' = [tasks EXCEPT ![r].step = "score"]
       ELSE /\ runs' = runs
            /\ tasks' = [tasks EXCEPT ![r].step = "failing"]
    /\ UNCHANGED <<golden, orphans, restarts>>

(* One case is observed and scored, and the progress written. *)
ScoreCase(r) ==
    LET next == Len(tasks[r].results) + 1 IN
    /\ Step(r) = "score"
    /\ next <= Len(Executed(r))
    /\ LET case == Executed(r)[next] IN
       \E ranked \in RankingsOf(case) :
          tasks' = [tasks EXCEPT ![r].results =
              Append(@, [id |-> case.id, metrics |-> Metrics(case, Observed(case, ranked))])]
    /\ runs' = [runs EXCEPT ![r].completed =
                   IF runs[r].status = "running" /\ @ < next THEN next ELSE @]
    /\ UNCHANGED <<golden, orphans, restarts>>

Succeed(r) ==
    /\ Step(r) = "score"
    /\ Len(tasks[r].results) = Len(Executed(r))
    /\ runs' = IF runs[r].status = "running"
               THEN [runs EXCEPT ![r].status = "succeeded",
                                 ![r].completed = Len(runs[r].cases),
                                 ![r].report = tasks[r].results]
               ELSE runs
    /\ tasks' = [tasks EXCEPT ![r] = [step |-> "none", results |-> <<>>]]
    /\ UNCHANGED <<golden, orphans, restarts>>

(* Any call of the task raises. *)
BreakTask(r) ==
    /\ Step(r) \in {"fetch", "score"}
    /\ tasks' = [tasks EXCEPT ![r].step = "failing"]
    /\ UNCHANGED <<golden, runs, orphans, restarts>>

(* Seeded bug: only a run that was started is failed. *)
FailTaskRunning(r) ==
    /\ Step(r) = "failing"
    /\ runs' = IF runs[r].status = "running"
               THEN [runs EXCEPT ![r].status = "failed"] ELSE runs
    /\ tasks' = [tasks EXCEPT ![r] = [step |-> "none", results |-> <<>>]]
    /\ UNCHANGED <<golden, orphans, restarts>>

FailTask(r) ==
    /\ Step(r) = "failing"
    /\ runs' = IF runs[r].status \in Active
               THEN [runs EXCEPT ![r].status = "failed"] ELSE runs
    /\ tasks' = [tasks EXCEPT ![r] = [step |-> "none", results |-> <<>>]]
    /\ UNCHANGED <<golden, orphans, restarts>>

(* That write raises too, and nothing tries again. *)
FailLost(r) ==
    /\ Step(r) = "failing"
    /\ tasks' = [tasks EXCEPT ![r] = [step |-> "none", results |-> <<>>]]
    /\ orphans' = orphans \cup {r}
    /\ UNCHANGED <<golden, runs, restarts>>

Restart ==
    /\ restarts < MaxRestarts
    /\ restarts' = restarts + 1
    /\ golden' \in DOMAIN GoldenSets
    /\ tasks' = [r \in DOMAIN tasks |-> [step |-> "none", results |-> <<>>]]
    /\ orphans' = orphans \cup {r \in RunIds : Step(r) # "none"}
    /\ UNCHANGED runs

Work(r) ==
    \/ MarkRunning(r) \/ ScoreCase(r) \/ Succeed(r)
    \/ BreakTask(r) \/ FailTask(r) \/ FailLost(r)

WorkOn(r) == r \in RunIds /\ Work(r)

EvaluationNext ==
    \/ \E mode \in Modes, limit \in 1 .. CaseLimit : Create(mode, limit)
    \/ \E r \in RunIds : Work(r)
    \/ Restart

(* The event loop keeps running the tasks it was given. *)
EvaluationSpec ==
    /\ EvaluationInit /\ [][EvaluationNext]_evaluationVars
    /\ \A r \in 1 .. MaxRuns : WF_evaluationVars(WorkOn(r))

-----------------------------------------------------------------------------
(* Seeded bug: the case sets are not compared. *)
ComparableByDataset(base, candidate) ==
    /\ base.status = "succeeded" /\ candidate.status = "succeeded"
    /\ base.report # NoReport /\ candidate.report # NoReport
    /\ base.dataset = candidate.dataset
    /\ base.mode = candidate.mode

(* _comparison_reasons finds none, for two different runs. *)
Comparable(base, candidate) ==
    /\ base.status = "succeeded" /\ candidate.status = "succeeded"
    /\ base.report # NoReport /\ candidate.report # NoReport
    /\ base.dataset = candidate.dataset
    /\ base.mode = candidate.mode
    /\ base.cases = candidate.cases

Reported == {r \in RunIds : runs[r].report # NoReport}

-----------------------------------------------------------------------------
(* A run that succeeded has a result for each of its cases, in their       *)
(* order, and its progress says so; no other run has a report, whatever    *)
(* failed or restarted meanwhile.                                          *)
SucceededIsWhole ==
    \A r \in RunIds :
        IF runs[r].status = "succeeded"
        THEN /\ runs[r].completed = Len(runs[r].cases)
             /\ Ids(runs[r].report) = runs[r].cases
        ELSE runs[r].report = NoReport

(* Deltas are only given between whole runs that scored the same cases of  *)
(* the same dataset.                                                       *)
ComparedOnSameCases ==
    /\ SucceededIsWhole
    /\ \A a, b \in RunIds :
        Comparable(runs[a], runs[b])
            => /\ Ids(runs[a].report) = Ids(runs[b].report)
               /\ runs[a].dataset = runs[b].dataset

(* Three numbers of one observation that are computed apart agree: an      *)
(* expected root among the first RecallK makes the reciprocal rank at      *)
(* least 1/RecallK and the other way round, and its document is among the  *)
(* first RecallK documents.                                                *)
NumbersAgree ==
    \A r \in Reported : \A n \in DOMAIN runs[r].report :
        LET m == runs[r].report[n].metrics IN
        m.roots # Missing =>
            /\ m.roots > 0 <=> m.rank * RecallK >= Scale
            /\ m.roots > 0 => m.documents > 0

(* A case that expects nothing neither raises nor lowers an average: the   *)
(* average lies between the values of the cases that have one.             *)
AveragesWithinCases ==
    \A r \in Reported :
        LET report == runs[r].report
            values == {report[n].metrics["roots"] : n \in DOMAIN report} \ {Missing}
            mean == Aggregate(report)["roots"] IN
        IF values = {} THEN mean = Missing
        ELSE Min(values) <= mean /\ mean <= Max(values)

(* The numbers of a report do not contradict each other.                   *)
MetricsAgree == NumbersAgree /\ AveragesWithinCases

(* Every run ends, unless its process, the write of its failure or the     *)
(* answer to the request that created it is lost.                          *)
Over(r) == r \in RunIds /\ (r \in orphans \/ runs[r].status \notin Active)

EveryRunEnds == \A r \in 1 .. MaxRuns : [](r \in RunIds => <>Over(r))
=============================================================================
