--------------------------- MODULE RetrievalFunnel ---------------------------
(***************************************************************************)
(* One hybrid retrieval of a query: SemanticQueryRunner._retrieve          *)
(* (services/semantic_query.py) over DualSearchService                     *)
(* (services/retrieval.py), one action per call it awaits.                 *)
(*                                                                         *)
(* Documents are withdrawn and served again meanwhile, by deletions,       *)
(* cleanings and new versions: each database statement sees the documents  *)
(* of its own moment, the vector store sees any of them.                   *)
(***************************************************************************)
EXTENDS Retrieval

CONSTANTS
    Queries,       \* the retrieval routes of the plan
    Permissions,   \* what the caller may be allowed to see: sets of documents
    Scopes,        \* the scopes the plan may have
    ScoreLevels,   \* the scores a reranker may give
    MaxChanges     \* bound: documents withdrawn or served in one retrieval

ASSUME RoutesAssumption == IsFiniteSet(Queries) /\ ScoreLevels \subseteq Nat

VARIABLES
    stage,
    permission, scope,
    ready,      \* the documents the database serves
    changes,
    branches,   \* the ranked lists of the routes, dense and sparse
    hits,       \* the hits: fused, then authorized, then selected
    scores,     \* what the reranker answered; Unscored when it is not believed
    resolved,   \* the documents the scope was resolved to
    texts,      \* the selected leaves whose texts were loaded
    restored     \* the restored roots

inputs == <<permission, scope>>
funnelVars == <<stage, inputs, ready, changes, branches, hits, scores, resolved,
          texts, restored>>

Methods == {"dense", "sparse"}

FunnelInit ==
    /\ stage = "search"
    /\ permission \in Permissions /\ scope \in Scopes
    /\ ready \in {Documents} /\ changes = 0
    /\ branches = <<>> /\ hits = <<>> /\ scores = Unscored
    /\ resolved = {} /\ texts = {} /\ restored = <<>>

(* Every list is found within the same pre-filter; one that is too long or *)
(* repeats a hit is refused.                                               *)
Searched(lists) ==
    /\ \E found \in [lists -> Rankings(Prefiltered(scope, permission))] :
        branches' = SetToSeq({[query |-> b[1], method |-> b[2], hits |-> found[b]] :
                                 b \in lists})
    /\ stage' = "fuse"
    /\ UNCHANGED <<inputs, ready, changes, hits, scores, resolved, texts, restored>>

(* The plan's routes are searched by both methods, ... *)
SearchHybrid == stage = "search" /\ Searched(Queries \X Methods)

(* ... a route of the recovery may be searched by only one of them. *)
SearchSingle ==
    /\ stage = "search"
    /\ \E query \in Queries, method \in Methods : Searched({<<query, method>>})

Quota == RootQuota({branches[i].query : i \in DOMAIN branches})

FuseBranches ==
    /\ stage = "fuse"
    /\ hits' = Fuse(branches, Quota)
    /\ stage' = "authorize"
    /\ UNCHANGED <<inputs, ready, changes, branches, scores, resolved, texts,
                   restored>>

(* prepare_candidates, or resolve_scope alone when nothing was found. *)
Authorize ==
    /\ stage = "authorize"
    /\ resolved' = Resolve(ready, permission, scope)
    /\ IF resolved' = Conflict
       THEN stage' = "conflict" /\ hits' = <<>>
       ELSE /\ stage' = "rerank"
            /\ hits' = Prepare(hits, LoadedLeaves(ready, resolved', Leaves))
    /\ branches' = <<>>
    /\ UNCHANGED <<inputs, ready, changes, scores, texts, restored>>

(* The reranker scores every candidate or is not believed at all; with no  *)
(* candidate it is not asked.                                              *)
Rerank ==
    /\ stage = "rerank"
    /\ scores' \in [{hits[i].leaf : i \in DOMAIN Candidates(hits)} -> ScoreLevels]
                    \cup {Unscored}
    /\ hits' = Relevant(Select(hits, scores'), scores')
    /\ stage' = "texts"
    /\ UNCHANGED <<inputs, ready, changes, branches, resolved, texts, restored>>

LoadTexts ==
    /\ stage = "texts"
    /\ texts' = LoadedLeaves(ready, resolved, {hits[i].leaf : i \in DOMAIN hits})
    /\ stage' = "roots"
    /\ scores' = Unscored
    /\ UNCHANGED <<inputs, ready, changes, branches, hits, resolved, restored>>

LoadRoots ==
    /\ stage = "roots"
    /\ restored' = Restore(hits, texts,
                          LoadedRoots(ready, resolved, ToSet(RootsInOrder(hits))))
    /\ stage' = "restored"
    /\ UNCHANGED <<inputs, ready, changes, branches, hits, scores, resolved, texts>>

(* Other requests withdraw documents and serve them again. *)
Change(document) ==
    /\ stage \notin {"search", "fuse", "restored", "conflict"}
    /\ changes < MaxChanges
    /\ changes' = changes + 1
    /\ ready' = (ready \ {document}) \cup ({document} \ ready)
    /\ UNCHANGED <<stage, inputs, branches, hits, scores, resolved, texts, restored>>

Ended == stage \in {"restored", "conflict"} /\ UNCHANGED funnelVars

FunnelNext ==
    \/ SearchHybrid \/ SearchSingle
    \/ FuseBranches \/ Authorize \/ Rerank \/ LoadTexts \/ LoadRoots
    \/ \E document \in Documents : Change(document)
    \/ Ended

FunnelSpec == FunnelInit /\ [][FunnelNext]_funnelVars

-----------------------------------------------------------------------------
Before(list, a, b) ==
    \E i, j \in DOMAIN list : i < j /\ list[i].leaf = a /\ list[j].leaf = b

Outranks(branch, a, b) ==
    a \in ToSet(branch.hits)
    /\ (b \in ToSet(branch.hits)
        => Position(branch.hits, a) < Position(branch.hits, b))

(* A leaf that is ahead of another in every branch that found either is    *)
(* kept before it; it may be missing only when its own root has used up    *)
(* its quota with leaves that are kept.                                    *)
DominanceKept ==
    stage = "authorize" /\ branches # <<>> =>
        \A b \in DOMAIN hits : \A a \in FoundBy(branches) \ {hits[b].leaf} :
            (\A i \in BranchesOf(branches, a) \cup BranchesOf(branches, hits[b].leaf) :
                Outranks(branches[i], a, hits[b].leaf))
            => \/ Before(hits, a, hits[b].leaf)
               \/ SameRoot(hits, [leaf |-> a]) >= Quota

(* No root takes more than its quota, and a found root is left out only    *)
(* when the kept hits are as many as fusion may keep.                      *)
EveryRootHeard ==
    stage = "authorize" /\ branches # <<>> =>
        \A leaf \in FoundBy(branches) :
            /\ SameRoot(hits, [leaf |-> leaf]) <= Quota
            /\ SameRoot(hits, [leaf |-> leaf]) = 0 => Len(hits) = FusedTopK

(* The fused list ranks by the branches and is spread over the roots.      *)
FusionSound == DominanceKept /\ EveryRootHeard

(* The selection is in the reranker's order and keeps the best candidates: *)
(* one is passed over only for SelectedLeafK others that are no worse, or  *)
(* because it is irrelevant.  Without an answer that can be believed the   *)
(* fused scores count, and nothing is irrelevant.                          *)
BestSelected ==
    [][stage = "rerank" =>
        LET candidates == Candidates(hits)
            kept == {hits'[k].leaf : k \in DOMAIN hits'}
            Score(i) == IF scores' = Unscored THEN candidates[i].score
                        ELSE scores'[candidates[i].leaf]
        IN  /\ \A i, j \in DOMAIN candidates :
                Before(hits', candidates[i].leaf, candidates[j].leaf)
                    => Score(i) >= Score(j)
            /\ \A i \in DOMAIN candidates :
                \/ candidates[i].leaf \in kept
                \/ Score(i) = 0 /\ scores' # Unscored
                \/ Cardinality({k \in DOMAIN candidates \ {i} :
                        candidates[k].leaf \in kept /\ Score(k) >= Score(i)})
                   = SelectedLeafK]_funnelVars

(* The ranking table of the trace tells the funnel as it was, whatever the *)
(* reranker selects: every leaf that was found once; first the selected in *)
(* their order, then the other fused ones in theirs, then those fusion     *)
(* left out, each with the best rank every method gave it.                 *)
RankingsTellTheFunnel ==
    stage = "authorize" /\ branches # <<>> =>
        \A selected \in {{}} \cup kSubset(SelectedLeafK, DOMAIN hits) :
        \A order \in SetToSeqs(selected) :
            LET reranked == [n \in DOMAIN order |-> hits[order[n]].leaf]
                table == RankChanges(EventsOf(branches, hits, reranked))
                told == [n \in DOMAIN table |-> table[n].leaf]
                rest == HitsAt(hits, {i \in DOMAIN hits : hits[i].leaf \notin ToSet(reranked)})
            IN  /\ ToSet(told) = FoundBy(branches) /\ IsInjective(told)
                /\ IsPrefix(reranked \o [n \in DOMAIN rest |-> rest[n].leaf], told)
                /\ \A n \in DOMAIN table, method \in Methods :
                    OrElse(table[n][method], Unranked) = MethodRank(branches, method, told[n])

(* The counters of the trace account for every hit: what enters fusion     *)
(* leaves it or is left out for one reason, that is the true one; every    *)
(* root that enters the restoring leaves it or is counted as left out.     *)
(* (Its trace counts leaves in and roots out: only the roots add up.)      *)
FunnelAddsUp ==
    /\ stage = "authorize" /\ branches # <<>> =>
        LET m == FusionMetric(branches, hits, Quota)
        IN  /\ m.input = MapThenSumSet(
                    LAMBDA q : BranchMetric(branches, q).overlap + BranchMetric(branches, q).unique,
                    {branches[i].query : i \in DOMAIN branches})
            /\ m.dropped = m.collapsed + m.quota + m.topK
            /\ m.quota > 0 => \E i \in DOMAIN hits : SameRoot(hits, hits[i]) = Quota
            /\ m.topK > 0 => m.output = FusedTopK
    /\ stage = "restored" =>
        LET m == RestoreMetric(hits, restored)
        IN  /\ m.output + m.dropped = Cardinality({RootOf[hits[i].leaf] : i \in DOMAIN hits})
            /\ m.truncated > 0 => m.used = MaxParentChars

(* The roots share one budget: they never exceed it, only the last is cut, *)
(* and a selected root that is still stored is left out only when the      *)
(* others have used it up.                                                 *)
BudgetShared ==
    LET used == MapThenSumSet(LAMBDA i : restored[i].length, DOMAIN restored)
    IN  /\ used <= MaxParentChars
        /\ \A i \in DOMAIN restored :
            restored[i].truncated => i = Len(restored) /\ used = MaxParentChars
        /\ stage = "restored" => \A root \in
            LoadedRoots(ready, resolved, ToSet(RootsInOrder(hits))) :
                used = MaxParentChars \/ \E i \in DOMAIN restored : restored[i].root = root

(* The trace of a retrieval tells which candidates it had, how many each   *)
(* stage left out and why.                                                 *)
TraceTellsFunnel == RankingsTellTheFunnel /\ FunnelAddsUp /\ BudgetShared

(* What reaches the author was permitted to the caller, is in the scope,   *)
(* and was served when its root was read, whatever the index still held.   *)
OnlyAuthorizedContext ==
    [][restored' # restored =>
        \A i \in DOMAIN restored' :
            LET document == DocumentOf[restored'[i].root]
            IN  /\ document \in permission \cap ready
                /\ \A filter \in Filters(scope) : document \in filter]_funnelVars
=============================================================================
