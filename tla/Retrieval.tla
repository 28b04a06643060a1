------------------------------ MODULE Retrieval ------------------------------
(***************************************************************************)
(* The funnel of one retrieval, as operators: reciprocal rank fusion       *)
(* (services/fusion.py), reranking (services/reranking.py) and the         *)
(* restoring of roots within the context budget (services/scope_root.py);  *)
(* and what its spans tell of it: the candidates each stage records as     *)
(* events, the counters it records as attributes, and the tables           *)
(* services/query_trace.py projects from them.                             *)
(*                                                                         *)
(* Scores are exact integers: reciprocal ranks over a common unit, and     *)
(* reranker scores of which 0 stands for every score below the relevance   *)
(* threshold.  A rank is 1 or more, None where there is none; spans are    *)
(* read in the order they began.                                           *)
(***************************************************************************)
EXTENDS ContextStore

CONSTANTS
    TextLength,         \* the length of each leaf's retrieval text
    RrfK,               \* the constant of reciprocal rank fusion
    SearchTopK,         \* hits of one branch
    FusedTopK,          \* hits fusion keeps
    LeavesPerRoot,      \* of these, how many of a root for one route
    RerankCandidates,   \* of those, what the reranker scores
    SelectedLeafK,      \* of those, what it selects
    MaxParentChars      \* the budget of the restored context

ASSUME LimitsAssumption ==
    {RrfK, SearchTopK, FusedTopK, LeavesPerRoot, RerankCandidates, SelectedLeafK,
     MaxParentChars} \subseteq Nat \ {0}
ASSUME LeavesAssumption ==
    IsFiniteSet(Leaves) /\ Leaves \subseteq Int /\ TextLength \in [Leaves -> Nat]

Unscored == <<>>   \* no scores: of no candidate, or not believed

(* The elements of S in their order: n - 1 others come before the one at   *)
(* place n.                                                                *)
InOrder(S, Comes(_, _)) ==
    [n \in 1 .. Cardinality(S) |->
        CHOOSE x \in S : Cardinality({y \in S : Comes(y, x)}) = n - 1]

(* The hits at some of their places. *)
HitsAt(hits, places) ==
    LET order == InOrder(places, LAMBDA i, j : i < j)
    IN  [n \in DOMAIN order |-> hits[order[n]]]

-----------------------------------------------------------------------------
(* Search and fusion. *)

(* What the vector store may return in a branch: any ranking of leaves in  *)
(* its pre-filter.  It may still hold leaves of withdrawn documents.       *)
Prefiltered(scope, permission) ==
    LET asked == IF scope.ids = NoFilter /\ permission # Documents
                 THEN permission ELSE scope.ids
    IN  {leaf \in Leaves : asked # NoFilter => LeafDocument(leaf) \in asked}

Rankings(leaves) ==
    {ranking \in UNION {[1 .. n -> leaves] : n \in 0 .. SearchTopK} :
        IsInjective(ranking)}

Position(ranking, leaf) == CHOOSE i \in DOMAIN ranking : ranking[i] = leaf

FoundBy(branches) == UNION {ToSet(branches[i].hits) : i \in DOMAIN branches}

BranchesOf(branches, leaf) ==
    {i \in DOMAIN branches : leaf \in ToSet(branches[i].hits)}

Unit == ProductSet({RrfK + rank : rank \in 1 .. SearchTopK})

(* What the branches that found a leaf give it: its reciprocal ranks. *)
Shares(branches, leaf) ==
    [i \in BranchesOf(branches, leaf) |->
        Unit \div (RrfK + Position(branches[i].hits, leaf))]

(* Seeded bug: a leaf is scored by its worst rank only. *)
FusedHitLast(branches, leaf) ==
    [leaf    |-> leaf,
     score   |-> Min(ToSet(Shares(branches, leaf))),
     queries |-> {branches[i].query : i \in BranchesOf(branches, leaf)}]

FusedHit(branches, leaf) ==
    [leaf    |-> leaf,
     score   |-> MapThenSumSet(LAMBDA i : Shares(branches, leaf)[i],
                               BranchesOf(branches, leaf)),
     queries |-> {branches[i].query : i \in BranchesOf(branches, leaf)}]

Better(a, b) == a.score > b.score \/ (a.score = b.score /\ a.leaf < b.leaf)

Ordered(branches) ==
    InOrder({FusedHit(branches, leaf) : leaf \in FoundBy(branches)}, Better)

SameRoot(hits, hit) ==
    Cardinality({i \in DOMAIN hits : RootOf[hits[i].leaf] = RootOf[hit.leaf]})

(* The fused hits in order, at most quota of a root and FusedTopK in all.  *)
Fuse(branches, quota) ==
    FoldLeft(
        LAMBDA kept, hit :
            IF SameRoot(kept, hit) >= quota \/ Len(kept) >= FusedTopK
            THEN kept ELSE Append(kept, hit),
        <<>>, Ordered(branches))

(* A decomposed query needs a leaf of a root for each of its routes. *)
RootQuota(queries) == Max({LeavesPerRoot, Cardinality(queries)})

-----------------------------------------------------------------------------
(* Reranking. *)

Prepare(hits, loaded) == HitsAt(hits, {i \in DOMAIN hits : hits[i].leaf \in loaded})

Candidates(items) == SubSeq(items, 1, Min({RerankCandidates, Len(items)}))

Rescored(hit, score) == [hit EXCEPT !.score = score]

(* Seeded bug: selection cuts the fused order, then looks at the scores. *)
SelectFirst(items, scores) ==
    LET candidates == Candidates(items)
        kept == SubSeq(candidates, 1, Min({SelectedLeafK, Len(candidates)}))
    IN  [n \in DOMAIN kept |->
            Rescored(kept[n], IF scores = Unscored THEN kept[n].score
                              ELSE scores[kept[n].leaf])]

(* The best candidates by the reranker's scores, equal ones in the order   *)
(* they came.  A reranker that fails, or whose answer is not one score for *)
(* each candidate, leaves the fused scores.                                *)
Select(items, scores) ==
    LET candidates == Candidates(items)
        Score(i) == IF scores = Unscored THEN candidates[i].score
                    ELSE scores[candidates[i].leaf]
        order == InOrder(DOMAIN candidates,
                     LAMBDA i, j : Score(i) > Score(j)
                                   \/ (Score(i) = Score(j) /\ i < j))
    IN  [n \in 1 .. Min({SelectedLeafK, Len(candidates)}) |->
            Rescored(candidates[order[n]], Score(order[n]))]

Relevant(hits, scores) ==
    IF scores = Unscored THEN hits
    ELSE HitsAt(hits, {i \in DOMAIN hits : hits[i].score > 0})

-----------------------------------------------------------------------------
(* Restoring. *)

RootsInOrder(hits) ==
    FoldLeft(LAMBDA seen, hit : IF RootOf[hit.leaf] \in ToSet(seen) THEN seen
                                ELSE Append(seen, RootOf[hit.leaf]),
             <<>>, hits)

LeavesOf(hits, root) ==
    LET mine == HitsAt(hits, {i \in DOMAIN hits : RootOf[hits[i].leaf] = root})
    IN  [i \in DOMAIN mine |-> mine[i].leaf]

(* The whole root where none of its leaves could be loaded. *)
ContextLength(hits, root, loaded) ==
    LET texts == ToSet(LeavesOf(hits, root)) \cap loaded
        whole == {leaf \in Leaves : RootOf[leaf] = root}
    IN  MapThenSumSet(LAMBDA leaf : TextLength[leaf],
                      IF texts = {} THEN whole ELSE texts)

RestoreStep(hits, loaded, stored, restored, root) ==
    LET remaining == MaxParentChars - restored.used
        length == ContextLength(hits, root, loaded)
    IN  IF root \notin stored \/ remaining <= 0 THEN restored
        ELSE [used  |-> restored.used + Min({length, remaining}),
              roots |-> Append(restored.roots,
                            [root      |-> root,
                             leaves    |-> LeavesOf(hits, root),
                             score     |-> Max({hits[i].score : i \in
                                 {k \in DOMAIN hits : RootOf[hits[k].leaf] = root}}),
                             length    |-> Min({length, remaining}),
                             truncated |-> length > remaining])]

Restore(hits, loaded, stored) ==
    FoldLeft(LAMBDA restored, root : RestoreStep(hits, loaded, stored, restored, root),
             [used |-> 0, roots |-> <<>>], RootsInOrder(hits)).roots

-----------------------------------------------------------------------------
(* What the spans tell. *)

None == 0
Unranked == 10000     \* sorts after every rank

(* No search may ask for more than 50, and the stages after it only narrow *)
(* (ports/vector_store.py, RetrievalSettings).                             *)
ASSUME RanksAssumption ==
    {SearchTopK, FusedTopK, SelectedLeafK} \subseteq 1 .. Unranked - 1

-----------------------------------------------------------------------------
(* Candidates. *)

RetrievalEvents(branch) ==
    [rank \in DOMAIN branch.hits |->
        [stage |-> branch.method, leaf |-> branch.hits[rank], rank |-> rank]]

(* The best rank of a leaf in the lists of one method. *)
MethodRank(branches, method, leaf) ==
    Min({Position(branches[i].hits, leaf) :
            i \in {k \in BranchesOf(branches, leaf) : branches[k].method = method}}
        \cup {Unranked})

FusionEvents(branches, hits) ==
    [rank \in DOMAIN hits |->
        [stage |-> "fusion", leaf |-> hits[rank].leaf, rank |-> rank,
         dense |-> MethodRank(branches, "dense", hits[rank].leaf),
         sparse |-> MethodRank(branches, "sparse", hits[rank].leaf)]]

RerankEvents(leaves) ==
    [rank \in DOMAIN leaves |->
        [stage |-> "rerank", leaf |-> leaves[rank], rank |-> rank]]

OrElse(rank, other) == IF rank \in {None, Unranked} THEN other ELSE rank

BestRank(current, rank) == IF current = None \/ rank < current THEN rank ELSE current

Entry(leaf) ==
    [leaf |-> leaf, dense |-> None, sparse |-> None, fusion |-> None, rerank |-> None]

(* What one event adds to what is known of its leaf. *)
Noted(row, event) ==
    CASE event.stage \in {"dense", "sparse"} ->
            [row EXCEPT ![event.stage] = BestRank(row[event.stage], event.rank)]
      [] event.stage = "fusion" ->
            [row EXCEPT !.fusion = event.rank,
                        !.dense = OrElse(event.dense, row.dense),
                        !.sparse = OrElse(event.sparse, row.sparse)]
      [] event.stage = "rerank" -> [row EXCEPT !.rerank = event.rank]

(* A row for each leaf, in the order the leaves were first seen. *)
Candidate(rows, event) ==
    LET known == {i \in DOMAIN rows : rows[i].leaf = event.leaf}
    IN  IF known = {} THEN Append(rows, Noted(Entry(event.leaf), event))
        ELSE [i \in DOMAIN rows |->
                 IF i \in known THEN Noted(rows[i], event) ELSE rows[i]]

Earlier(rows, i, j) ==
    LET rerank(k) == OrElse(rows[k].rerank, Unranked)
        fusion(k) == OrElse(rows[k].fusion, Unranked)
    IN  \/ rerank(i) < rerank(j)
        \/ /\ rerank(i) = rerank(j)
           /\ fusion(i) < fusion(j) \/ (fusion(i) = fusion(j) /\ i < j)

(* The ranking table of a trace. *)
RankChanges(events) ==
    LET rows == FoldLeft(Candidate, <<>>, events)
        order == InOrder(DOMAIN rows, LAMBDA i, j : Earlier(rows, i, j))
    IN  [n \in DOMAIN order |-> rows[order[n]]]

EventsOf(branches, hits, reranked) ==
    FlattenSeq([i \in DOMAIN branches |-> RetrievalEvents(branches[i])])
        \o FusionEvents(branches, hits) \o RerankEvents(reranked)

-----------------------------------------------------------------------------
(* Counters. *)

InputHits(branches) ==
    MapThenSumSet(LAMBDA i : Len(branches[i].hits), DOMAIN branches)

(* What a route's two searches found, together and alone. *)
BranchMetric(branches, query) ==
    LET leaves(method) ==
            UNION {ToSet(branches[i].hits) : i \in
                {k \in DOMAIN branches : branches[k].query = query
                                         /\ branches[k].method = method}}
    IN  [dense   |-> Cardinality(leaves("dense")),
         sparse  |-> Cardinality(leaves("sparse")),
         overlap |-> Cardinality(leaves("dense") \cap leaves("sparse")),
         unique  |-> Cardinality(leaves("dense") \cup leaves("sparse"))]

(* Seeded bug: a hit its root has no room for is not counted. *)
DroppedTopKFirst(branches, quota) ==
    FoldLeft(
        LAMBDA seen, hit :
            IF Len(seen.kept) >= FusedTopK
            THEN [seen EXCEPT !.topK = @ + 1]
            ELSE IF SameRoot(seen.kept, hit) >= quota
            THEN seen
            ELSE [seen EXCEPT !.kept = Append(@, hit)],
        [kept |-> <<>>, quota |-> 0, topK |-> 0], Ordered(branches))

(* How fusion counts the hits it leaves out. *)
Dropped(branches, quota) ==
    FoldLeft(
        LAMBDA seen, hit :
            IF SameRoot(seen.kept, hit) >= quota
            THEN [seen EXCEPT !.quota = @ + 1]
            ELSE IF Len(seen.kept) >= FusedTopK
            THEN [seen EXCEPT !.topK = @ + 1]
            ELSE [seen EXCEPT !.kept = Append(@, hit)],
        [kept |-> <<>>, quota |-> 0, topK |-> 0], Ordered(branches))

FusionMetric(branches, hits, quota) ==
    [input     |-> InputHits(branches),
     output    |-> Len(hits),
     dropped   |-> InputHits(branches) - Len(hits),
     collapsed |-> InputHits(branches) - Cardinality(FoundBy(branches)),
     quota     |-> Dropped(branches, quota).quota,
     topK      |-> Dropped(branches, quota).topK]

(* Counts leaves in and roots out; what it has dropped are roots. *)
RestoreMetric(hits, context) ==
    [input     |-> Len(hits),
     output    |-> Len(context),
     dropped   |-> Len(RootsInOrder(hits)) - Len(context),
     truncated |-> Cardinality({i \in DOMAIN context : context[i].truncated}),
     used      |-> MapThenSumSet(LAMBDA i : context[i].length, DOMAIN context)]
=============================================================================
