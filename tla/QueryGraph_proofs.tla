--------------------------- MODULE QueryGraph_proofs ---------------------------
(***************************************************************************)
(* One query, for any requests, any drafts the author may write and any    *)
(* limits.  The model may answer anything, so what is returned is right    *)
(* only because of what the checks around it keep: each part of the        *)
(* invariant is what one check hands to a later one.                       *)
(*                                                                         *)
(* Then one retrieval of it, for any branches the vector store may return, *)
(* any scores and any limits: what the folds and the selections of the     *)
(* funnel return, what holds from one of its calls to the next, and that   *)
(* the trace written of it is true.                                        *)
(***************************************************************************)
EXTENDS QueryGraph, RetrievalFunnel, FiniteSetTheorems, SequenceTheorems, WellFoundedInduction, TLAPS

Step == {"start", "retrieve", "assess", "recover", "draft", "redraft", "repair", "done"}
Authoring == {"draft", "redraft", "repair"}

Item == [leaf : Leaves, root : Roots, sure : BOOLEAN, round : Nat]

(* Leaves the caller may see. *)
Seen(leaves) == \A leaf \in leaves : LeafDocument(leaf) \in request.permission

TypeOK ==
    /\ step \in Step
    /\ request \in Requests
    /\ ledger \in Seq(Item)
    /\ round \in Nat
    /\ unreported \in Int

(* A scope that keeps every filter of another. *)
Narrows(narrow, base) ==
    /\ narrow \in Scope
    /\ narrow.ids \subseteq base.ids
    /\ base.ids # NoFilter => narrow.ids # NoFilter
    /\ base.meta # NoFilter => narrow.meta = base.meta

PlanNarrows == Narrows(plan.scope, request.scope)

(* What is remembered, and what is handed to the author, may be seen. *)
ContextSeen ==
    /\ \A root \in DOMAIN held : Seen(held[root])
    /\ \A r \in context : Seen(r.leaves)

(* Until the end there is no result, and what is repaired is a draft. *)
ResultAtEnd ==
    /\ step # "done" => result = NoResult
    /\ step = "repair" => rejected \in Drafts

(* An author is asked only after a judgement that allows it. *)
JudgedToAnswer == judged.covers /\ ~judged.conflict

RoundsLeft ==
    /\ round <= MaxRounds
    /\ step = "recover" => round < MaxRounds

(* The stages reported follow from the step. *)
Stage == {"planning", "retrieving", "reranking", "recovering", "answering"}
Searching == <<"planning", "retrieving">>
Reranked == <<"planning", "retrieving", "reranking">>
Restored == <<"planning", "retrieving", "reranking", "recovering">>
Answering == <<"planning", "retrieving", "reranking", "recovering", "answering">>

EmittedAtStep ==
    /\ step = "start" => emitted = <<>>
    /\ step = "retrieve" => emitted = Searching
    /\ step \in {"assess", "recover"} => emitted = Restored
    /\ step \in Authoring => emitted = Answering
    /\ step = "done" => emitted \in {<<"answering">>, Searching, Reranked, Restored, Answering}

IInv ==
    /\ TypeOK
    /\ PlanNarrows /\ ScopeNeverWidens
    /\ ContextSeen /\ ResultAtEnd /\ QuotesSound
    /\ JudgedToAnswer
    /\ RoundsLeft /\ EmittedAtStep /\ UsageNeverOverstated
-----------------------------------------------------------------------------
(* Places in a strict total order, given as a set of pairs.                *)
Ordering(S, R) ==
    /\ \A x \in S : <<x, x>> \notin R
    /\ \A x, y \in S : x # y => <<x, y>> \in R \/ <<y, x>> \in R
    /\ \A x, y, z \in S : <<x, y>> \in R /\ <<y, z>> \in R => <<x, z>> \in R

Lower(S, R, x) == {y \in S : <<y, x>> \in R}
Firsts(S, R, n) == {x \in S : Cardinality(Lower(S, R, x)) < n}

(* The elements of a finite ordered set take the places from 0, each one.  *)
LEMMA PlacesAreTaken ==
    ASSUME NEW S, IsFiniteSet(S), NEW R, Ordering(S, R)
    PROVE  /\ \A x \in S : Cardinality(Lower(S, R, x)) \in 0 .. Cardinality(S) - 1
           /\ \A x, y \in S : <<x, y>> \in R
                => Cardinality(Lower(S, R, x)) < Cardinality(Lower(S, R, y))
           /\ \A n \in 0 .. Cardinality(S) - 1 :
                  \E x \in S : Cardinality(Lower(S, R, x)) = n
<1>1. Cardinality(S) \in Nat
    BY FS_CardinalityType
<1>2. ASSUME NEW x \in S
      PROVE  /\ IsFiniteSet(Lower(S, R, x))
             /\ Cardinality(Lower(S, R, x)) \in 0 .. Cardinality(S) - 1
  <2>1. Lower(S, R, x) \in SUBSET S /\ Lower(S, R, x) # S
      BY DEF Lower, Ordering
  <2>2. /\ IsFiniteSet(Lower(S, R, x))
        /\ Cardinality(Lower(S, R, x)) <= Cardinality(S)
        /\ Cardinality(S) # Cardinality(Lower(S, R, x))
      BY <2>1, FS_Subset
  <2>3. Cardinality(Lower(S, R, x)) \in Nat
      BY <2>2, FS_CardinalityType
  <2> QED BY <1>1, <2>2, <2>3
<1>3. ASSUME NEW x \in S, NEW y \in S, <<x, y>> \in R
      PROVE  Cardinality(Lower(S, R, x)) < Cardinality(Lower(S, R, y))
  <2>1. Lower(S, R, x) \in SUBSET Lower(S, R, y) /\ x \in Lower(S, R, y) /\ x \notin Lower(S, R, x)
      BY <1>3 DEF Lower, Ordering
  <2>2. /\ Cardinality(Lower(S, R, x)) <= Cardinality(Lower(S, R, y))
        /\ Cardinality(Lower(S, R, x)) # Cardinality(Lower(S, R, y))
      BY <1>2, <2>1, FS_Subset
  <2>3. Cardinality(Lower(S, R, x)) \in Nat /\ Cardinality(Lower(S, R, y)) \in Nat
      BY <1>1, <1>2
  <2> QED BY <2>2, <2>3
<1> DEFINE f == [x \in S |-> Cardinality(Lower(S, R, x))]
           T == 0 .. Cardinality(S) - 1
<1>4. f \in Injection(S, T)
  <2>1. f \in [S -> T]
      BY <1>2
  <2>2. ASSUME NEW x \in S, NEW y \in S, f[x] = f[y]  PROVE x = y
    <3>1. f[x] \in Nat /\ f[y] \in Nat
        BY <1>1, <1>2
    <3>2. ~(f[x] < f[y]) /\ ~(f[y] < f[x])
        BY <2>2, <3>1
    <3> QED BY <1>3, <3>2 DEF Ordering
  <2> QED BY <2>1, <2>2 DEF Injection, IsInjective
<1>5. IsFiniteSet(T) /\ Cardinality(T) = Cardinality(S)
  <2>1. 0 \in Int /\ Cardinality(S) - 1 \in Int
      BY <1>1
  <2> QED BY <1>1, <2>1, FS_Interval
<1>6. f \in Surjection(S, T)
    BY <1>4, <1>5, FS_Injection
<1>7. \A n \in T : \E x \in S : f[x] = n
    BY <1>6 DEF Surjection
<1> QED BY <1>2, <1>3, <1>7

(* The elements at the first n places are n, if there are so many.         *)
LEMMA FirstPlaces ==
    ASSUME NEW S, IsFiniteSet(S), NEW R, Ordering(S, R), NEW n \in Nat
    PROVE  /\ IsFiniteSet(Firsts(S, R, n))
           /\ Cardinality(Firsts(S, R, n)) = IF n <= Cardinality(S) THEN n ELSE Cardinality(S)
<1> DEFINE A == Firsts(S, R, n)
           rank(x) == Cardinality(Lower(S, R, x))
<1>1. Cardinality(S) \in Nat
    BY FS_CardinalityType
<1>2. IsFiniteSet(A)
    BY FS_Subset DEF Firsts
<1>3. CASE Cardinality(S) < n
  <2>1. A = S
      BY <1>1, <1>3, PlacesAreTaken DEF Firsts
  <2>2. ~(n <= Cardinality(S))
      BY <1>1, <1>3
  <2> HIDE DEF A
  <2> QED BY <1>2, <2>1, <2>2 DEF A
<1>4. CASE n <= Cardinality(S)
  <2> DEFINE g == [x \in A |-> rank(x)]
             T == 0 .. n - 1
  <2>1. \A x \in A : rank(x) \in T
      BY <1>1, PlacesAreTaken DEF Firsts
  <2>2. \A x, y \in A : rank(x) = rank(y) => x = y
    <3>1. \A x, y \in S : <<x, y>> \in R => rank(x) < rank(y)
        BY PlacesAreTaken
    <3>2. \A x \in S : rank(x) \in Nat
        BY <1>1, PlacesAreTaken
    <3> HIDE DEF rank
    <3> SUFFICES ASSUME NEW x \in A, NEW y \in A, rank(x) = rank(y), x # y
                 PROVE  FALSE
        OBVIOUS
    <3>3. x \in S /\ y \in S /\ (<<x, y>> \in R \/ <<y, x>> \in R)
        BY DEF Ordering, Firsts
    <3> QED BY <3>1, <3>2, <3>3
  <2>3. \A k \in T : \E x \in A : rank(x) = k
    <3> SUFFICES ASSUME NEW k \in T  PROVE \E x \in A : rank(x) = k
        OBVIOUS
    <3>1. k \in 0 .. Cardinality(S) - 1 /\ k < n
        BY <1>1, <1>4
    <3> QED BY <3>1, PlacesAreTaken DEF Firsts
  <2> HIDE DEF rank, A
  <2>4. g \in Bijection(A, T)
      BY <2>1, <2>2, <2>3 DEF Bijection, Injection, Surjection, IsInjective
  <2>5. Cardinality(T) = Cardinality(A)
      BY <1>2, <2>4, FS_Bijection DEF ExistsBijection
  <2>6. Cardinality(T) = n
    <3>1. 0 \in Int /\ n - 1 \in Int
        OBVIOUS
    <3> QED BY <3>1, FS_Interval
  <2> QED BY <1>2, <1>4, <2>5, <2>6 DEF A
<1> QED BY <1>1, <1>3, <1>4
-----------------------------------------------------------------------------
(* A plan keeps the filters of the request, and so does a scope repair.    *)
LEMMA RequestHasScope ==
    ASSUME IInv
    PROVE  request.scope \in Scope
BY RequestsAssumption DEF IInv, TypeOK

LEMMA PlansNarrow ==
    ASSUME NEW base \in Scope, NEW p, p \in Plans(base) \/ p = Deterministic(base)
    PROVE  Narrows(p.scope, base)
<1>1. CASE p = Deterministic(base)
    BY <1>1 DEF Deterministic, Narrows
<1>2. CASE p \in Plans(base)
  <2>1. PICK c \in Scope : Acceptable(c, base) /\ p.scope = Merged(c, base)
      BY <1>2 DEF Plans
  <2>2. /\ p.scope = [ids |-> Or(c.ids, base.ids), meta |-> Or(c.meta, base.meta)]
        /\ c.ids \subseteq base.ids
        /\ NoFilter \in {c.meta, base.meta} \/ c.meta = base.meta
      BY <2>1 DEF Merged, Acceptable, AcceptableIds, AcceptableMeta
  <2>3. /\ c.ids \in SUBSET Documents /\ c.meta \in SUBSET Documents
        /\ base.ids \in SUBSET Documents /\ base.meta \in SUBSET Documents
      BY DEF Scope
  <2> QED BY <2>2, <2>3 DEF Narrows, Or, Scope
<1> QED BY <1>1, <1>2

LEMMA ActionNarrows ==
    ASSUME IInv
    PROVE  Narrows(ActionScope, request.scope)
<1> DEFINE fields == Repairable(request.scope, plan.scope)
<1>1. Narrows(plan.scope, request.scope)
    BY DEF IInv, PlanNarrows
<1>2. CASE Route(request.question, fields) # "scope_repair"
    BY <1>1, <1>2 DEF ActionScope
<1>3. CASE Route(request.question, fields) = "scope_repair"
  <2>1. ActionScope = RepairedScope(plan.scope, fields)
      BY <1>3 DEF ActionScope
  <2>2. fields # {}
      BY <1>3 DEF Route
  <2>3. /\ plan.scope \in Scope /\ request.scope \in Scope /\ DOMAIN plan.scope = {"ids", "meta"}
      BY <1>1, RequestHasScope DEF Narrows, Scope
  <2>4. \A field \in fields : field \in {"ids", "meta"} /\ request.scope[field] = NoFilter
      BY <2>3 DEF Repairable
  <2> HIDE DEF fields
  <2>5. CASE "ids" \in fields
    <3>1. /\ ActionScope = [plan.scope EXCEPT !["ids"] = NoFilter]
          /\ request.scope.ids = NoFilter
        BY <2>1, <2>4, <2>5 DEF RepairedScope
    <3> QED BY <1>1, <2>3, <3>1 DEF Narrows, Scope, NoFilter
  <2>6. CASE "ids" \notin fields
    <3>1. /\ ActionScope = [plan.scope EXCEPT !["meta"] = NoFilter]
          /\ request.scope.meta = NoFilter
        BY <2>1, <2>2, <2>4, <2>6 DEF RepairedScope
    <3> QED BY <1>1, <2>3, <3>1 DEF Narrows, Scope, NoFilter
  <2> QED BY <2>5, <2>6
<1> QED BY <1>2, <1>3

(* A search in such a scope stays within what the caller may see and asked.*)
LEMMA NarrowSearch ==
    ASSUME NEW base \in Scope, NEW narrow, Narrows(narrow, base), NEW served, NEW allowed,
           Resolve(served, allowed, narrow) # Conflict
    PROVE  /\ Resolve(served, allowed, narrow) \subseteq allowed
           /\ \A filter \in Filters(base) : Resolve(served, allowed, narrow) \subseteq filter
<1> DEFINE found == Resolve(served, allowed, narrow)
<1>1. /\ found \subseteq allowed
      /\ \A filter \in Filters(narrow) : found \subseteq filter
    BY DEF Resolve
<1> HIDE DEF found
<1>2. ASSUME NEW filter \in Filters(base)  PROVE found \subseteq filter
  <2>1. CASE filter = base.ids
    <3>1. narrow.ids \in Filters(narrow) /\ narrow.ids \subseteq filter
        BY <2>1 DEF Narrows, Filters
    <3> QED BY <1>1, <3>1
  <2>2. CASE filter = base.meta
    <3>1. filter \in Filters(narrow)
        BY <2>2 DEF Narrows, Filters
    <3> QED BY <1>1, <3>1
  <2> QED BY <2>1, <2>2 DEF Filters
<1> QED BY <1>1, <1>2 DEF found

(* What such a search finds are leaves the caller may see. *)
LEMMA FindableIsSeen ==
    ASSUME IInv, NEW narrow, Narrows(narrow, request.scope),
           Resolve(request.ready, request.permission, narrow) # Conflict
    PROVE  Findable(narrow) \subseteq Leaves /\ Seen(Findable(narrow))
<1>1. Resolve(request.ready, request.permission, narrow) \subseteq request.permission
    BY NarrowSearch, RequestHasScope
<1> QED BY <1>1 DEF Findable, LoadedLeaves, Seen

-----------------------------------------------------------------------------
(* Evidence is a sequence of items of the leaves it was found in. *)
LEMMA EvidenceIsItems ==
    ASSUME NEW leaves \in SUBSET Leaves, NEW list \in Found(leaves), NEW n \in Nat
    PROVE  /\ Evidence(list, n) \in Seq(Item)
           /\ \A i \in DOMAIN Evidence(list, n) : Evidence(list, n)[i].leaf \in leaves
<1>1. PICK m \in 0 .. HitsK : list \in [1 .. m -> [leaf : leaves, sure : BOOLEAN]]
    BY DEF Found
<1>2. DOMAIN list = 1 .. m /\ m \in Nat
    BY <1>1, GraphAssumption
<1>3. \A i \in 1 .. m : list[i] \in [leaf : leaves, sure : BOOLEAN]
    BY <1>1
<1>4. Evidence(list, n) = [i \in 1 .. m |->
          [leaf |-> list[i].leaf, root |-> RootOf[list[i].leaf], sure |-> list[i].sure,
           round |-> n]]
    BY <1>2 DEF Evidence
<1>5. \A i \in 1 .. m : [leaf |-> list[i].leaf, root |-> RootOf[list[i].leaf],
                         sure |-> list[i].sure, round |-> n] \in Item
    BY <1>3, RootsAssumption DEF Item
<1>6. Evidence(list, n) \in [1 .. m -> Item]
    BY <1>4, <1>5
<1> QED BY <1>2, <1>3, <1>4, <1>6

(* The places of a set of numbers are those of its elements. *)
LEMMA NthIsPlace ==
    ASSUME NEW places \in SUBSET Nat, IsFiniteSet(places), NEW n \in 1 .. Cardinality(places)
    PROVE  Nth(places, n) \in places
<1> DEFINE R == {p \in places \X places : p[1] < p[2]}
<1>1. Ordering(places, R)
    BY DEF Ordering
<1>2. Cardinality(places) \in Nat
    BY FS_CardinalityType
<1>3. n - 1 \in 0 .. Cardinality(places) - 1
    BY <1>2
<1>4. PICK i \in places : Cardinality(Lower(places, R, i)) = n - 1
    BY <1>1, <1>3, PlacesAreTaken
<1>5. Lower(places, R, i) = {j \in places : j < i}
    BY DEF Lower
<1>6. \E k \in places : Cardinality({j \in places : j < k}) = n - 1
    BY <1>4, <1>5
<1> QED BY <1>6 DEF Nth

LEMMA AddedIsItems ==
    ASSUME NEW old \in Seq(Item), NEW items \in Seq(Item)
    PROVE  Added(old, items) \in Seq(Item)
<1> DEFINE fresh == Fresh(old, items)
           more == [n \in 1 .. Cardinality(fresh) |-> items[Nth(fresh, n)]]
<1>1. fresh \in SUBSET (1 .. Len(items)) /\ Len(items) \in Nat
    BY DEF Fresh
<1>2. IsFiniteSet(fresh) /\ Cardinality(fresh) \in Nat
  <2>1. IsFiniteSet(1 .. Len(items))
      BY <1>1, FS_Interval
  <2> QED BY <1>1, <2>1, FS_Subset, FS_CardinalityType
<1>3. fresh \in SUBSET Nat
    BY <1>1
<1> HIDE DEF fresh
<1>4. \A n \in 1 .. Cardinality(fresh) : items[Nth(fresh, n)] \in Item
  <2> SUFFICES ASSUME NEW n \in 1 .. Cardinality(fresh)  PROVE items[Nth(fresh, n)] \in Item
      OBVIOUS
  <2>1. Nth(fresh, n) \in fresh
      BY <1>2, <1>3, NthIsPlace
  <2>2. \A k \in 1 .. Len(items) : items[k] \in Item
      OBVIOUS
  <2> QED BY <1>1, <2>1, <2>2
<1>5. more \in Seq(Item)
    BY <1>2, <1>4
<1>6. Added(old, items) = old \o more
    BY DEF Added, fresh
<1> HIDE DEF more
<1> QED BY <1>5, <1>6

(* What is remembered of leaves that may be seen may be seen. *)
LEMMA RememberedIsSeen ==
    ASSUME IInv, NEW leaves, Seen(leaves), NEW items,
           \A i \in DOMAIN items : items[i].leaf \in leaves
    PROVE  \A root \in DOMAIN Remembered(items) : Seen(Remembered(items)[root])
BY DEF Remembered, RootsIn, Seen, IInv, ContextSeen

LEMMA RootsAreSeen ==
    ASSUME NEW known, \A root \in DOMAIN known : Seen(known[root]), NEW items, NEW limit
    PROVE  \A r \in RootsFor(items, known, limit) : Seen(r.leaves)
<1> SUFFICES ASSUME NEW r \in RootsFor(items, known, limit)  PROVE Seen(r.leaves)
    OBVIOUS
<1>1. PICK root \in DOMAIN known : r = [root |-> root, leaves |-> known[root]]
    BY DEF RootsFor
<1> QED BY <1>1
-----------------------------------------------------------------------------
LEMMA LeastExists ==
    ASSUME NEW T \in SUBSET Nat, T # {}
    PROVE  \E n \in T : \A m \in T : n <= m
<1>1. \E n \in T : \A m \in T : <<m, n>> \notin OpToRel(<, Nat)
    BY NatLessThanWellFounded, WFMin
<1>2. \A m, n \in T : <<m, n>> \notin OpToRel(<, Nat) => n <= m
    BY DEF OpToRel
<1> QED BY <1>1, <1>2

(* As many numbers as citations: no number names two of them. *)
LEMMA NumbersAreDistinct ==
    ASSUME NEW citations, citations \in Seq(ToSet(citations)),
           Len(citations) = Cardinality(CitationIds(citations))
    PROVE  \A c, d \in ToSet(citations) : c.id = d.id => c = d
<1> DEFINE S == 1 .. Len(citations)
           f == [i \in S |-> citations[i].id]
<1>1. Len(citations) \in Nat /\ DOMAIN citations = S
    OBVIOUS
<1>2. IsFiniteSet(S) /\ Cardinality(S) = Len(citations)
    BY <1>1, FS_Interval
<1>3. f \in Surjection(S, CitationIds(citations))
    BY <1>1 DEF CitationIds, Surjection
<1>4. f \in Injection(S, CitationIds(citations))
    BY <1>2, <1>3, FS_Surjection
<1>5. \A i, j \in S : f[i] = f[j] => i = j
    BY <1>4 DEF Injection, IsInjective
<1> QED BY <1>1, <1>5 DEF ToSet

(* A draft that passes verification may be returned as it is. *)
LEMMA VerifiedIsSound ==
    ASSUME NEW draft \in Drafts, NEW roots, Verify(roots, draft) = {}
    PROVE  Sound(roots, Answered("answered", draft))
<1>1. \A c \in ToSet(draft.citations) : Grounded(roots, c)
    BY DEF Verify
<1>2. Len(draft.citations) = Cardinality(CitationIds(draft.citations))
    BY DEF Verify
<1>3. \A c, d \in ToSet(draft.citations) : c.id = d.id => c = d
    BY <1>2, NumbersAreDistinct, DraftsAssumption
<1>4. \A p \in ToSet(draft.paragraphs) : ~Uncited(p) /\ p.cites \subseteq GroundedIds(roots, draft)
    BY DEF Verify
<1>5. GroundedIds(roots, draft) \subseteq {c.id : c \in ToSet(draft.citations)}
    BY DEF GroundedIds
<1> QED BY <1>1, <1>3, <1>4, <1>5 DEF Sound, Answered

(* The first grounded citation of a number. *)
LEMMA FirstIsGrounded ==
    ASSUME NEW citations, citations \in Seq(ToSet(citations)), NEW grounded, NEW id,
           \E c \in grounded : c.id = id /\ c \in ToSet(citations)
    PROVE  /\ FirstWithId(citations, id, grounded) \in grounded
           /\ FirstWithId(citations, id, grounded).id = id
<1> DEFINE T == {i \in DOMAIN citations : citations[i].id = id /\ citations[i] \in grounded}
<1>1. DOMAIN citations = 1 .. Len(citations) /\ Len(citations) \in Nat
    OBVIOUS
<1>2. T \in SUBSET Nat /\ T # {}
    BY <1>1 DEF ToSet
<1>3. PICK n \in T : \A m \in T : n <= m
    BY <1>2, LeastExists
<1>4. \E i \in DOMAIN citations :
          /\ citations[i].id = id /\ citations[i] \in grounded
          /\ \A k \in 1 .. i - 1 : citations[k].id # id \/ citations[k] \notin grounded
  <2>1. \A k \in 1 .. n - 1 : k \in DOMAIN citations /\ k \notin T
      BY <1>1, <1>3
  <2> QED BY <1>3, <2>1
<1> QED BY <1>4 DEF FirstWithId

(* And what is kept of a draft that does not pass stands by itself. *)
LEMMA SafePartIsSound ==
    ASSUME NEW draft \in Drafts, NEW roots, NEW issues
    PROVE  /\ Sound(roots, Incomplete(roots, draft, issues))
           /\ Incomplete(roots, draft, issues).status = "partial"
                => Incomplete(roots, draft, issues).citations # {}
<1> DEFINE grounded == {c \in ToSet(draft.citations) : Grounded(roots, c)}
           valid == GroundedIds(roots, draft)
           kept == {p \in ToSet(draft.paragraphs) : p.cites \subseteq valid /\ ~Uncited(p)}
           ids == UNION {p.cites : p \in kept}
           first(id) == FirstWithId(draft.citations, id, grounded)
           answer == Incomplete(roots, draft, issues)
<1>1. /\ answer.paragraphs = kept
      /\ answer.citations = {first(id) : id \in ids}
      /\ answer.status = "partial" => answer.citations # {}
    BY DEF Incomplete, SafePart
<1>2. ASSUME NEW id \in ids  PROVE first(id) \in grounded /\ first(id).id = id
  <2>1. id \in valid
      OBVIOUS
  <2>2. \E c \in grounded : c.id = id /\ c \in ToSet(draft.citations)
      BY <2>1 DEF GroundedIds
  <2> QED BY <2>2, FirstIsGrounded, DraftsAssumption
<1> HIDE DEF first, answer
<1>3. \A c \in answer.citations : Grounded(roots, c)
    BY <1>1, <1>2
<1>4. \A c, d \in answer.citations : c.id = d.id => c = d
    BY <1>1, <1>2
<1>5. ids = {c.id : c \in answer.citations}
    BY <1>1, <1>2
<1>6. \A p \in answer.paragraphs :
          ~Uncited(p) /\ p.cites \subseteq {c.id : c \in answer.citations}
  <2> SUFFICES ASSUME NEW p \in kept
               PROVE  ~Uncited(p) /\ p.cites \subseteq ids
      BY <1>1, <1>5
  <2> QED OBVIOUS
<1>7. Sound(roots, answer)
    BY <1>3, <1>4, <1>6 DEF Sound
<1> QED BY <1>1, <1>7 DEF answer

LEMMA NothingIsSound ==
    ASSUME NEW roots, NEW status
    PROVE  Sound(roots, Nothing(status)) /\ Nothing(status).citations = {}
BY DEF Sound, Nothing

(* A sound answer quotes what was handed over, and that may be seen. *)
LEMMA SoundIsSeen ==
    ASSUME NEW roots, \A r \in roots : Seen(r.leaves), NEW answer, Sound(roots, answer)
    PROVE  \A citation \in answer.citations : \A leaf \in citation.leaves :
               LeafDocument(leaf) \in request.permission
BY DEF Sound, Grounded, OfRoot, Seen
-----------------------------------------------------------------------------
(* The stages of each report. *)
LEMMA JoinedIs ==
    ASSUME NEW S, NEW s \in Seq(S), NEW t \in Seq(S), NEW u \in Seq(S),
           Len(u) = Len(s) + Len(t), \A i \in 1 .. Len(s) : u[i] = s[i],
           \A i \in 1 .. Len(t) : u[Len(s) + i] = t[i]
    PROVE  s \o t = u
<1>1. /\ s \o t \in Seq(S) /\ Len(s \o t) = Len(u) /\ Len(s) \in Nat /\ Len(t) \in Nat
      /\ \A i \in 1 .. Len(s) + Len(t) :
            (s \o t)[i] = IF i <= Len(s) THEN s[i] ELSE t[i - Len(s)]
    BY ConcatProperties
<1>2. \A i \in 1 .. Len(s \o t) : (s \o t)[i] = u[i]
  <2> SUFFICES ASSUME NEW i \in 1 .. Len(s \o t)  PROVE (s \o t)[i] = u[i]
      OBVIOUS
  <2>1. i <= Len(s) => i \in 1 .. Len(s)
      BY <1>1
  <2>2. ~(i <= Len(s)) => i - Len(s) \in 1 .. Len(t) /\ Len(s) + (i - Len(s)) = i
      BY <1>1
  <2> QED BY <1>1, <2>1, <2>2
<1> QED BY <1>1, <1>2, SeqEqual

LEMMA StagesAreSeqs ==
    /\ Searching \in Seq(Stage) /\ Reranked \in Seq(Stage)
    /\ Restored \in Seq(Stage) /\ Answering \in Seq(Stage)
<1>1. Searching \in Seq(Stage)
    BY DEF Stage, Searching
<1>2. Reranked \in Seq(Stage)
    BY DEF Stage, Reranked
<1>3. Restored \in Seq(Stage)
    BY DEF Stage, Restored
<1>4. Answering \in Seq(Stage)
    BY DEF Stage, Answering
<1> QED BY <1>1, <1>2, <1>3, <1>4

LEMMA Reports ==
    /\ <<>> \o <<"answering">> = <<"answering">>
    /\ <<>> \o <<"planning", "retrieving">> = Searching
    /\ Searching \o <<"reranking", "recovering">> = Restored
    /\ Searching \o Append(<<"reranking", "recovering">>, "answering") = Answering
    /\ Restored \o <<>> = Restored
    /\ Restored \o <<"answering">> = Answering
    /\ \A n \in 0 .. 2 : Searching \o SubSeq(<<"reranking", "recovering">>, 1, n)
                            \in {Searching, Reranked, Restored}
<1> DEFINE first == <<"reranking">>
           both == <<"reranking", "recovering">>
           last == <<"answering">>
           three == <<"reranking", "recovering", "answering">>
<1>1. /\ <<>> \o <<"answering">> = <<"answering">>
      /\ <<>> \o <<"planning", "retrieving">> = Searching
    BY DEF Searching
<1>2. /\ first \in Seq(Stage) /\ both \in Seq(Stage)
      /\ last \in Seq(Stage) /\ three \in Seq(Stage)
  <2>1. first \in Seq(Stage)
      BY DEF Stage
  <2>2. both \in Seq(Stage)
      BY DEF Stage
  <2>3. last \in Seq(Stage)
      BY DEF Stage
  <2>4. three \in Seq(Stage)
      BY DEF Stage
  <2> QED BY <2>1, <2>2, <2>3, <2>4
<1>3. /\ Len(Restored) = Len(Searching) + Len(both)
      /\ \A i \in 1 .. Len(Searching) : Restored[i] = Searching[i]
      /\ \A i \in 1 .. Len(both) : Restored[Len(Searching) + i] = both[i]
    BY DEF Searching, Restored
<1>4. /\ Len(three) = Len(both) + Len(last)
      /\ \A i \in 1 .. Len(both) : three[i] = both[i]
      /\ \A i \in 1 .. Len(last) : three[Len(both) + i] = last[i]
    OBVIOUS
<1>5. /\ Len(Answering) = Len(Searching) + Len(three)
      /\ \A i \in 1 .. Len(Searching) : Answering[i] = Searching[i]
      /\ \A i \in 1 .. Len(three) : Answering[Len(Searching) + i] = three[i]
    BY DEF Searching, Answering
<1>6. /\ Len(Answering) = Len(Restored) + Len(last)
      /\ \A i \in 1 .. Len(Restored) : Answering[i] = Restored[i]
      /\ \A i \in 1 .. Len(last) : Answering[Len(Restored) + i] = last[i]
    BY DEF Restored, Answering
<1>7. /\ Len(Reranked) = Len(Searching) + Len(first)
      /\ \A i \in 1 .. Len(Searching) : Reranked[i] = Searching[i]
      /\ \A i \in 1 .. Len(first) : Reranked[Len(Searching) + i] = first[i]
    BY DEF Searching, Reranked
<1>8. Len(both) = 2 /\ Len(first) = 1 /\ both[1] = first[1]
    OBVIOUS
<1>9. both[1] \in Stage
    BY DEF Stage
<1>10. "answering" \in Stage /\ last = <<"answering">>
    BY DEF Stage
<1> HIDE DEF first, both, last, three
<1>11. Searching \o both = Restored
    BY <1>2, <1>3, StagesAreSeqs, JoinedIs
<1>12. both \o last = three
    BY <1>2, <1>4, JoinedIs
<1>13. Searching \o three = Answering
    BY <1>2, <1>5, StagesAreSeqs, JoinedIs
<1>14. Restored \o last = Answering
    BY <1>2, <1>6, StagesAreSeqs, JoinedIs
<1>15. Append(both, "answering") = three
    BY <1>2, <1>10, <1>12, AppendIsConcat
<1>16. Searching \o <<>> = Searching /\ Restored \o <<>> = Restored
    BY StagesAreSeqs, ConcatEmptySeq
<1>17. ASSUME NEW n \in 0 .. 2
       PROVE  Searching \o SubSeq(both, 1, n) \in {Searching, Reranked, Restored}
  <2>1. CASE n = 0
    <3>1. SubSeq(both, 1, 0) = <<>>
        BY SubSeqEmpty
    <3> QED BY <1>16, <2>1, <3>1
  <2>2. CASE n = 1
    <3> DEFINE s == SubSeq(both, 1, 1)
    <3>1. \A i \in 1 .. 1 : both[i] \in Stage
        BY <1>9
    <3>2. s \in Seq(Stage) /\ Len(s) = 1 /\ s[1] = both[1]
        BY <3>1, SubSeqProperties
    <3>3. s = first
        BY <1>2, <1>8, <3>2, SeqEqual
    <3>4. Searching \o first = Reranked
        BY <1>2, <1>7, StagesAreSeqs, JoinedIs
    <3> QED BY <2>2, <3>3, <3>4
  <2>3. CASE n = 2
      BY <1>2, <1>8, <1>11, <2>3, SubSeqFull
  <2> QED BY <2>1, <2>2, <2>3
<1> QED BY <1>1, <1>11, <1>13, <1>14, <1>15, <1>16, <1>17 DEF first, both, last

(* No call is reported with more tries than it took. *)
LEMMA NeverOverCounted ==
    ASSUME IInv, Counted \/ CountedAs(0) \/ CountedAs(1)
    PROVE  unreported' \in Int /\ UsageNeverOverstated'
BY GraphAssumption DEF IInv, TypeOK, UsageNeverOverstated, Counted, CountedAs

LEMMA EmptyQuotes ==
    ASSUME NEW status, status # "partial", result' = Nothing(status)
    PROVE  QuotesSound'
BY DEF QuotesSound, Sound, Nothing

LEMMA SoundQuotes ==
    ASSUME IInv, UNCHANGED <<request, context>>, Sound(context, result'),
           result'.status = "partial" => result'.citations # {}
    PROVE  QuotesSound'
<1>1. \A citation \in result'.citations : \A leaf \in citation.leaves :
          LeafDocument(leaf) \in request.permission
    BY SoundIsSeen DEF IInv, ContextSeen
<1> QED BY <1>1 DEF QuotesSound

(* The author gets only what may be seen. *)
LEMMA AnswerHandsOver ==
    ASSUME IInv, step # "done", UNCHANGED request, emitted' = Answering,
           NEW roots, \A r \in roots : Seen(r.leaves), Answer(roots)
    PROVE  /\ step' \in {"draft", "done"}
           /\ \A r \in context' : Seen(r.leaves)
           /\ ResultAtEnd' /\ QuotesSound' /\ EmittedAtStep'
<1>1. context' = roots
    BY DEF Answer
<1>2. \/ step' = "done" /\ result' = Nothing("no_results")
      \/ step' = "draft" /\ result' = NoResult
    BY DEF Answer, IInv, ResultAtEnd
<1>3. QuotesSound'
    BY <1>2, EmptyQuotes DEF NoResult
<1>4. ResultAtEnd'
    BY <1>2 DEF ResultAtEnd
<1>5. EmittedAtStep'
    BY <1>2 DEF EmittedAtStep, Authoring
<1> QED BY <1>1, <1>2, <1>3, <1>4, <1>5
-----------------------------------------------------------------------------
LEMMA GreetKeeps ==
    ASSUME IInv, Greet
    PROVE  IInv'
<1>1. result' = Nothing("answered")
    BY DEF Greet
<1>2. QuotesSound'
    BY <1>1, EmptyQuotes
<1>3. emitted' = <<"answering">>
    BY Reports DEF Greet, Emit, IInv, EmittedAtStep
<1>4. EmittedAtStep'
    BY <1>3 DEF Greet, EmittedAtStep, Authoring
<1>5. TypeOK' /\ PlanNarrows' /\ ScopeNeverWidens' /\ JudgedToAnswer' /\ UsageNeverOverstated'
    BY DEF Greet, IInv, TypeOK, Step, PlanNarrows, ScopeNeverWidens, JudgedToAnswer,
           UsageNeverOverstated
<1>6. ContextSeen'
    BY DEF Greet, IInv, ContextSeen, Seen
<1>7. ResultAtEnd' /\ RoundsLeft'
    BY DEF Greet, IInv, ResultAtEnd, RoundsLeft
<1> QED BY <1>2, <1>4, <1>5, <1>6, <1>7 DEF IInv

LEMMA PlanKeeps ==
    ASSUME IInv, Plan
    PROVE  IInv'
<1>1. Counted \/ CountedAs(1)
    BY DEF Plan, PlannerAnswers, PlannerFails
<1>2. unreported' \in Int /\ UsageNeverOverstated'
    BY <1>1, NeverOverCounted
<1>3. PlanNarrows'
  <2>1. plan' \in Plans(request.scope) \/ plan' = Deterministic(request.scope)
      BY DEF Plan, PlannerAnswers, PlannerFails
  <2>2. Narrows(plan'.scope, request.scope)
      BY <2>1, RequestHasScope, PlansNarrow
  <2> QED BY <2>2 DEF Plan, PlanNarrows
<1>4. result' = NoResult
    BY DEF Plan, IInv, ResultAtEnd
<1>5. QuotesSound'
    BY <1>4, EmptyQuotes DEF NoResult
<1>6. emitted' = Searching
    BY Reports DEF Plan, Emit, IInv, EmittedAtStep
<1>7. EmittedAtStep'
    BY <1>6 DEF Plan, EmittedAtStep, Authoring
<1>8. TypeOK' /\ ScopeNeverWidens' /\ JudgedToAnswer'
    BY <1>2 DEF Plan, IInv, TypeOK, Step, ScopeNeverWidens, JudgedToAnswer
<1>9. ContextSeen'
    BY DEF Plan, IInv, ContextSeen, Seen
<1>10. ResultAtEnd' /\ RoundsLeft'
    BY <1>4 DEF Plan, IInv, ResultAtEnd, RoundsLeft
<1> QED BY <1>2, <1>3, <1>5, <1>7, <1>8, <1>9, <1>10 DEF IInv

(* What a retrieval in a narrower scope finds, and what is kept of it.     *)
LEMMA Retrieved ==
    ASSUME IInv, NEW narrow, Narrows(narrow, request.scope),
           searched' = Resolve(request.ready, request.permission, narrow), UNCHANGED request
    PROVE  /\ ScopeNeverWidens'
           /\ searched' # Conflict =>
                \A n \in Nat, list \in Found(Findable(narrow)) :
                    /\ Evidence(list, n) \in Seq(Item)
                    /\ \A root \in DOMAIN Remembered(Evidence(list, n)) :
                           Seen(Remembered(Evidence(list, n))[root])
<1>1. ScopeNeverWidens'
  <2>1. searched' # Conflict =>
          /\ searched' \subseteq request.permission
          /\ \A filter \in Filters(request.scope) : searched' \subseteq filter
      BY NarrowSearch, RequestHasScope
  <2> QED BY <2>1 DEF ScopeNeverWidens
<1>2. ASSUME searched' # Conflict, NEW n \in Nat, NEW list \in Found(Findable(narrow))
      PROVE  /\ Evidence(list, n) \in Seq(Item)
             /\ \A root \in DOMAIN Remembered(Evidence(list, n)) :
                    Seen(Remembered(Evidence(list, n))[root])
  <2>1. Findable(narrow) \in SUBSET Leaves /\ Seen(Findable(narrow))
      BY <1>2, FindableIsSeen
  <2>2. /\ Evidence(list, n) \in Seq(Item)
        /\ \A i \in DOMAIN Evidence(list, n) : Evidence(list, n)[i].leaf \in Findable(narrow)
      BY <2>1, EvidenceIsItems
  <2> QED BY <2>1, <2>2, RememberedIsSeen
<1> QED BY <1>1, <1>2

LEMMA RetrieveKeeps ==
    ASSUME IInv, Retrieve
    PROVE  IInv'
<1>1. UNCHANGED <<request, plan, round, judged, rejected, unreported>> /\ step = "retrieve"
    BY DEF Retrieve
<1>2. /\ searched' = Resolve(request.ready, request.permission, plan.scope)
      /\ Narrows(plan.scope, request.scope)
    BY DEF Retrieve, IInv, PlanNarrows
<1>3. ScopeNeverWidens' /\ PlanNarrows' /\ JudgedToAnswer' /\ UsageNeverOverstated'
  <2>1. ScopeNeverWidens'
      BY <1>1, <1>2, Retrieved
  <2> QED BY <1>1, <2>1 DEF IInv, PlanNarrows, JudgedToAnswer, UsageNeverOverstated
<1>4. emitted = Searching /\ ledger \in Seq(Item)
    BY <1>1 DEF IInv, EmittedAtStep, TypeOK
<1>5. CASE Fail /\ \E n \in 0 .. IF searched' = Conflict THEN 1 ELSE 2 :
                      Emit(SubSeq(ReportedBy(TRUE), 1, n))
  <2>1. result' = Nothing("failed") /\ step' = "done" /\ UNCHANGED <<ledger, held, context>>
      BY <1>5 DEF Fail
  <2>2. PICK n \in 0 .. 2 : emitted' = emitted \o SubSeq(<<"reranking", "recovering">>, 1, n)
      BY <1>5 DEF Emit, ReportedBy
  <2>3. emitted' \in {Searching, Reranked, Restored}
      BY <1>4, <2>2, Reports
  <2>4. EmittedAtStep'
      BY <2>1, <2>3 DEF EmittedAtStep, Authoring
  <2>5. QuotesSound'
      BY <2>1, EmptyQuotes
  <2>6. TypeOK' /\ ResultAtEnd' /\ RoundsLeft'
      BY <1>1, <2>1 DEF IInv, TypeOK, Step, ResultAtEnd, RoundsLeft
  <2>7. ContextSeen'
      BY <1>1, <2>1 DEF IInv, ContextSeen, Seen
  <2> QED BY <1>3, <2>4, <2>5, <2>6, <2>7 DEF IInv
<1>6. CASE /\ searched' # Conflict
           /\ \E list \in Found(Findable(plan.scope)) :
                LET items == Evidence(list, 0)
                IN  IF request.mode = "deep"
                    THEN /\ ledger' = Added(<<>>, items) /\ held' = Remembered(items)
                         /\ Emit(ReportedBy(TRUE))
                         /\ step' = "assess" /\ UNCHANGED <<context, result>>
                    ELSE /\ Answer(RootsFor(items, Remembered(items), AnswerRootLimit))
                         /\ Emit(Append(ReportedBy(TRUE), "answering"))
                         /\ UNCHANGED <<ledger, held>>
  <2>1. PICK list \in Found(Findable(plan.scope)) :
            \/ /\ ledger' = Added(<<>>, Evidence(list, 0)) /\ held' = Remembered(Evidence(list, 0))
               /\ Emit(ReportedBy(TRUE))
               /\ step' = "assess" /\ UNCHANGED <<context, result>>
            \/ /\ Answer(RootsFor(Evidence(list, 0), Remembered(Evidence(list, 0)), AnswerRootLimit))
               /\ Emit(Append(ReportedBy(TRUE), "answering"))
               /\ UNCHANGED <<ledger, held>>
      BY <1>6
  <2> DEFINE items == Evidence(list, 0)
             known == Remembered(items)
  <2>2. items \in Seq(Item) /\ \A root \in DOMAIN known : Seen(known[root])
      BY <1>1, <1>2, <1>6, Retrieved
  <2> HIDE DEF items, known
  <2>3. CASE /\ ledger' = Added(<<>>, items) /\ held' = known
             /\ Emit(ReportedBy(TRUE))
             /\ step' = "assess" /\ UNCHANGED <<context, result>>
    <3>1. ledger' \in Seq(Item)
      <4>1. <<>> \in Seq(Item)
          OBVIOUS
      <4> QED BY <2>2, <2>3, <4>1, AddedIsItems
    <3>2. emitted' = Restored
        BY <1>4, <2>3, Reports DEF Emit, ReportedBy
    <3>3. EmittedAtStep'
        BY <2>3, <3>2 DEF EmittedAtStep, Authoring
    <3>4. result' = NoResult
        BY <1>1, <2>3 DEF IInv, ResultAtEnd
    <3>5. QuotesSound'
        BY <3>4, EmptyQuotes DEF NoResult
    <3>6. TypeOK' /\ ResultAtEnd' /\ RoundsLeft'
        BY <1>1, <2>3, <3>1, <3>4 DEF IInv, TypeOK, Step, ResultAtEnd, RoundsLeft
    <3>7. ContextSeen'
        BY <1>1, <2>2, <2>3 DEF IInv, ContextSeen, Seen
    <3> QED BY <1>3, <3>3, <3>5, <3>6, <3>7 DEF IInv
  <2>4. CASE /\ Answer(RootsFor(items, known, AnswerRootLimit))
             /\ Emit(Append(ReportedBy(TRUE), "answering"))
             /\ UNCHANGED <<ledger, held>>
    <3>1. emitted' = Answering
        BY <1>4, <2>4, Reports DEF Emit, ReportedBy
    <3>2. \A r \in RootsFor(items, known, AnswerRootLimit) : Seen(r.leaves)
        BY <2>2, RootsAreSeen
    <3>3. /\ step' \in {"draft", "done"}
          /\ \A r \in context' : Seen(r.leaves)
          /\ ResultAtEnd' /\ QuotesSound' /\ EmittedAtStep'
        BY <1>1, <2>4, <3>1, <3>2, AnswerHandsOver
    <3>4. TypeOK' /\ RoundsLeft'
        BY <1>1, <2>4, <3>3 DEF IInv, TypeOK, Step, RoundsLeft
    <3>5. ContextSeen'
        BY <1>1, <2>4, <3>3 DEF IInv, ContextSeen, Seen
    <3> QED BY <1>3, <3>3, <3>4, <3>5 DEF IInv
  <2> QED BY <2>1, <2>3, <2>4 DEF items, known
<1> QED BY <1>5, <1>6 DEF Retrieve
-----------------------------------------------------------------------------
Judgement == [covers : BOOLEAN, conflict : BOOLEAN, decision : Decision, degraded : BOOLEAN]

(* A judgement the controller may act on. *)
Trusted(judgement) ==
    /\ judgement \in Judgement
    /\ judgement.decision = "answer" => judgement.covers /\ ~judgement.conflict

LEMMA FallbackIsTrusted ==
    ASSUME NEW items
    PROVE  Trusted(Fallback(items)) /\ Trusted(NoEvidence)
BY DEF Trusted, Judgement, Decision, Fallback, NoEvidence

LEMMA BelievedIsTrusted ==
    ASSUME NEW items, NEW answer \in AssessorAnswer
    PROVE  Trusted(Believed(items, Judged(answer)))
<1> DEFINE judgement == Judged(answer)
<1>1. judgement \in Judgement
  <2>1. /\ answer.conflict \in BOOLEAN /\ answer.decision \in Decision
        /\ Covers(answer) \in BOOLEAN
      BY DEF AssessorAnswer, Covers
  <2> QED BY <2>1 DEF Judged, Judgement, Decision
<1> HIDE DEF judgement
<1>2. CASE judgement.decision = "answer" /\ (~judgement.covers \/ judgement.conflict)
    BY <1>2, FallbackIsTrusted DEF Believed, judgement
<1>3. CASE ~(judgement.decision = "answer" /\ (~judgement.covers \/ judgement.conflict))
  <2>1. Believed(items, judgement) = judgement
      BY <1>3 DEF Believed
  <2> QED BY <1>1, <1>3, <2>1 DEF Trusted, judgement
<1> QED BY <1>2, <1>3

(* Settling one neither invents an answer nor recovers without rounds.     *)
LEMMA SettledIsTrusted ==
    ASSUME NEW judgement, Trusted(judgement), round \in Nat
    PROVE  /\ Settled(judgement, round).decision = "answer"
                => Settled(judgement, round).covers /\ ~Settled(judgement, round).conflict
           /\ Settled(judgement, round).decision = "recover" => ~(round >= MaxRounds)
<1>1. CASE /\ judgement.decision = "abstain" /\ round < MaxRounds
           /\ ~judgement.covers /\ ~judgement.conflict
  <2>1. Settled(judgement, round) = [judgement EXCEPT !.decision = "recover"]
      BY <1>1 DEF Settled
  <2>2. Settled(judgement, round).decision = "recover"
      BY <2>1 DEF Trusted, Judgement
  <2> QED BY <1>1, <2>2, SelectionAssumption
<1>2. CASE /\ ~(/\ judgement.decision = "abstain" /\ round < MaxRounds
                /\ ~judgement.covers /\ ~judgement.conflict)
           /\ judgement.decision = "recover" /\ round >= MaxRounds
  <2>1. Settled(judgement, round) = [judgement EXCEPT !.decision = "abstain"]
      BY <1>2 DEF Settled
  <2>2. Settled(judgement, round).decision = "abstain"
      BY <2>1 DEF Trusted, Judgement
  <2> QED BY <2>2
<1>3. CASE /\ ~(/\ judgement.decision = "abstain" /\ round < MaxRounds
                /\ ~judgement.covers /\ ~judgement.conflict)
           /\ ~(judgement.decision = "recover" /\ round >= MaxRounds)
  <2>1. Settled(judgement, round) = judgement
      BY <1>3 DEF Settled
  <2> QED BY <1>3, <2>1 DEF Trusted
<1> QED BY <1>1, <1>2, <1>3

LEMMA JudgeKeeps ==
    ASSUME IInv, step = "assess", NEW judgement, Trusted(judgement), Judge(judgement),
           Counted \/ CountedAs(1), UNCHANGED <<request, plan, round, searched, rejected>>
    PROVE  IInv'
<1> DEFINE settled == Settled(judgement, round)
<1>1. /\ settled.decision = "answer" => settled.covers /\ ~settled.conflict
      /\ settled.decision = "recover" => ~(round >= MaxRounds)
    BY SettledIsTrusted DEF IInv, TypeOK
<1> HIDE DEF settled
<1>2. unreported' \in Int /\ UsageNeverOverstated'
    BY NeverOverCounted
<1>3. ScopeNeverWidens' /\ PlanNarrows'
    BY DEF IInv, ScopeNeverWidens, PlanNarrows
<1>4. emitted = Restored /\ result = NoResult
    BY DEF IInv, EmittedAtStep, ResultAtEnd
<1>5. CASE /\ settled.decision = "recover" /\ step' = "recover"
           /\ UNCHANGED <<ledger, held, judged, context, result, emitted>>
  <2>1. round < MaxRounds
      BY <1>1, <1>5, SelectionAssumption DEF IInv, TypeOK
  <2>2. EmittedAtStep'
      BY <1>4, <1>5 DEF EmittedAtStep, Authoring
  <2>3. QuotesSound'
      BY <1>4, <1>5, EmptyQuotes DEF NoResult
  <2>4. TypeOK' /\ ResultAtEnd' /\ RoundsLeft' /\ JudgedToAnswer'
      BY <1>2, <1>4, <1>5, <2>1 DEF IInv, TypeOK, Step, ResultAtEnd, RoundsLeft, JudgedToAnswer
  <2>5. ContextSeen'
      BY <1>5 DEF IInv, ContextSeen, Seen
  <2> QED BY <1>2, <1>3, <2>2, <2>3, <2>4, <2>5 DEF IInv
<1>6. CASE /\ settled.decision = "abstain" /\ Emit(<<"answering">>)
           /\ result' = Nothing("abstained") /\ step' = "done"
           /\ UNCHANGED <<ledger, held, judged, context>>
  <2>1. emitted' = Answering
      BY <1>4, <1>6, Reports DEF Emit
  <2>2. EmittedAtStep'
      BY <1>6, <2>1 DEF EmittedAtStep, Authoring
  <2>3. QuotesSound'
      BY <1>6, EmptyQuotes
  <2>4. TypeOK' /\ ResultAtEnd' /\ RoundsLeft' /\ JudgedToAnswer'
      BY <1>2, <1>6 DEF IInv, TypeOK, Step, ResultAtEnd, RoundsLeft, JudgedToAnswer
  <2>5. ContextSeen'
      BY <1>6 DEF IInv, ContextSeen, Seen
  <2> QED BY <1>2, <1>3, <2>2, <2>3, <2>4, <2>5 DEF IInv
<1>7. CASE /\ settled.decision = "answer" /\ Emit(<<"answering">>)
           /\ judged' = settled
           /\ Answer(RootsFor(Selected(ledger), held, AnswerRootLimit))
           /\ ledger' = <<>> /\ held' = <<>>
  <2>1. emitted' = Answering
      BY <1>4, <1>7, Reports DEF Emit
  <2>2. \A r \in RootsFor(Selected(ledger), held, AnswerRootLimit) : Seen(r.leaves)
      BY RootsAreSeen DEF IInv, ContextSeen
  <2>3. /\ step' \in {"draft", "done"}
        /\ \A r \in context' : Seen(r.leaves)
        /\ ResultAtEnd' /\ QuotesSound' /\ EmittedAtStep'
      BY <1>7, <2>1, <2>2, AnswerHandsOver
  <2>4. ledger' \in Seq(Item) /\ DOMAIN held' = {}
      BY <1>7
  <2>5. TypeOK' /\ RoundsLeft' /\ JudgedToAnswer'
      BY <1>1, <1>2, <1>7, <2>3, <2>4 DEF IInv, TypeOK, Step, RoundsLeft, JudgedToAnswer
  <2>6. ContextSeen'
      BY <2>3, <2>4 DEF ContextSeen, Seen
  <2> QED BY <1>2, <1>3, <2>3, <2>5, <2>6 DEF IInv
<1> QED BY <1>5, <1>6, <1>7 DEF Judge, settled

LEMMA AssessKeeps ==
    ASSUME IInv, Assess
    PROVE  IInv'
<1>1. step = "assess" /\ UNCHANGED <<request, plan, round, searched, rejected>>
    BY DEF Assess
<1>2. CASE Judge(NoEvidence) /\ Counted
    BY <1>1, <1>2, FallbackIsTrusted, JudgeKeeps
<1>3. CASE AssessorAnswers
  <2>1. PICK answer \in AssessorAnswer : Judge(Believed(ledger, Judged(answer))) /\ Counted
      BY <1>3 DEF AssessorAnswers
  <2> QED BY <1>1, <2>1, BelievedIsTrusted, JudgeKeeps
<1>4. CASE AssessorFails
    BY <1>1, <1>4, FallbackIsTrusted, JudgeKeeps DEF AssessorFails
<1> QED BY <1>2, <1>3, <1>4 DEF Assess

LEMMA RecoverKeeps ==
    ASSUME IInv, Recover
    PROVE  IInv'
<1>1. /\ UNCHANGED <<request, plan, judged, rejected, unreported>> /\ step = "recover"
      /\ Emit(ReportedBy(FALSE))
    BY DEF Recover
<1>2. /\ searched' = Resolve(request.ready, request.permission, ActionScope)
      /\ Narrows(ActionScope, request.scope)
    BY ActionNarrows DEF Recover
<1>3. ScopeNeverWidens' /\ PlanNarrows' /\ JudgedToAnswer' /\ UsageNeverOverstated'
  <2>1. ScopeNeverWidens'
      BY <1>1, <1>2, Retrieved
  <2> QED BY <1>1, <2>1 DEF IInv, PlanNarrows, JudgedToAnswer, UsageNeverOverstated
<1>4. emitted' = Restored
  <2>1. emitted = Restored
      BY <1>1 DEF IInv, EmittedAtStep
  <2> QED BY <1>1, <2>1, Reports DEF Emit, ReportedBy
<1>5. round + 1 <= MaxRounds /\ round + 1 \in Nat
    BY <1>1, SelectionAssumption DEF IInv, RoundsLeft, TypeOK
<1>6. CASE Fail /\ round' = round + 1
  <2>1. result' = Nothing("failed") /\ step' = "done" /\ UNCHANGED <<ledger, held, context>>
      BY <1>6 DEF Fail
  <2>2. EmittedAtStep'
      BY <1>4, <2>1 DEF EmittedAtStep, Authoring
  <2>3. QuotesSound'
      BY <2>1, EmptyQuotes
  <2>4. TypeOK' /\ ResultAtEnd' /\ RoundsLeft'
      BY <1>1, <1>5, <1>6, <2>1 DEF IInv, TypeOK, Step, ResultAtEnd, RoundsLeft
  <2>5. ContextSeen'
      BY <1>1, <2>1 DEF IInv, ContextSeen, Seen
  <2> QED BY <1>3, <2>2, <2>3, <2>4, <2>5 DEF IInv
<1>7. CASE /\ searched' # Conflict
           /\ \E list \in Found(Findable(ActionScope)) :
              /\ round' = NextRound(round, list)
              /\ ledger' = Added(ledger, Evidence(list, round + 1))
              /\ held' = Remembered(Evidence(list, round + 1))
           /\ step' = "assess" /\ UNCHANGED <<context, result>>
  <2>1. PICK list \in Found(Findable(ActionScope)) :
            /\ round' = NextRound(round, list)
            /\ ledger' = Added(ledger, Evidence(list, round + 1))
            /\ held' = Remembered(Evidence(list, round + 1))
      BY <1>7
  <2> DEFINE items == Evidence(list, round + 1)
  <2>2. /\ items \in Seq(Item)
        /\ \A root \in DOMAIN Remembered(items) : Seen(Remembered(items)[root])
      BY <1>1, <1>2, <1>5, <1>7, Retrieved
  <2>3. round' = round + 1
      BY <2>1 DEF NextRound
  <2>4. ledger' \in Seq(Item)
      BY <2>1, <2>2, AddedIsItems DEF IInv, TypeOK
  <2>5. EmittedAtStep'
      BY <1>4, <1>7 DEF EmittedAtStep, Authoring
  <2>6. result' = NoResult
      BY <1>1, <1>7 DEF IInv, ResultAtEnd
  <2>7. QuotesSound'
      BY <2>6, EmptyQuotes DEF NoResult
  <2>8. TypeOK' /\ ResultAtEnd' /\ RoundsLeft'
      BY <1>1, <1>5, <1>7, <2>3, <2>4, <2>6 DEF IInv, TypeOK, Step, ResultAtEnd, RoundsLeft
  <2>9. ContextSeen'
      BY <1>1, <1>7, <2>1, <2>2 DEF IInv, ContextSeen, Seen
  <2> QED BY <1>3, <2>5, <2>7, <2>8, <2>9 DEF IInv
<1> QED BY <1>6, <1>7 DEF Recover

-----------------------------------------------------------------------------
(* While the author writes, only the step, the result, the draft under     *)
(* repair and the usage change.                                            *)
LEMMA WritingKeeps ==
    ASSUME IInv, step \in Authoring, Counted \/ CountedAs(0),
           UNCHANGED <<request, plan, round, searched, ledger, held, judged, context, emitted>>,
           \/ /\ step' = "done" /\ Sound(context, result')
              /\ result'.status = "partial" => result'.citations # {}
           \/ step' = "redraft" /\ UNCHANGED result
           \/ step' = "repair" /\ rejected' \in Drafts /\ UNCHANGED result
    PROVE  IInv'
<1>1. unreported' \in Int /\ UsageNeverOverstated'
    BY NeverOverCounted
<1>2. step' \in {"done", "redraft", "repair"} /\ (step' # "done" => result' = NoResult)
    BY DEF IInv, ResultAtEnd, Authoring
<1>3. emitted' = Answering
    BY DEF IInv, EmittedAtStep
<1>4. EmittedAtStep'
    BY <1>2, <1>3 DEF EmittedAtStep, Authoring
<1>5. QuotesSound'
  <2>1. CASE step' = "done"
      BY <2>1, SoundQuotes
  <2>2. CASE step' # "done"
      BY <1>2, <2>2, EmptyQuotes DEF NoResult
  <2> QED BY <2>1, <2>2
<1>6. TypeOK' /\ PlanNarrows' /\ ScopeNeverWidens' /\ JudgedToAnswer' /\ RoundsLeft'
    BY <1>1, <1>2 DEF IInv, TypeOK, Step, PlanNarrows, ScopeNeverWidens, JudgedToAnswer, RoundsLeft
<1>7. ResultAtEnd'
    BY <1>2 DEF ResultAtEnd
<1>8. ContextSeen'
    BY DEF IInv, ContextSeen, Seen
<1> QED BY <1>1, <1>4, <1>5, <1>6, <1>7, <1>8 DEF IInv

LEMMA DraftKeeps ==
    ASSUME IInv, Draft
    PROVE  IInv'
<1>1. /\ step \in Authoring
      /\ UNCHANGED <<request, plan, round, searched, ledger, held, judged, context, emitted>>
    BY DEF Draft, Authoring
<1>2. ASSUME NEW draft \in Drafts, Drafted(draft), Counted  PROVE IInv'
  <2>1. CASE Verify(context, draft) = {}
    <3>1. result' = Answered("answered", draft) /\ step' = "done"
        BY <1>2, <2>1 DEF Drafted, Finish
    <3>2. Sound(context, result') /\ result'.status # "partial"
        BY <2>1, <3>1, VerifiedIsSound DEF Answered
    <3> QED BY <1>1, <1>2, <3>1, <3>2, WritingKeeps
  <2>2. CASE Verify(context, draft) # {}
    <3>1. step' = "repair" /\ rejected' \in Drafts /\ UNCHANGED result
        BY <1>2, <2>2 DEF Drafted
    <3> QED BY <1>1, <1>2, <3>1, WritingKeeps
  <2> QED BY <2>1, <2>2
<1>3. CASE Redraft
    BY <1>1, <1>3, WritingKeeps DEF Redraft
<1>4. CASE GiveUp /\ (Counted \/ CountedAs(0))
  <2>1. result' = Nothing("abstained") /\ step' = "done"
      BY <1>4 DEF GiveUp, Finish
  <2>2. Sound(context, result') /\ result'.status # "partial"
      BY <2>1, NothingIsSound DEF Nothing
  <2> QED BY <1>1, <1>4, <2>1, <2>2, WritingKeeps
<1> QED BY <1>2, <1>3, <1>4 DEF Draft

LEMMA RepairKeeps ==
    ASSUME IInv, Repair
    PROVE  IInv'
<1>1. /\ step \in Authoring
      /\ UNCHANGED <<request, plan, round, searched, ledger, held, judged, context, emitted>>
    BY DEF Repair, Authoring
<1>2. ASSUME NEW draft \in Drafts, NEW issues, step' = "done", Counted \/ CountedAs(0),
             result' = Incomplete(context, draft, issues)
      PROVE  IInv'
    BY <1>1, <1>2, SafePartIsSound, WritingKeeps
<1>3. ASSUME NEW draft \in Drafts, RepairedTo(draft), Counted  PROVE IInv'
  <2>1. CASE Verify(context, draft) = {}
    <3>1. result' = Answered("answered", draft) /\ step' = "done"
        BY <1>3, <2>1 DEF RepairedTo, Finish
    <3>2. Sound(context, result') /\ result'.status # "partial"
        BY <2>1, <3>1, VerifiedIsSound DEF Answered
    <3> QED BY <1>1, <1>3, <3>1, <3>2, WritingKeeps
  <2>2. CASE Verify(context, draft) # {}
    <3>1. result' = Incomplete(context, draft, Verify(context, draft)) /\ step' = "done"
        BY <1>3, <2>2 DEF RepairedTo, Finish
    <3> QED BY <1>2, <1>3, <3>1
  <2> QED BY <2>1, <2>2
<1>4. CASE RepairFails
  <2>1. /\ result' = Incomplete(context, rejected, Verify(context, rejected))
        /\ step' = "done" /\ CountedAs(0)
      BY <1>4 DEF RepairFails, Finish
  <2>2. rejected \in Drafts
      BY DEF Repair, IInv, ResultAtEnd
  <2> QED BY <1>2, <2>1, <2>2
<1> QED BY <1>3, <1>4 DEF Repair, RepairAnswers

-----------------------------------------------------------------------------
LEMMA InitHolds ==
    ASSUME Init
    PROVE  IInv
<1>1. request.scope \in Scope
    BY RequestsAssumption DEF Init
<1>2. PlanNarrows
    BY <1>1, PlansNarrow DEF Init, PlanNarrows
<1>3. ScopeNeverWidens
    BY DEF Init, ScopeNeverWidens
<1>4. TypeOK
  <2>1. <<>> \in Seq(Item)
      OBVIOUS
  <2> QED BY <2>1 DEF Init, TypeOK, Step
<1>5. ContextSeen /\ ResultAtEnd
    BY DEF Init, ContextSeen, ResultAtEnd
<1>6. QuotesSound
    BY DEF Init, NoResult, QuotesSound, Sound, Nothing
<1>7. JudgedToAnswer /\ UsageNeverOverstated
    BY DEF Init, JudgedToAnswer, NoJudgement, UsageNeverOverstated
<1>8. RoundsLeft /\ EmittedAtStep
    BY SelectionAssumption DEF Init, RoundsLeft, EmittedAtStep, Authoring
<1> QED BY <1>2, <1>3, <1>4, <1>5, <1>6, <1>7, <1>8 DEF IInv

LEMMA StutterKeeps ==
    ASSUME IInv, UNCHANGED vars
    PROVE  IInv'
BY DEF vars, IInv, TypeOK, PlanNarrows, ScopeNeverWidens, ContextSeen, Seen, ResultAtEnd,
       QuotesSound, JudgedToAnswer, RoundsLeft, EmittedAtStep, UsageNeverOverstated

(* Whatever the models answer, in every reachable state: the plan keeps    *)
(* the filters of the request, what is remembered, handed over and quoted  *)
(* is the caller's to see, an answer rests on a judgement that allows it,  *)
(* and the stages reported are those of the step (SemanticQueryRunner.run).*)
THEOREM GraphInductive == Spec => []IInv
<1>1. Init => IInv
    BY InitHolds
<1>2. IInv /\ [Next]_vars => IInv'
  <2> SUFFICES ASSUME IInv, [Next]_vars  PROVE IInv'
      OBVIOUS
  <2>1. CASE Greet
      BY <2>1, GreetKeeps
  <2>2. CASE Plan
      BY <2>2, PlanKeeps
  <2>3. CASE Retrieve
      BY <2>3, RetrieveKeeps
  <2>4. CASE Assess
      BY <2>4, AssessKeeps
  <2>5. CASE Recover
      BY <2>5, RecoverKeeps
  <2>6. CASE Draft
      BY <2>6, DraftKeeps
  <2>7. CASE Repair
      BY <2>7, RepairKeeps
  <2>8. CASE Done \/ UNCHANGED vars
      BY <2>8, StutterKeeps DEF Done
  <2> QED BY <2>1, <2>2, <2>3, <2>4, <2>5, <2>6, <2>7, <2>8 DEF Next
<1> QED BY <1>1, <1>2, PTL DEF Spec

(* Neither a plan nor a recovery searches beyond what the caller may see   *)
(* or asked for (query_planner.py, _SemanticRecoveryExecutor).             *)
THEOREM ScopeKept == Spec => []ScopeNeverWidens
<1>1. IInv => ScopeNeverWidens
    BY DEF IInv
<1> QED BY <1>1, GraphInductive, PTL

(* What is returned quotes only what was handed to the author, also when   *)
(* part of a draft is returned, and the author of a deep query is asked    *)
(* only over covered evidence without a conflict (answer_verification.py). *)
THEOREM AnswersSound == Spec => []AnswerSound
<1>1. IInv => AnswerSound
    BY DEF IInv, AnswerSound, OnlyCoveredIsAnswered, JudgedToAnswer
<1> QED BY <1>1, GraphInductive, PTL
-----------------------------------------------------------------------------
(* The stages reported only advance. *)
LEMMA RankIsPlace ==
    \A n \in 1 .. 5 : Rank(Stages[n]) = n
<1>1. DOMAIN Stages = 1 .. 5
    BY DEF Stages
<1>2. \A m, n \in 1 .. 5 : Stages[m] = Stages[n] => m = n
    BY DEF Stages
<1> QED BY <1>1, <1>2 DEF Rank

LEMMA EmittedAdvances ==
    ASSUME IInv
    PROVE  \A i, j \in DOMAIN emitted : i < j => Rank(emitted[i]) < Rank(emitted[j])
<1>1. emitted \in {<<>>, <<"answering">>, Searching, Reranked, Restored, Answering}
    BY DEF IInv, EmittedAtStep, TypeOK, Step, Authoring
<1>2. CASE emitted \in {<<>>, <<"answering">>}
    BY <1>2
<1>3. ASSUME NEW k \in 2 .. 5, DOMAIN emitted = 1 .. k,
             \A i \in 1 .. k : emitted[i] = Stages[i]
      PROVE  \A i, j \in DOMAIN emitted : i < j => Rank(emitted[i]) < Rank(emitted[j])
    BY <1>3, RankIsPlace
<1>4. CASE emitted = Searching
  <2>1. DOMAIN emitted = 1 .. 2 /\ \A i \in 1 .. 2 : emitted[i] = Stages[i]
      BY <1>4 DEF Searching, Stages
  <2> QED BY <1>3, <2>1
<1>5. CASE emitted = Reranked
  <2>1. DOMAIN emitted = 1 .. 3 /\ \A i \in 1 .. 3 : emitted[i] = Stages[i]
      BY <1>5 DEF Reranked, Stages
  <2> QED BY <1>3, <2>1
<1>6. CASE emitted = Restored
  <2>1. DOMAIN emitted = 1 .. 4 /\ \A i \in 1 .. 4 : emitted[i] = Stages[i]
      BY <1>6 DEF Restored, Stages
  <2> QED BY <1>3, <2>1
<1>7. CASE emitted = Answering
  <2>1. DOMAIN emitted = 1 .. 5 /\ \A i \in 1 .. 5 : emitted[i] = Stages[i]
      BY <1>7 DEF Answering, Stages
  <2> QED BY <1>3, <2>1
<1> QED BY <1>1, <1>2, <1>4, <1>5, <1>6, <1>7

(* What a query reports of its own course is true: the stages only         *)
(* advance, however many recovery rounds there are, the rounds stay within *)
(* their limit, and no more calls are reported than were made.             *)
THEOREM ReportsTruly == Spec => []ReportsTrue
<1>1. IInv => ReportsTrue
    BY EmittedAdvances DEF IInv, ReportsTrue, ProgressAdvances, RoundsLeft
<1> QED BY <1>1, GraphInductive, PTL
-----------------------------------------------------------------------------
(* The selection of evidence.  Being ahead orders the items strictly.      *)
AheadIn(items, S) == {p \in S \X S : Ahead(items, p[1], p[2])}

LEMMA AheadOrders ==
    ASSUME NEW items \in Seq(Item), NEW S \in SUBSET (DOMAIN items)
    PROVE  Ordering(S, AheadIn(items, S))
<1>1. \A i \in S : i \in Nat /\ items[i].sure \in BOOLEAN
  <2> SUFFICES ASSUME NEW i \in S  PROVE i \in Nat /\ items[i].sure \in BOOLEAN
      OBVIOUS
  <2>1. i \in 1 .. Len(items) /\ items[i] \in Item
      OBVIOUS
  <2> QED BY <2>1 DEF Item
<1>2. \A x \in S : ~Ahead(items, x, x)
    BY <1>1 DEF Ahead
<1>3. \A x, y \in S : x # y => Ahead(items, x, y) \/ Ahead(items, y, x)
    BY <1>1 DEF Ahead
<1>4. \A x, y, z \in S : Ahead(items, x, y) /\ Ahead(items, y, z) => Ahead(items, x, z)
    BY <1>1 DEF Ahead
<1> QED BY <1>2, <1>3, <1>4 DEF Ordering, AheadIn

(* The best items are as many as may be, and nothing ahead of one of them  *)
(* is left out.                                                            *)
LEMMA BestAreAhead ==
    ASSUME NEW items \in Seq(Item), NEW S \in SUBSET (DOMAIN items), NEW n \in Nat
    PROVE  /\ Best(items, S, n) \subseteq S /\ IsFiniteSet(Best(items, S, n))
           /\ Cardinality(Best(items, S, n)) = IF n <= Cardinality(S) THEN n ELSE Cardinality(S)
           /\ \A i \in Best(items, S, n), j \in S :
                  Ahead(items, j, i) => j \in Best(items, S, n)
<1> DEFINE R == AheadIn(items, S)
<1>1. Ordering(S, R)
    BY AheadOrders
<1>2. IsFiniteSet(S)
  <2>1. IsFiniteSet(1 .. Len(items)) /\ S \in SUBSET (1 .. Len(items))
      BY FS_Interval
  <2> QED BY <2>1, FS_Subset
<1>3. \A x \in S : Lower(S, R, x) = {j \in S : Ahead(items, j, x)}
    BY DEF Lower, AheadIn
<1>4. \A x \in S : Place(items, S, x) = Cardinality(Lower(S, R, x))
    BY <1>3 DEF Place
<1>5. Best(items, S, n) = Firsts(S, R, n)
    BY <1>4 DEF Best, Firsts
<1>6. \A x, y \in S : Ahead(items, x, y) => <<x, y>> \in R
    BY DEF AheadIn
<1> HIDE DEF R
<1>7. \A i \in Best(items, S, n), j \in S : Ahead(items, j, i) => j \in Best(items, S, n)
  <2> SUFFICES ASSUME NEW i \in Best(items, S, n), NEW j \in S, Ahead(items, j, i)
               PROVE  j \in Best(items, S, n)
      OBVIOUS
  <2>1. i \in S /\ Cardinality(Lower(S, R, i)) < n
      BY <1>5 DEF Firsts
  <2>2. Cardinality(Lower(S, R, j)) < Cardinality(Lower(S, R, i))
      BY <1>1, <1>2, <1>6, <2>1, PlacesAreTaken
  <2>3. Cardinality(Lower(S, R, j)) \in Int /\ Cardinality(Lower(S, R, i)) \in Int
    <3>1. Cardinality(S) \in Nat
        BY <1>2, FS_CardinalityType
    <3>2. /\ Cardinality(Lower(S, R, j)) \in 0 .. Cardinality(S) - 1
          /\ Cardinality(Lower(S, R, i)) \in 0 .. Cardinality(S) - 1
        BY <1>1, <1>2, <2>1, PlacesAreTaken
    <3> QED BY <3>1, <3>2
  <2>4. Cardinality(Lower(S, R, j)) < n
      BY <2>1, <2>2, <2>3
  <2> QED BY <1>5, <2>4 DEF Firsts
<1>8. Firsts(S, R, n) \subseteq S
    BY DEF Firsts
<1> QED BY <1>1, <1>2, <1>5, <1>7, <1>8, FirstPlaces

LEMMA LesserOfTwo ==
    ASSUME NEW a \in Int, NEW b \in Int
    PROVE  Min({a, b}) = IF a <= b THEN a ELSE b
<1>1. \E x \in {a, b} : \A y \in {a, b} : x <= y
    OBVIOUS
<1>2. Min({a, b}) \in {a, b} /\ \A y \in {a, b} : Min({a, b}) <= y
    BY <1>1 DEF Min
<1> QED BY <1>2

LEMMA EvidenceIsKept ==
    ASSUME ledger \in Seq(Item)
    PROVE  RecoveredEvidenceKept
<1> DEFINE all == DOMAIN ledger
           found == Recovered(ledger)
           reserved == Reserved(ledger)
           rest == all \ reserved
           others == Best(ledger, rest, TopK - Cardinality(reserved))
           chosen == Chosen(ledger)
           recovered == chosen \cap found
<1>1. all = 1 .. Len(ledger) /\ Len(ledger) \in Nat /\ found \in SUBSET all
    BY DEF Recovered
<1>2. IsFiniteSet(all) /\ Cardinality(all) = Len(ledger)
  <2>1. 1 \in Int /\ Len(ledger) \in Int
      BY <1>1
  <2>2. /\ IsFiniteSet(1 .. Len(ledger))
        /\ Cardinality(1 .. Len(ledger))
              = IF 1 > Len(ledger) THEN 0 ELSE Len(ledger) - 1 + 1
      BY <2>1, FS_Interval
  <2> HIDE DEF all
  <2> QED BY <1>1, <2>2
<1>3. IsFiniteSet(found) /\ Cardinality(found) \in Nat
    BY <1>1, <1>2, FS_Subset, FS_CardinalityType
<1>4. Reserve \in Nat /\ TopK \in Nat /\ Reserve <= TopK
    BY SelectionAssumption
<1>5. /\ reserved \subseteq found /\ IsFiniteSet(reserved)
      /\ Cardinality(reserved) = IF Reserve <= Cardinality(found) THEN Reserve ELSE Cardinality(found)
      /\ \A i \in reserved, j \in found : Ahead(ledger, j, i) => j \in reserved
    BY <1>1, <1>4, BestAreAhead DEF Reserved
<1>6. /\ Cardinality(reserved) \in Nat /\ Cardinality(reserved) <= Reserve
      /\ TopK - Cardinality(reserved) \in Nat
    BY <1>3, <1>4, <1>5
<1>7. chosen = reserved \cup others
    BY DEF Chosen
<1>8. \A k \in all : ledger[k].sure \in BOOLEAN
  <2> SUFFICES ASSUME NEW k \in all  PROVE ledger[k].sure \in BOOLEAN
      OBVIOUS
  <2>1. ledger[k] \in Item
      BY <1>1
  <2> QED BY <2>1 DEF Item
<1> HIDE DEF all, found, reserved, others, chosen
<1>9. rest \in SUBSET all /\ IsFiniteSet(rest) /\ Cardinality(rest) = Len(ledger) - Cardinality(reserved)
  <2>1. IsFiniteSet(rest) /\ Cardinality(rest) \in Nat
      BY <1>2, FS_Subset, FS_CardinalityType
  <2>2. reserved \cup rest = all /\ reserved \cap rest = {}
      BY <1>1, <1>5
  <2>3. Cardinality(reserved \cup rest)
            = Cardinality(reserved) + Cardinality(rest) - Cardinality(reserved \cap rest)
      BY <1>5, <2>1, FS_Union
  <2>4. Cardinality(reserved \cap rest) = 0 /\ Cardinality(reserved \cup rest) = Len(ledger)
      BY <1>2, <2>2, FS_EmptySet
  <2>5. Cardinality(rest) = Len(ledger) - Cardinality(reserved)
      BY <1>1, <1>6, <2>1, <2>3, <2>4
  <2> QED BY <2>1, <2>5
<1>10. /\ others \subseteq rest /\ IsFiniteSet(others)
       /\ Cardinality(others) = IF TopK - Cardinality(reserved) <= Cardinality(rest)
                                THEN TopK - Cardinality(reserved) ELSE Cardinality(rest)
       /\ \A i \in others, j \in rest : Ahead(ledger, j, i) => j \in others
    BY <1>6, <1>9, BestAreAhead DEF others, all
<1>11. Cardinality(chosen) = Min({TopK, Len(ledger)})
  <2>1. reserved \cap others = {}
      BY <1>10
  <2>2. Cardinality(chosen)
            = Cardinality(reserved) + Cardinality(others) - Cardinality(reserved \cap others)
      BY <1>5, <1>7, <1>10, FS_Union
  <2>3. Cardinality(chosen) = Cardinality(reserved) + Cardinality(others)
    <3>1. Cardinality(reserved \cap others) = 0
        BY <2>1, FS_EmptySet
    <3>2. Cardinality(others) \in Nat
        BY <1>10, FS_CardinalityType
    <3> QED BY <1>6, <2>2, <3>1, <3>2
  <2>4. Min({TopK, Len(ledger)}) = IF TopK <= Len(ledger) THEN TopK ELSE Len(ledger)
      BY <1>1, <1>4, LesserOfTwo
  <2> QED BY <1>1, <1>4, <1>6, <1>9, <1>10, <2>3, <2>4
<1>12. IsFiniteSet(recovered) /\ reserved \subseteq recovered
    BY <1>3, <1>5, <1>7, FS_Subset
<1>13. Cardinality(recovered) >= Min({Reserve, Cardinality(found)})
  <2>1. Cardinality(reserved) <= Cardinality(recovered) /\ Cardinality(recovered) \in Nat
      BY <1>12, FS_Subset, FS_CardinalityType
  <2>2. Min({Reserve, Cardinality(found)}) = Cardinality(reserved)
      BY <1>3, <1>4, <1>5, LesserOfTwo
  <2> QED BY <1>6, <2>1, <2>2
<1>14. ASSUME NEW i \in chosen, NEW j \in all \ chosen, ledger[j].sure, ~ledger[i].sure
       PROVE  i \in recovered /\ Cardinality(recovered) <= Reserve
  <2>1. j \in rest /\ j \notin others
      BY <1>7
  <2>2. i \in reserved
    <3>1. i \notin others
        BY <1>10, <1>14, <2>1 DEF Ahead
    <3> QED BY <1>7, <3>1
  <2>3. recovered = reserved
    <3> SUFFICES ASSUME NEW k \in others, k \in found  PROVE FALSE
        BY <1>7, <1>12
    <3>1. k \in rest /\ k \notin reserved
        BY <1>10
    <3>2. ~Ahead(ledger, k, i)
        BY <1>5, <2>2, <3>1
    <3>3. ~ledger[k].sure
        BY <1>14, <3>2 DEF Ahead
    <3>4. Ahead(ledger, j, k)
        BY <1>14, <3>3 DEF Ahead
    <3> QED BY <1>10, <2>1, <3>4
  <2> QED BY <1>6, <2>2, <2>3
<1> QED BY <1>11, <1>13, <1>14 DEF RecoveredEvidenceKept, all, found, chosen

(* Recovered evidence keeps its reserved places, and the others go to the  *)
(* best of the rest (EvidenceLedger.selected).                             *)
THEOREM EvidenceKept == Spec => []RecoveredEvidenceKept
<1>1. IInv => RecoveredEvidenceKept
    BY EvidenceIsKept DEF IInv, TypeOK
<1> QED BY <1>1, GraphInductive, PTL

-----------------------------------------------------------------------------
(* The retrieval. *)

(* What holds of the empty set, and of every set of S when it holds of the *)
(* set without one of its elements, holds of every finite set.             *)
LEMMA SubsetInduction ==
    ASSUME NEW S, IsFiniteSet(S), NEW T, {} \in T,
           \A s \in SUBSET S : s # {} => \E x \in s : s \ {x} \in T => s \in T
    PROVE  SUBSET S \subseteq T
<1> SUFFICES ASSUME NEW u \in SUBSET S, u \notin T  PROVE FALSE
    OBVIOUS
<1> DEFINE sizes == {Cardinality(s) : s \in (SUBSET S) \ T}
<1>1. \A s \in SUBSET S : /\ IsFiniteSet(s) /\ Cardinality(s) \in Nat
                          /\ \A x \in s : Cardinality(s \ {x}) = Cardinality(s) - 1
    BY FS_Subset, FS_CardinalityType, FS_RemoveElement
<1>2. sizes \in SUBSET Nat /\ sizes # {}
    BY <1>1
<1>3. PICK n \in sizes : \A m \in sizes : n <= m
    BY <1>2, LeastExists
<1>4. PICK s \in (SUBSET S) \ T : Cardinality(s) = n
    BY <1>3
<1>5. s # {}
    BY <1>4
<1>6. PICK x \in s : s \ {x} \in T => s \in T
    BY <1>5
<1>7. s \ {x} \in (SUBSET S) \ T
    BY <1>4, <1>6
<1>8. Cardinality(s \ {x}) \in sizes /\ Cardinality(s \ {x}) = Cardinality(s) - 1
    BY <1>1, <1>7
<1>9. n \in Nat
    BY <1>2
<1> QED BY <1>3, <1>4, <1>8, <1>9

(* What holds of 0, and of n + 1 when of n, holds of every natural number. *)
LEMMA NumberInduction ==
    ASSUME NEW T, 0 \in T, \A n \in Nat : n \in T => n + 1 \in T
    PROVE  Nat \subseteq T
<1> SUFFICES ASSUME Nat \ T # {}  PROVE FALSE
    OBVIOUS
<1>1. PICK n \in Nat \ T : \A m \in Nat \ T : n <= m
    BY LeastExists
<1>2. n - 1 \in Nat /\ (n - 1) + 1 = n /\ ~(n <= n - 1)
    BY <1>1
<1> QED BY <1>1, <1>2

(* A fold over a finite set applies next to what it gives for the rest and *)
(* to the element that is picked from the set.                             *)
Folding(S, base, next, pick, f) ==
    f = [s \in SUBSET S |->
            IF s = {} THEN base ELSE next[<<f[s \ {pick[s]}], pick[s]>>]]

(* There is one: of the sets of at most n elements, n growing. *)
LEMMA FoldExists ==
    ASSUME NEW S, IsFiniteSet(S), NEW base, NEW next, NEW pick,
           \A s \in SUBSET S : s # {} => pick[s] \in s
    PROVE  \E f : Folding(S, base, next, pick, f)
<1> DEFINE
      Small(n) == {s \in SUBSET S : Cardinality(s) <= n}
      Upto(n, g) == g = [s \in Small(n) |->
                           IF s = {} THEN base ELSE next[<<g[s \ {pick[s]}], pick[s]>>]]
      T == {n \in Nat : \E g : Upto(n, g)}
<1>1. \A s \in SUBSET S :
        /\ Cardinality(s) \in Nat /\ (Cardinality(s) = 0 <=> s = {})
        /\ s # {} => /\ s \ {pick[s]} \in SUBSET S
                     /\ Cardinality(s \ {pick[s]}) = Cardinality(s) - 1
  <2> SUFFICES ASSUME NEW s \in SUBSET S
               PROVE  /\ Cardinality(s) \in Nat /\ (Cardinality(s) = 0 <=> s = {})
                      /\ s # {} => /\ s \ {pick[s]} \in SUBSET S
                                   /\ Cardinality(s \ {pick[s]}) = Cardinality(s) - 1
    OBVIOUS
  <2>1. IsFiniteSet(s)
    BY FS_Subset
  <2>2. Cardinality(s) \in Nat /\ (Cardinality(s) = 0 <=> s = {})
    BY <2>1, FS_CardinalityType, FS_EmptySet
  <2>3. ASSUME s # {} PROVE Cardinality(s \ {pick[s]}) = Cardinality(s) - 1
    BY <2>1, <2>3, FS_RemoveElement
  <2> QED BY <2>2, <2>3
<1>2. 0 \in T
  <2> DEFINE g == [s \in Small(0) |-> base]
  <2>1. ASSUME NEW s \in Small(0) PROVE s = {}
    <3>1. s \in SUBSET S /\ Cardinality(s) <= 0
      OBVIOUS
    <3>2. Cardinality(s) \in Nat /\ (Cardinality(s) = 0 <=> s = {})
      BY <1>1, <3>1
    <3>3. Cardinality(s) = 0
      BY <3>1, <3>2
    <3> QED BY <3>2, <3>3
  <2>2. Upto(0, g)
    BY <2>1
  <2> HIDE DEF Upto, g
  <2> QED BY <2>2
<1>3. ASSUME NEW n \in Nat, n \in T PROVE n + 1 \in T
  <2>1. PICK g : Upto(n, g)
    BY <1>3
  <2> DEFINE h == [s \in Small(n + 1) |->
                     IF s = {} THEN base ELSE next[<<g[s \ {pick[s]}], pick[s]>>]]
  <2>2. ASSUME NEW s \in Small(n + 1), s # {} PROVE s \ {pick[s]} \in Small(n)
    <3>1. /\ s \ {pick[s]} \in SUBSET S /\ Cardinality(s) \in Nat
          /\ Cardinality(s \ {pick[s]}) = Cardinality(s) - 1
      BY <1>1, <2>2
    <3>2. Cardinality(s) <= n + 1
      BY <2>2
    <3>3. Cardinality(s \ {pick[s]}) <= n
      BY <3>1, <3>2
    <3> QED BY <3>1, <3>3
  <2>3. ASSUME NEW s \in Small(n) PROVE s \in Small(n + 1) /\ h[s] = g[s]
    <3>1. s \in Small(n + 1)
      <4>1. Cardinality(s) \in Nat /\ Cardinality(s) <= n /\ s \in SUBSET S
        BY <1>1, <2>3
      <4>2. Cardinality(s) <= n + 1
        BY <4>1
      <4> QED BY <4>1, <4>2
    <3> HIDE DEF Small
    <3>2. h[s] = IF s = {} THEN base ELSE next[<<g[s \ {pick[s]}], pick[s]>>]
      BY <3>1
    <3>3. g[s] = IF s = {} THEN base ELSE next[<<g[s \ {pick[s]}], pick[s]>>]
      BY <2>1, <2>3
    <3> QED BY <3>1, <3>2, <3>3
  <2>4. Upto(n + 1, h)
    BY <2>2, <2>3
  <2> HIDE DEF Upto, h
  <2> QED BY <2>4
<1>4. Nat \subseteq T
  <2> HIDE DEF T
  <2> QED BY <1>2, <1>3, NumberInduction
<1>5. Cardinality(S) \in Nat /\ Small(Cardinality(S)) = SUBSET S
  <2>1. \A s \in SUBSET S : Cardinality(s) <= Cardinality(S)
    BY FS_Subset
  <2> QED BY <1>1, <2>1
<1>6. PICK g : Upto(Cardinality(S), g)
  BY <1>4, <1>5
<1>7. Folding(S, base, next, pick, g)
  BY <1>5, <1>6 DEF Folding
<1> QED BY <1>7

(* Every one stays in a set that next does not leave. *)
LEMMA FoldStays ==
    ASSUME NEW S, IsFiniteSet(S), NEW base, NEW next, NEW pick,
           \A s \in SUBSET S : s # {} => pick[s] \in s,
           NEW f, Folding(S, base, next, pick, f), NEW A, base \in A,
           \A a \in A, x \in S : next[<<a, x>>] \in A
    PROVE  \A s \in SUBSET S : f[s] \in A
<1> DEFINE T == {s \in SUBSET S : f[s] \in A}
<1>1. \A s \in SUBSET S :
          f[s] = IF s = {} THEN base ELSE next[<<f[s \ {pick[s]}], pick[s]>>]
    BY DEF Folding
<1>2. {} \in T
    BY <1>1
<1>3. \A s \in SUBSET S : s # {} => \E x \in s : s \ {x} \in T => s \in T
  <2> SUFFICES ASSUME NEW s \in SUBSET S, s # {}
               PROVE  pick[s] \in s /\ (s \ {pick[s]} \in T => s \in T)
      OBVIOUS
  <2> QED BY <1>1
<1>4. SUBSET S \subseteq T
  <2> HIDE DEF T
  <2> QED BY <1>2, <1>3, SubsetInduction
<1> QED BY <1>4

(* The greatest of finitely many numbers. *)
LEMMA GreatestExists ==
    ASSUME NEW S \in SUBSET Int, IsFiniteSet(S), S # {}
    PROVE  Max(S) \in S /\ \A y \in S : Max(S) >= y
<1> DEFINE R == {p \in S \X S : p[1] > p[2]}
<1>1. Ordering(S, R)
    BY DEF Ordering
<1>2. Cardinality(S) \in Nat /\ Cardinality(S) # 0
    BY FS_CardinalityType, FS_EmptySet
<1>3. 0 \in 0 .. Cardinality(S) - 1
    BY <1>2
<1>4. PICK x \in S : Cardinality(Lower(S, R, x)) = 0
    BY <1>1, <1>3, PlacesAreTaken
<1>5. IsFiniteSet(Lower(S, R, x))
    BY FS_Subset DEF Lower
<1>6. Lower(S, R, x) = {}
    BY <1>4, <1>5, FS_EmptySet
<1>7. ASSUME NEW y \in S  PROVE x >= y
  <2>1. y > x => <<y, x>> \in R
      OBVIOUS
  <2>2. <<y, x>> \notin R
      BY <1>6 DEF Lower
  <2> QED BY <2>1, <2>2
<1> QED BY <1>7 DEF Max

-----------------------------------------------------------------------------
(* The places of a sequence, and the last of some of them. *)
LastPlace(s) == [places \in SUBSET DOMAIN s |-> Max(places)]

LEMMA PlacesOf ==
    ASSUME NEW A, NEW s \in Seq(A)
    PROVE  /\ DOMAIN s = 1 .. Len(s) /\ Len(s) \in Nat
           /\ IsFiniteSet(DOMAIN s) /\ DOMAIN s \subseteq Nat
           /\ \A i \in DOMAIN s : s[i] \in A
           /\ \A places \in SUBSET DOMAIN s :
                  places # {} => /\ LastPlace(s)[places] \in places
                                 /\ Max(places) = LastPlace(s)[places]
                                 /\ \A i \in places : i <= Max(places)
<1>1. DOMAIN s = 1 .. Len(s) /\ Len(s) \in Nat /\ \A i \in DOMAIN s : s[i] \in A
    OBVIOUS
<1>2. IsFiniteSet(1 .. Len(s))
    BY <1>1, FS_Interval
<1>3. ASSUME NEW places \in SUBSET DOMAIN s, places # {}
      PROVE  Max(places) \in places /\ \A i \in places : i <= Max(places)
  <2>1. IsFiniteSet(places) /\ places \in SUBSET Int
      BY <1>1, <1>2, FS_Subset
  <2>2. Max(places) \in places /\ \A i \in places : Max(places) >= i
      BY <1>3, <2>1, GreatestExists
  <2> QED BY <2>1, <2>2
<1> QED BY <1>1, <1>2, <1>3 DEF LastPlace

(* Steps that do not leave a set. *)
Closed(A, X, next) == \A a \in A, x \in X : next[<<a, x>>] \in A

(* A fold over a sequence, as the fold of the library computes it: over    *)
(* the places of the sequence, the last of them outermost.                 *)
Nesting(list, base, next, g) ==
    g = [s \in SUBSET DOMAIN list |->
            IF s = {} THEN base ELSE next[<<g[s \ {Max(s)}], list[Max(s)]>>]]

LEMMA NestingExists ==
    ASSUME NEW X, NEW list \in Seq(X), NEW A, NEW base, base \in A, NEW next, Closed(A, X, next)
    PROVE  \E g : /\ Nesting(list, base, next, g)
                  /\ \A s \in SUBSET DOMAIN list :
                        s # {} => g[s \ {Max(s)}] \in A /\ list[Max(s)] \in X
<1> DEFINE S == DOMAIN list
           pick == LastPlace(list)
           turn == [p \in A \X S |-> next[<<p[1], list[p[2]]>>]]
<1>1. /\ IsFiniteSet(S)
      /\ \A i \in S : list[i] \in X
      /\ \A s \in SUBSET S : s # {} => pick[s] \in s /\ Max(s) = pick[s]
    BY PlacesOf
<1>2. \A a \in A, i \in S : turn[<<a, i>>] = next[<<a, list[i]>>] /\ turn[<<a, i>>] \in A
    BY <1>1 DEF Closed
<1> HIDE DEF S, pick, turn
<1>3. \A s \in SUBSET S : s # {} => pick[s] \in s
    BY <1>1
<1>4. \A a \in A, x \in S : turn[<<a, x>>] \in A
    BY <1>2
<1>5. PICK g : Folding(S, base, turn, pick, g)
    BY <1>1, <1>3, FoldExists
<1>6. \A s \in SUBSET S : g[s] \in A
  <2>1. IsFiniteSet(S)
      BY <1>1
  <2>2. base \in A
      OBVIOUS
  <2> QED BY <1>3, <1>4, <1>5, <2>1, <2>2, FoldStays, Zenon
<1>7. ASSUME NEW s \in SUBSET S, s # {}
      PROVE  /\ g[s \ {Max(s)}] \in A /\ list[Max(s)] \in X
             /\ turn[<<g[s \ {pick[s]}], pick[s]>>] = next[<<g[s \ {Max(s)}], list[Max(s)]>>]
  <2>1. g[s \ {Max(s)}] \in A /\ Max(s) \in S /\ Max(s) = pick[s]
      BY <1>1, <1>6, <1>7
  <2>2. list[Max(s)] \in X
      BY <1>1, <2>1
  <2>3. turn[<<g[s \ {Max(s)}], Max(s)>>] = next[<<g[s \ {Max(s)}], list[Max(s)]>>]
      BY <1>2, <2>1
  <2> QED BY <2>1, <2>2, <2>3
<1>8. Nesting(list, base, next, g)
    BY <1>5, <1>7 DEF Folding, Nesting, S
<1> QED BY <1>7, <1>8 DEF S

(* What it gives, taking the elements one after another. *)
Taking(list, A, base, next, sofar) ==
    /\ sofar \in [0 .. Len(list) -> A]
    /\ sofar[0] = base
    /\ \A n \in 0 .. Len(list) - 1 : sofar[n + 1] = next[<<sofar[n], list[n + 1]>>]

Nested(list, X, A, base, next, g) ==
    /\ g[{}] = base
    /\ \A s \in SUBSET DOMAIN list :
           s # {} /\ g[s \ {Max(s)}] \in A /\ list[Max(s)] \in X
               => g[s] = next[<<g[s \ {Max(s)}], list[Max(s)]>>]

LEMMA NestingTakes ==
    ASSUME NEW X, NEW list \in Seq(X), NEW A, NEW base, base \in A, NEW next, Closed(A, X, next),
           NEW g, Nested(list, X, A, base, next, g)
    PROVE  \E sofar : /\ Taking(list, A, base, next, sofar)
                      /\ g[DOMAIN list] = sofar[Len(list)]
<1> DEFINE k == Len(list)
           S == DOMAIN list
           sofar == [n \in 0 .. k |-> g[1 .. n]]
           T == {n \in Nat : n \in 0 .. k => g[1 .. n] \in A}
<1>1. /\ S = 1 .. k /\ k \in Nat
      /\ \A i \in S : list[i] \in X
      /\ \A s \in SUBSET S : s # {} => Max(s) \in s /\ \A i \in s : i <= Max(s)
    BY PlacesOf
<1>2. ASSUME NEW n \in 0 .. k - 1, g[1 .. n] \in A
      PROVE  g[1 .. n + 1] = next[<<g[1 .. n], list[n + 1]>>] /\ list[n + 1] \in X
  <2> DEFINE s == 1 .. n + 1
  <2> HIDE DEF k, S
  <2>1. s \in SUBSET S /\ s # {} /\ n + 1 \in s /\ n + 1 \in S
    <3>1. S = 1 .. k /\ k \in Nat
        BY <1>1
    <3>2. n \in Nat /\ n + 1 <= k
        BY <3>1
    <3>3. n + 1 \in s /\ n + 1 \in S
        BY <3>1, <3>2
    <3>4. \A i \in s : i \in S
        BY <3>1, <3>2
    <3> QED BY <3>3, <3>4
  <2>2. Max(s) = n + 1
    <3>1. Max(s) \in s /\ n + 1 <= Max(s)
        BY <1>1, <2>1
    <3> QED BY <1>1, <3>1
  <2>3. s \ {n + 1} = 1 .. n
      BY <1>1
  <2>4. list[n + 1] \in X
      BY <1>1, <2>1
  <2> HIDE DEF s
  <2>5. g[s] = next[<<g[1 .. n], list[n + 1]>>]
      BY <1>2, <2>1, <2>2, <2>3, <2>4 DEF Nested, S
  <2> QED BY <2>4, <2>5 DEF s
<1>3. g[1 .. 0] = base /\ 0 \in T
  <2>1. 1 .. 0 = {}
      OBVIOUS
  <2> QED BY <2>1 DEF Nested
<1>4. ASSUME NEW n \in Nat, n \in T  PROVE n + 1 \in T
  <2> SUFFICES ASSUME n + 1 \in 0 .. k  PROVE g[1 .. n + 1] \in A
      BY <1>4
  <2>1. n \in 0 .. k - 1 /\ g[1 .. n] \in A
      BY <1>1, <1>4
  <2> HIDE DEF k, T
  <2>2. g[1 .. n + 1] = next[<<g[1 .. n], list[n + 1]>>] /\ list[n + 1] \in X
      BY <1>2, <2>1
  <2>3. next[<<g[1 .. n], list[n + 1]>>] \in A
      BY <2>1, <2>2 DEF Closed
  <2> QED BY <2>2, <2>3
<1>5. Nat \subseteq T
  <2> HIDE DEF T
  <2> QED BY <1>3, <1>4, NumberInduction
<1>6. \A n \in 0 .. k : g[1 .. n] \in A
    BY <1>1, <1>5
<1> HIDE DEF k, T
<1>7. sofar \in [0 .. k -> A] /\ sofar[0] = base /\ g[S] = sofar[k]
    BY <1>1, <1>3, <1>6
<1>8. \A n \in 0 .. k - 1 : sofar[n + 1] = next[<<sofar[n], list[n + 1]>>]
    BY <1>1, <1>2, <1>6
<1> HIDE DEF sofar
<1>9. Taking(list, A, base, next, sofar)
    BY <1>7, <1>8 DEF Taking, k
<1> QED BY <1>7, <1>9 DEF k, S
(* The roots of the hits are listed, each once. *)
RootsOf(list) == {RootOf[list[i].leaf] : i \in DOMAIN list}
Heard(seen, hit) ==
    IF RootOf[hit.leaf] \in ToSet(seen) THEN seen ELSE Append(seen, RootOf[hit.leaf])

LEMMA HeardOnce ==
    ASSUME NEW R, NEW seen \in Seq(R), NEW hit, RootOf[hit.leaf] \in R
    PROVE  /\ Heard(seen, hit) \in Seq(R)
           /\ ToSet(Heard(seen, hit)) = ToSet(seen) \cup {RootOf[hit.leaf]}
           /\ IsInjective(seen) => IsInjective(Heard(seen, hit))
<1> DEFINE root == RootOf[hit.leaf]
           more == Append(seen, root)
<1>1. CASE root \in ToSet(seen)
    BY <1>1 DEF Heard
<1>2. CASE root \notin ToSet(seen)
  <2>1. Heard(seen, hit) = more
      BY <1>2 DEF Heard
  <2> HIDE DEF root
  <2>2. /\ more \in Seq(R) /\ Len(more) = Len(seen) + 1 /\ Len(seen) \in Nat
        /\ DOMAIN seen = 1 .. Len(seen) /\ DOMAIN more = 1 .. Len(seen) + 1
        /\ \A i \in DOMAIN seen : more[i] = seen[i]
        /\ more[Len(seen) + 1] = root
      BY DEF root
  <2> HIDE DEF more
  <2>3. ToSet(more) = ToSet(seen) \cup {root}
    <3>1. \A i \in DOMAIN more : i \in DOMAIN seen \/ i = Len(seen) + 1
        BY <2>2
    <3>2. Len(seen) + 1 \in DOMAIN more /\ \A i \in DOMAIN seen : i \in DOMAIN more
        BY <2>2
    <3> QED BY <2>2, <3>1, <3>2 DEF ToSet
  <2>4. ASSUME IsInjective(seen), NEW i \in DOMAIN more, NEW j \in DOMAIN more,
               more[i] = more[j]
        PROVE  i = j
    <3>1. \A n \in DOMAIN seen : seen[n] # root
        BY <1>2 DEF ToSet
    <3>2. \A n \in DOMAIN more : n \in DOMAIN seen \/ n = Len(seen) + 1
        BY <2>2
    <3> QED BY <2>2, <2>4, <3>1, <3>2 DEF IsInjective
  <2> QED BY <2>1, <2>2, <2>3, <2>4 DEF IsInjective, root
<1> QED BY <1>1, <1>2

LEMMA RootsAreOnce ==
    ASSUME NEW A, NEW list \in Seq(A)
    PROVE  /\ RootsInOrder(list) \in Seq(RootsOf(list))
           /\ ToSet(RootsInOrder(list)) = RootsOf(list)
           /\ IsInjective(RootsInOrder(list))
<1> DEFINE
      S == DOMAIN list
      X == {list[i] : i \in S}
      R == RootsOf(list)
      B == Seq(R)
      base == <<>>
      Op(seen, hit) == Heard(seen, hit)
      next == [p \in B \X X |-> Op(p[1], p[2])]
      F(f) == f = [s \in SUBSET S |-> IF s = {} THEN base
                                      ELSE Op(f[s \ {Max(s)}], list[Max(s)])]
      g == CHOOSE f : F(f)
<1>1. RootsInOrder(list) = g[S]
    BY DEF RootsInOrder, FoldLeft, MapThenFoldSet, Heard
<1>2. base \in B /\ list \in Seq(X)
    OBVIOUS
<1>3. \A x \in X : RootOf[x.leaf] \in R
    BY DEF RootsOf
<1> HIDE DEF B, X
<1>4. \A a \in B, x \in X : next[<<a, x>>] = Op(a, x) /\ Op(a, x) \in B
  <2>1. \A a \in B, x \in X : Op(a, x) \in B
    <3> HIDE DEF R
    <3> QED BY <1>3, HeardOnce DEF B
  <2> HIDE DEF Op
  <2> QED BY <2>1
<1> HIDE DEF Op, next
<1>5. Closed(B, X, next)
    BY <1>4 DEF Closed
<1>6. PICK f : /\ Nesting(list, base, next, f)
               /\ \A s \in SUBSET DOMAIN list :
                     s # {} => f[s \ {Max(s)}] \in B /\ list[Max(s)] \in X
  <2> HIDE DEF base, S
  <2> QED BY <1>2, <1>5, NestingExists
<1>7. F(f)
  <2>1. \A s \in SUBSET S : s # {} =>
            next[<<f[s \ {Max(s)}], list[Max(s)]>>] = Op(f[s \ {Max(s)}], list[Max(s)])
      BY <1>4, <1>6
  <2> QED BY <1>6, <2>1 DEF Nesting
<1> HIDE DEF F
<1>8. F(g)
    BY <1>7
<1> HIDE DEF g
<1>9. Nested(list, X, B, base, next, g)
    BY <1>4, <1>8 DEF Nested, F
<1>10. PICK sofar : /\ Taking(list, B, base, next, sofar)
                    /\ g[DOMAIN list] = sofar[Len(list)]
  <2> HIDE DEF base, S
  <2> QED BY <1>2, <1>5, <1>9, NestingTakes
<1> DEFINE k == Len(list)
           seen(n) == {RootOf[list[i].leaf] : i \in 1 .. n}
           T == {n \in Nat : n \in 0 .. k => ToSet(sofar[n]) = seen(n) /\ IsInjective(sofar[n])}
<1>11. k \in Nat /\ S = 1 .. k /\ \A i \in 1 .. k : list[i] \in X
    BY <1>2
<1>12. /\ sofar[0] = <<>>
       /\ \A n \in 0 .. k : sofar[n] \in B
       /\ \A n \in 0 .. k - 1 : sofar[n + 1] = next[<<sofar[n], list[n + 1]>>]
    BY <1>10 DEF Taking
<1> HIDE DEF k, S
<1>13. 0 \in T
    BY <1>11, <1>12 DEF ToSet, IsInjective
<1>14. ASSUME NEW n \in Nat, n \in T  PROVE n + 1 \in T
  <2> SUFFICES ASSUME n + 1 \in 0 .. k
               PROVE  ToSet(sofar[n + 1]) = seen(n + 1) /\ IsInjective(sofar[n + 1])
      OBVIOUS
  <2>1. n \in 0 .. k - 1 /\ n \in 0 .. k /\ n + 1 \in 1 .. k
      BY <1>11
  <2>2. ToSet(sofar[n]) = seen(n) /\ IsInjective(sofar[n]) /\ sofar[n] \in B
      BY <1>12, <1>14, <2>1
  <2>3. sofar[n + 1] = Heard(sofar[n], list[n + 1]) /\ list[n + 1] \in X
      BY <1>4, <1>11, <1>12, <2>1 DEF Op
  <2>4. seen(n + 1) = seen(n) \cup {RootOf[list[n + 1].leaf]}
      BY <2>1
  <2> HIDE DEF seen, T, R
  <2>5. RootOf[list[n + 1].leaf] \in R /\ sofar[n] \in Seq(R)
      BY <1>3, <2>2, <2>3 DEF B
  <2>6. /\ ToSet(Heard(sofar[n], list[n + 1])) = ToSet(sofar[n]) \cup {RootOf[list[n + 1].leaf]}
        /\ IsInjective(Heard(sofar[n], list[n + 1]))
      BY <2>2, <2>5, HeardOnce
  <2> QED BY <2>2, <2>3, <2>4, <2>6
<1>15. Nat \subseteq T
  <2> HIDE DEF T
  <2> QED BY <1>13, <1>14, NumberInduction
<1>16. k \in T /\ k \in 0 .. k
    BY <1>11, <1>15
<1>17. seen(k) = R
    BY <1>11 DEF S, RootsOf
<1>18. RootsInOrder(list) = sofar[k]
    BY <1>1, <1>10 DEF k, S
<1> QED BY <1>12, <1>16, <1>17, <1>18 DEF B
-----------------------------------------------------------------------------
(* The elements of a finite set in a strict order. *)
Listing(S, R) ==
    [n \in 1 .. Cardinality(S) |-> CHOOSE x \in S : Cardinality(Lower(S, R, x)) = n - 1]

LEMMA ListingInOrder ==
    ASSUME NEW S, IsFiniteSet(S), NEW R, Ordering(S, R)
    PROVE  /\ Listing(S, R) \in [1 .. Cardinality(S) -> S] /\ Cardinality(S) \in Nat
           /\ \A x \in S : \E n \in 1 .. Cardinality(S) : Listing(S, R)[n] = x
           /\ \A m, n \in 1 .. Cardinality(S) :
                  m < n <=> <<Listing(S, R)[m], Listing(S, R)[n]>> \in R
           /\ \A n \in 1 .. Cardinality(S) :
                  Cardinality(Lower(S, R, Listing(S, R)[n])) = n - 1
<1> DEFINE k == Cardinality(S)
           list == Listing(S, R)
           place(x) == Cardinality(Lower(S, R, x))
<1>1. k \in Nat
    BY FS_CardinalityType
<1>2. /\ \A x \in S : place(x) \in 0 .. k - 1
      /\ \A x, y \in S : <<x, y>> \in R => place(x) < place(y)
      /\ \A n \in 0 .. k - 1 : \E x \in S : place(x) = n
    BY PlacesAreTaken
<1> HIDE DEF k, place
<1>3. ASSUME NEW n \in 1 .. k  PROVE list[n] \in S /\ place(list[n]) = n - 1
  <2>1. n - 1 \in 0 .. k - 1
      BY <1>1
  <2>2. \E x \in S : place(x) = n - 1
      BY <1>2, <2>1
  <2>3. list[n] = CHOOSE x \in S : place(x) = n - 1
      BY DEF Listing, k, place
  <2> HIDE DEF list
  <2> QED BY <2>2, <2>3
<1>4. list \in [1 .. k -> S]
    BY <1>3 DEF Listing, k
<1> HIDE DEF list
<1>5. \A x, y \in S : place(x) = place(y) => x = y
  <2> SUFFICES ASSUME NEW x \in S, NEW y \in S, place(x) = place(y), x # y  PROVE FALSE
      OBVIOUS
  <2>1. <<x, y>> \in R \/ <<y, x>> \in R
      BY DEF Ordering
  <2>2. place(x) \in Int /\ place(y) \in Int
      BY <1>1, <1>2
  <2> QED BY <1>2, <2>1, <2>2
<1>6. ASSUME NEW x \in S  PROVE \E n \in 1 .. k : list[n] = x
  <2>1. place(x) + 1 \in 1 .. k /\ (place(x) + 1) - 1 = place(x)
      BY <1>1, <1>2
  <2>2. list[place(x) + 1] \in S /\ place(list[place(x) + 1]) = place(x)
      BY <1>3, <2>1
  <2>3. list[place(x) + 1] = x
      BY <1>5, <2>2
  <2> QED BY <2>1, <2>3
<1>7. ASSUME NEW m \in 1 .. k, NEW n \in 1 .. k
      PROVE  m < n <=> <<list[m], list[n]>> \in R
  <2>1. /\ list[m] \in S /\ list[n] \in S
        /\ place(list[m]) = m - 1 /\ place(list[n]) = n - 1
      BY <1>3
  <2>2. m \in Int /\ n \in Int
      BY <1>1
  <2>3. <<list[m], list[n]>> \in R => m < n
      BY <1>2, <2>1, <2>2
  <2>4. <<list[n], list[m]>> \in R => n < m
      BY <1>2, <2>1, <2>2
  <2>5. m # n => list[m] # list[n]
      BY <2>1, <2>2
  <2>6. list[m] # list[n] => <<list[m], list[n]>> \in R \/ <<list[n], list[m]>> \in R
      BY <2>1 DEF Ordering
  <2> QED BY <2>2, <2>3, <2>4, <2>5, <2>6
<1> QED BY <1>1, <1>3, <1>4, <1>6, <1>7 DEF k, list, place

(* Some of the hits of a list, in the order of the list. *)
Sublist(part, list, order, places) ==
    /\ order \in [DOMAIN part -> places]
    /\ \A n \in DOMAIN part : part[n] = list[order[n]]
    /\ \A m, n \in DOMAIN part : m < n <=> order[m] < order[n]
    /\ \A i \in places : \E n \in DOMAIN part : order[n] = i

LEMMA HitsInOrder ==
    ASSUME NEW A, NEW list \in Seq(A), NEW places \in SUBSET DOMAIN list
    PROVE  /\ HitsAt(list, places) \in Seq(A)
           /\ DOMAIN HitsAt(list, places) = 1 .. Cardinality(places)
           /\ Cardinality(places) \in Nat
           /\ \E order : Sublist(HitsAt(list, places), list, order, places)
<1> DEFINE R == {p \in places \X places : p[1] < p[2]}
           k == Cardinality(places)
           order == Listing(places, R)
<1>1. /\ IsFiniteSet(places) /\ places \subseteq Nat
      /\ \A i \in places : list[i] \in A
  <2>1. IsFiniteSet(DOMAIN list) /\ DOMAIN list \subseteq Nat /\ \A i \in DOMAIN list : list[i] \in A
      BY PlacesOf
  <2> QED BY <2>1, FS_Subset
<1>2. Ordering(places, R)
    BY <1>1 DEF Ordering
<1>3. \A x \in places : Lower(places, R, x) = {y \in places : y < x}
    BY DEF Lower
<1>4. \A m, n \in 1 .. k : <<order[m], order[n]>> \in R => order[m] < order[n]
    OBVIOUS
<1>5. \A x, y \in places : x < y => <<x, y>> \in R
    OBVIOUS
<1> HIDE DEF R
<1>6. /\ order \in [1 .. k -> places] /\ k \in Nat
      /\ \A x \in places : \E n \in 1 .. k : order[n] = x
      /\ \A m, n \in 1 .. k : m < n <=> <<order[m], order[n]>> \in R
    BY <1>1, <1>2, ListingInOrder
<1>7. InOrder(places, LAMBDA i, j : i < j) = order
  <2>1. InOrder(places, LAMBDA i, j : i < j)
            = [n \in 1 .. Cardinality(places) |->
                  CHOOSE x \in places : Cardinality({y \in places : y < x}) = n - 1]
      BY Zenon DEF InOrder
  <2>2. \A n : \A x \in places :
            Cardinality({y \in places : y < x}) = n - 1
                <=> Cardinality(Lower(places, R, x)) = n - 1
      BY <1>3
  <2>3. \A n : (CHOOSE x \in places : Cardinality({y \in places : y < x}) = n - 1)
                = (CHOOSE x \in places : Cardinality(Lower(places, R, x)) = n - 1)
      BY <2>2
  <2> QED BY <2>1, <2>3 DEF Listing
<1>8. HitsAt(list, places) = [n \in 1 .. k |-> list[order[n]]]
    BY <1>6, <1>7 DEF HitsAt
<1> HIDE DEF order, k
<1>9. HitsAt(list, places) \in Seq(A)
  <2>1. \A n \in 1 .. k : list[order[n]] \in A
      BY <1>1, <1>6
  <2> QED BY <1>6, <1>8, <2>1
<1>10. DOMAIN HitsAt(list, places) = 1 .. k
    BY <1>8
<1>11. Sublist(HitsAt(list, places), list, order, places)
  <2>1. \A m, n \in 1 .. k : m < n <=> order[m] < order[n]
      BY <1>4, <1>5, <1>6
  <2> QED BY <1>6, <1>8, <1>10, <2>1 DEF Sublist
<1> QED BY <1>6, <1>9, <1>10, <1>11 DEF k

-----------------------------------------------------------------------------
(* Sums of natural numbers over a finite set. *)
Total(w, S) == MapThenSumSet(LAMBDA x : w[x], S)
Pick(s) == CHOOSE x \in s : TRUE
Summing(w, S, f) ==
    f = [s \in SUBSET S |-> IF s = {} THEN 0 ELSE w[Pick(s)] + f[s \ {Pick(s)}]]

LEMMA SumsExist ==
    ASSUME NEW S, IsFiniteSet(S), NEW w, \A x \in S : w[x] \in Nat
    PROVE  \E f : Summing(w, S, f) /\ \A s \in SUBSET S : f[s] \in Nat
<1> DEFINE next == [p \in Nat \X S |-> w[p[2]] + p[1]]
           pick == [s \in SUBSET S |-> Pick(s)]
<1>1. \A s \in SUBSET S : s # {} => pick[s] \in s /\ pick[s] = Pick(s)
    BY DEF Pick
<1>2. \A a \in Nat, x \in S : next[<<a, x>>] = w[x] + a /\ next[<<a, x>>] \in Nat
    OBVIOUS
<1> HIDE DEF next, pick
<1>3. PICK f : Folding(S, 0, next, pick, f)
    BY <1>1, FoldExists
<1>4. \A s \in SUBSET S : f[s] \in Nat
  <2>1. \A s \in SUBSET S : s # {} => pick[s] \in s
      BY <1>1
  <2>2. \A a \in Nat, x \in S : next[<<a, x>>] \in Nat
      BY <1>2
  <2>3. 0 \in Nat
      OBVIOUS
  <2> QED BY <1>3, <2>1, <2>2, <2>3, FoldStays, Zenon
<1>5. Summing(w, S, f)
  <2>1. ASSUME NEW s \in SUBSET S, s # {}
        PROVE  next[<<f[s \ {pick[s]}], pick[s]>>] = w[Pick(s)] + f[s \ {Pick(s)}]
      BY <1>1, <1>2, <1>4, <2>1
  <2> QED BY <1>3, <2>1 DEF Folding, Summing
<1> QED BY <1>4, <1>5

(* The sum over a set takes the elements one after another. *)
LEMMA SumUnfolds ==
    ASSUME NEW S, IsFiniteSet(S), NEW w, \A x \in S : w[x] \in Nat
    PROVE  \A s \in SUBSET S :
               /\ Total(w, s) \in Nat
               /\ Total(w, s) = IF s = {} THEN 0 ELSE w[Pick(s)] + Total(w, s \ {Pick(s)})
<1>1. PICK f : Summing(w, S, f) /\ \A s \in SUBSET S : f[s] \in Nat
    BY SumsExist
<1>2. \A s \in SUBSET S : f[s] = IF s = {} THEN 0 ELSE w[Pick(s)] + f[s \ {Pick(s)}]
    BY <1>1 DEF Summing
<1>3. ASSUME NEW s \in SUBSET S  PROVE Total(w, s) = f[s]
  <2> DEFINE g == CHOOSE g : Summing(w, s, g)
             T == {t \in SUBSET s : g[t] = f[t]}
  <2>1. Total(w, s) = g[s]
      BY Zenon DEF Total, MapThenSumSet, MapThenFoldSet, Summing, Pick
  <2>2. IsFiniteSet(s) /\ \A x \in s : w[x] \in Nat
      BY FS_Subset
  <2>3. Summing(w, s, g)
      BY <2>2, SumsExist
  <2> HIDE DEF g
  <2>4. \A t \in SUBSET s : g[t] = IF t = {} THEN 0 ELSE w[Pick(t)] + g[t \ {Pick(t)}]
      BY <2>3 DEF Summing
  <2>5. {} \in T
      BY <1>2, <2>4
  <2>6. \A t \in SUBSET s : t # {} => \E x \in t : t \ {x} \in T => t \in T
    <3> SUFFICES ASSUME NEW t \in SUBSET s, t # {}
                 PROVE  Pick(t) \in t /\ (t \ {Pick(t)} \in T => t \in T)
        OBVIOUS
    <3>1. Pick(t) \in t
        BY DEF Pick
    <3> QED BY <1>2, <2>4, <3>1
  <2>7. SUBSET s \subseteq T
    <3> HIDE DEF T
    <3> QED BY <2>2, <2>5, <2>6, SubsetInduction
  <2> QED BY <2>1, <2>7
<1>4. ASSUME NEW s \in SUBSET S, s # {}  PROVE s \ {Pick(s)} \in SUBSET S
    OBVIOUS
<1> QED BY <1>1, <1>2, <1>3, <1>4

(* ... in any order. *)
LEMMA SumTakes ==
    ASSUME NEW S, IsFiniteSet(S), NEW w, \A x \in S : w[x] \in Nat
    PROVE  \A s \in SUBSET S :
               /\ Total(w, s) \in Nat
               /\ \A x \in s : Total(w, s) = w[x] + Total(w, s \ {x})
<1> DEFINE Good(s) == \A x \in s : Total(w, s) = w[x] + Total(w, s \ {x})
           T == {n \in Nat : \A s \in SUBSET S : Cardinality(s) = n => Good(s)}
<1>1. \A s \in SUBSET S :
          /\ Total(w, s) \in Nat
          /\ Total(w, s) = IF s = {} THEN 0 ELSE w[Pick(s)] + Total(w, s \ {Pick(s)})
    BY SumUnfolds
<1>2. \A s \in SUBSET S :
          /\ Cardinality(s) \in Nat /\ (Cardinality(s) = 0 <=> s = {})
          /\ \A x \in s : Cardinality(s \ {x}) = Cardinality(s) - 1
    BY FS_Subset, FS_CardinalityType, FS_EmptySet, FS_RemoveElement
<1>3. 0 \in T
    BY <1>2
<1>4. ASSUME NEW n \in Nat, n \in T  PROVE n + 1 \in T
  <2>1. ASSUME NEW s \in SUBSET S, Cardinality(s) = n + 1, NEW x \in s, x # Pick(s)
        PROVE  Total(w, s) = w[x] + Total(w, s \ {x})
    <3> DEFINE p == Pick(s)
    <3>1. p \in s
        BY DEF Pick
    <3> HIDE DEF p
    <3>2. /\ s \ {x} \in SUBSET S /\ Cardinality(s \ {x}) = n
          /\ s \ {p} \in SUBSET S /\ Cardinality(s \ {p}) = n
      <4>1. (n + 1) - 1 = n
          OBVIOUS
      <4> QED BY <1>2, <2>1, <3>1, <4>1
    <3>3. Good(s \ {x}) /\ Good(s \ {p})
      <4> HIDE DEF Good
      <4> QED BY <1>4, <3>2
    <3>4. /\ Total(w, s) = w[p] + Total(w, s \ {p})
          /\ Total(w, s \ {p}) = w[x] + Total(w, (s \ {p}) \ {x})
          /\ Total(w, s \ {x}) = w[p] + Total(w, (s \ {x}) \ {p})
        BY <1>1, <2>1, <3>1, <3>3 DEF p
    <3>5. (s \ {p}) \ {x} = (s \ {x}) \ {p} /\ (s \ {p}) \ {x} \in SUBSET S
        OBVIOUS
    <3> DEFINE rest == Total(w, (s \ {p}) \ {x})
    <3>6. rest \in Nat /\ w[p] \in Nat /\ w[x] \in Nat
        BY <1>1, <3>1, <3>5
    <3>7. /\ Total(w, s) = w[p] + (w[x] + rest)
          /\ Total(w, s \ {x}) = w[p] + rest
        BY <3>4, <3>5
    <3> HIDE DEF rest
    <3> QED BY <3>6, <3>7
  <2>2. ASSUME NEW s \in SUBSET S, s # {}  PROVE Total(w, s) = w[Pick(s)] + Total(w, s \ {Pick(s)})
      BY <1>1, <2>2
  <2> QED BY <2>1, <2>2
<1>5. Nat \subseteq T
  <2> HIDE DEF T
  <2> QED BY <1>3, <1>4, NumberInduction
<1> QED BY <1>1, <1>2, <1>5

(* Sums of the same numbers are the same. *)
LEMMA SumAgrees ==
    ASSUME NEW S, IsFiniteSet(S), NEW v, NEW w, \A x \in S : v[x] \in Nat /\ w[x] = v[x]
    PROVE  Total(v, S) = Total(w, S)
<1> DEFINE T == {s \in SUBSET S : Total(v, s) = Total(w, s)}
<1>1. \A s \in SUBSET S : /\ Total(v, s) = IF s = {} THEN 0 ELSE v[Pick(s)] + Total(v, s \ {Pick(s)})
                          /\ Total(w, s) = IF s = {} THEN 0 ELSE w[Pick(s)] + Total(w, s \ {Pick(s)})
    BY SumUnfolds
<1>2. {} \in T
    BY <1>1
<1>3. \A s \in SUBSET S : s # {} => \E x \in s : s \ {x} \in T => s \in T
  <2> SUFFICES ASSUME NEW s \in SUBSET S, s # {}, s \ {Pick(s)} \in T
               PROVE  s \in T
      BY DEF Pick
  <2>1. Pick(s) \in s
      BY DEF Pick
  <2> QED BY <1>1, <2>1
<1>4. SUBSET S \subseteq T
  <2> HIDE DEF T
  <2> QED BY <1>2, <1>3, SubsetInduction
<1> QED BY <1>4

(* The sum over the places of a sequence takes what is appended. *)
LEMMA SumAppends ==
    ASSUME NEW n \in Nat, NEW v, NEW w, \A i \in 1 .. n : v[i] \in Nat /\ w[i] = v[i],
           w[n + 1] \in Nat
    PROVE  /\ Total(v, 1 .. n) \in Nat
           /\ Total(w, 1 .. n + 1) = Total(v, 1 .. n) + w[n + 1]
<1>1. IsFiniteSet(1 .. n) /\ IsFiniteSet(1 .. n + 1)
    BY FS_Interval
<1>2. Total(v, 1 .. n) \in Nat
    BY <1>1, SumUnfolds
<1>3. Total(v, 1 .. n) = Total(w, 1 .. n)
    BY <1>1, SumAgrees
<1> DEFINE S == 1 .. n + 1
<1>4. \A i \in S : w[i] \in Nat
  <2>1. \A i \in S : i \in 1 .. n \/ i = n + 1
      OBVIOUS
  <2> QED BY <2>1
<1>5. n + 1 \in S /\ S \ {n + 1} = 1 .. n
    OBVIOUS
<1> HIDE DEF S
<1>6. Total(w, S) = w[n + 1] + Total(w, S \ {n + 1})
  <2>1. IsFiniteSet(S) /\ S \in SUBSET S
      BY <1>1 DEF S
  <2> QED BY <1>4, <1>5, <2>1, SumTakes
<1>7. Total(w, S) = w[n + 1] + Total(v, 1 .. n)
    BY <1>3, <1>5, <1>6
<1>8. w[n + 1] \in Nat
    OBVIOUS
<1>9. Total(w, 1 .. n + 1) = w[n + 1] + Total(v, 1 .. n)
    BY <1>7 DEF S
<1> QED BY <1>2, <1>8, <1>9

-----------------------------------------------------------------------------
(* Restoring. *)
LEMMA LengthsAreNumbers ==
    ASSUME NEW list, NEW root, NEW loaded \in SUBSET Leaves
    PROVE  ContextLength(list, root, loaded) \in Nat
<1> DEFINE mine == ToSet(LeavesOf(list, root)) \cap loaded
           whole == {leaf \in Leaves : RootOf[leaf] = root}
           chosen == IF mine = {} THEN whole ELSE mine
<1>1. chosen \in SUBSET Leaves
    OBVIOUS
<1>2. ContextLength(list, root, loaded) = Total(TextLength, chosen)
    BY Zenon DEF ContextLength, Total
<1> HIDE DEF chosen
<1>3. \A leaf \in Leaves : TextLength[leaf] \in Nat
    BY LeavesAssumption
<1>4. IsFiniteSet(Leaves)
    BY LeavesAssumption
<1>5. \A s \in SUBSET Leaves : Total(TextLength, s) \in Nat
    BY <1>3, <1>4, SumUnfolds
<1> QED BY <1>1, <1>2, <1>5

(* The roots restored share the budget. *)
BestOf(list, root) ==
    Max({list[i].score : i \in {k \in DOMAIN list : RootOf[list[k].leaf] = root}})

Pieces(list, stored) ==
    [root : stored, leaves : {LeavesOf(list, root) : root \in stored},
     score : {BestOf(list, root) : root \in stored}, length : Nat, truncated : BOOLEAN]

Lengths(pieces) == [i \in DOMAIN pieces |-> pieces[i].length]

Sharing(pieces, used) ==
    /\ used \in Nat /\ used <= MaxParentChars
    /\ used = Total(Lengths(pieces), DOMAIN pieces)
    /\ \A i \in DOMAIN pieces :
           pieces[i].truncated => i = Len(pieces) /\ used = MaxParentChars

HasRoot(pieces, root) == \E i \in DOMAIN pieces : pieces[i].root = root

LEMMA PiecesAre ==
    ASSUME NEW list, NEW stored, NEW pieces \in Seq(Pieces(list, stored)),
           NEW i \in DOMAIN pieces
    PROVE  /\ pieces[i].root \in stored /\ pieces[i].length \in Nat
           /\ pieces[i].truncated \in BOOLEAN
<1> DEFINE L == {LeavesOf(list, r) : r \in stored}
           B == {BestOf(list, r) : r \in stored}
<1>1. pieces[i] \in Pieces(list, stored)
    OBVIOUS
<1>2. pieces[i] \in [root : stored, leaves : L, score : B, length : Nat, truncated : BOOLEAN]
    BY <1>1 DEF Pieces
<1> HIDE DEF L, B
<1> QED BY <1>2

(* One root more, where it is stored and the budget is not used up. *)
Shared(list, stored, root, pieces, used, more, sum) ==
    /\ more \in Seq(Pieces(list, stored))
    /\ Sharing(more, sum)
    /\ used = MaxParentChars => sum = MaxParentChars
    /\ \A other : HasRoot(pieces, other) => HasRoot(more, other)
    /\ root \in stored => sum = MaxParentChars \/ HasRoot(more, root)

LEMMA StepShares ==
    ASSUME NEW list, NEW loaded \in SUBSET Leaves, NEW stored, NEW root,
           NEW pieces, pieces \in Seq(Pieces(list, stored)), NEW used, Sharing(pieces, used)
    PROVE  \E more, sum :
               /\ RestoreStep(list, loaded, stored, [used |-> used, roots |-> pieces], root)
                      = [used |-> sum, roots |-> more]
               /\ Shared(list, stored, root, pieces, used, more, sum)
<1> DEFINE before == [used |-> used, roots |-> pieces]
           remaining == MaxParentChars - used
           length == ContextLength(list, root, loaded)
           least == Min({length, remaining})
           cut == length > remaining
           piece == [root |-> root, leaves |-> LeavesOf(list, root),
                     score |-> BestOf(list, root), length |-> least, truncated |-> cut]
           more == Append(pieces, piece)
           sum == used + least
<1>1. length \in Nat /\ MaxParentChars \in Nat /\ used \in Nat /\ used <= MaxParentChars
    BY LengthsAreNumbers, LimitsAssumption DEF Sharing
<1>2. CASE root \notin stored \/ remaining <= 0
  <2>1. RestoreStep(list, loaded, stored, before, root) = before
      BY <1>2 DEF RestoreStep
  <2>2. root \in stored => used = MaxParentChars
      BY <1>1, <1>2
  <2>3. Shared(list, stored, root, pieces, used, pieces, used)
      BY <2>2 DEF Shared
  <2> QED BY <2>1, <2>3
<1>3. CASE root \in stored /\ ~(remaining <= 0)
  <2>1. RestoreStep(list, loaded, stored, before, root) = [used |-> sum, roots |-> more]
      BY <1>3 DEF RestoreStep, BestOf
  <2>2. /\ least \in Nat /\ least <= remaining
        /\ cut \in BOOLEAN /\ cut => least = remaining
    <3>1. remaining \in Nat
        BY <1>1, <1>3
    <3> HIDE DEF length, remaining
    <3> QED BY <1>1, <3>1, LesserOfTwo
  <2>t. PICK t \in BOOLEAN : t = cut
    <3>1. cut = TRUE \/ cut = FALSE
      <4> HIDE DEF length, remaining
      <4> QED BY <1>1
    <3> QED BY <3>1
  <2> HIDE DEF least, cut
  <2>3. piece \in Pieces(list, stored)
    <3> DEFINE L == {LeavesOf(list, r) : r \in stored}
               B == {BestOf(list, r) : r \in stored}
    <3>1. LeavesOf(list, root) \in L /\ BestOf(list, root) \in B
        BY <1>3
    <3> HIDE DEF L, B
    <3>2. piece \in [root : stored, leaves : L, score : B, length : Nat, truncated : BOOLEAN]
      <4>2. piece = [root |-> root, leaves |-> LeavesOf(list, root),
                     score |-> BestOf(list, root), length |-> least, truncated |-> t]
          BY <2>t, Zenon
      <4> HIDE DEF piece
      <4> QED BY <1>3, <2>2, <2>t, <3>1, <4>2
    <3> QED BY <3>2 DEF Pieces, L, B
  <2>4. /\ piece.length = least /\ piece.root = root /\ piece.truncated = cut
      OBVIOUS
  <2> HIDE DEF piece
  <2>5. /\ more \in Seq(Pieces(list, stored)) /\ Len(pieces) \in Nat
        /\ DOMAIN pieces = 1 .. Len(pieces) /\ DOMAIN more = 1 .. Len(pieces) + 1
        /\ Len(more) = Len(pieces) + 1
        /\ \A i \in DOMAIN pieces : more[i] = pieces[i]
        /\ more[Len(pieces) + 1] = piece
      BY <2>3
  <2>6. \A i \in DOMAIN pieces : pieces[i].length \in Nat
      BY PiecesAre
  <2> HIDE DEF more
  <2> DEFINE n == Len(pieces)
             v == Lengths(pieces)
             w == Lengths(more)
  <2>7. /\ \A i \in 1 .. n : v[i] \in Nat /\ w[i] = v[i]
        /\ w[n + 1] = least
      BY <2>4, <2>5, <2>6 DEF Lengths
  <2>8. n \in Nat
      BY <2>5
  <2> HIDE DEF n, v, w
  <2>9. Total(w, 1 .. n + 1) = Total(v, 1 .. n) + least
      BY <2>2, <2>7, <2>8, SumAppends
  <2>10. sum = Total(Lengths(more), DOMAIN more)
      BY <2>5, <2>9 DEF Sharing, n, v, w
  <2>11. cut => sum = MaxParentChars
      BY <1>1, <2>2
  <2>12. \A i \in DOMAIN pieces : ~pieces[i].truncated
      BY <1>1, <1>3 DEF Sharing
  <2>13. \A i \in DOMAIN more : more[i].truncated => i = Len(more) /\ sum = MaxParentChars
    <3>1. \A i \in DOMAIN more : i \in DOMAIN pieces \/ i = Len(pieces) + 1
        BY <2>5
    <3> HIDE DEF sum
    <3> QED BY <2>4, <2>5, <2>11, <2>12, <3>1
  <2> HIDE DEF sum
  <2>14. sum \in Nat /\ sum <= MaxParentChars
      BY <1>1, <2>2 DEF sum
  <2>15. Sharing(more, sum)
      BY <2>10, <2>13, <2>14 DEF Sharing
  <2>16. used = MaxParentChars => sum = MaxParentChars
      BY <1>1, <1>3
  <2>17. \A other : HasRoot(pieces, other) => HasRoot(more, other)
      BY <2>5 DEF HasRoot
  <2>18. HasRoot(more, root)
    <3>1. Len(pieces) + 1 \in DOMAIN more
        BY <2>5
    <3> QED BY <2>4, <2>5, <3>1 DEF HasRoot
  <2>19. Shared(list, stored, root, pieces, used, more, sum)
      BY <2>5, <2>15, <2>16, <2>17, <2>18 DEF Shared
  <2> QED BY <2>1, <2>19
<1> QED BY <1>2, <1>3
(* The roots of the hits, restored one after another. *)
LEMMA RestoringShares ==
    ASSUME NEW B, NEW list \in Seq(B), NEW loaded \in SUBSET Leaves, NEW stored
    PROVE  \E used :
               /\ Restore(list, loaded, stored) \in Seq(Pieces(list, stored))
               /\ Sharing(Restore(list, loaded, stored), used)
               /\ \A root \in stored \cap RootsOf(list) :
                      used = MaxParentChars \/ HasRoot(Restore(list, loaded, stored), root)
<1> DEFINE
      listed == RootsInOrder(list)
      S == DOMAIN listed
      X == RootsOf(list)
      A == {a \in [used : Nat, roots : Seq(Pieces(list, stored))] : Sharing(a.roots, a.used)}
      base == [used |-> 0, roots |-> <<>>]
      Op(a, root) == RestoreStep(list, loaded, stored, a, root)
      next == [p \in A \X X |-> Op(p[1], p[2])]
      F(f) == f = [s \in SUBSET S |-> IF s = {} THEN base
                                      ELSE Op(f[s \ {Max(s)}], listed[Max(s)])]
      g == CHOOSE f : F(f)
<1>1. Restore(list, loaded, stored) = g[S].roots
    BY DEF Restore, FoldLeft, MapThenFoldSet
<1>2. listed \in Seq(X) /\ ToSet(listed) = X
    BY RootsAreOnce
<1>3. base \in A
  <2>1. Total(Lengths(<<>>), DOMAIN <<>>) = 0
    <3>1. DOMAIN <<>> = {}
        OBVIOUS
    <3> DEFINE w == Lengths(<<>>)
    <3> HIDE DEF w
    <3>2. Total(w, {}) = 0
        BY SumUnfolds, FS_EmptySet
    <3> QED BY <3>1, <3>2 DEF w
  <2>2. 0 <= MaxParentChars
      BY LimitsAssumption
  <2>3. Sharing(<<>>, 0)
      BY <2>1, <2>2 DEF Sharing
  <2> DEFINE P == Seq(Pieces(list, stored))
  <2>4. <<>> \in P
      OBVIOUS
  <2> HIDE DEF P
  <2>5. base \in [used : Nat, roots : P]
      BY <2>4
  <2> QED BY <2>3, <2>5 DEF P
<1>4. ASSUME NEW a \in A, NEW root \in X
      PROVE  /\ Op(a, root) \in A
             /\ a.used = MaxParentChars => Op(a, root).used = MaxParentChars
             /\ \A other : HasRoot(a.roots, other) => HasRoot(Op(a, root).roots, other)
             /\ root \in stored => \/ Op(a, root).used = MaxParentChars
                                   \/ HasRoot(Op(a, root).roots, root)
  <2> DEFINE P == Seq(Pieces(list, stored))
             pieces == a.roots
             used == a.used
  <2>1. a = [used |-> used, roots |-> pieces] /\ pieces \in P /\ Sharing(pieces, used)
      OBVIOUS
  <2> HIDE DEF A, pieces, used, X
  <2>2. pieces \in Seq(Pieces(list, stored)) /\ Sharing(pieces, used)
      BY <2>1
  <2>3. PICK more, sum :
               /\ RestoreStep(list, loaded, stored, [used |-> used, roots |-> pieces], root)
                      = [used |-> sum, roots |-> more]
               /\ Shared(list, stored, root, pieces, used, more, sum)
      BY <2>2, StepShares, Zenon
  <2>4. Op(a, root) = [used |-> sum, roots |-> more]
      BY <2>1, <2>3
  <2> HIDE DEF Op
  <2>5. Op(a, root).used = sum /\ Op(a, root).roots = more
      BY <2>4
  <2>6. Op(a, root) \in A
    <3>1. sum \in Nat /\ more \in P /\ Sharing(more, sum)
        BY <2>3 DEF Shared, Sharing
    <3> HIDE DEF P
    <3>2. Op(a, root) \in [used : Nat, roots : P]
        BY <2>4, <3>1
    <3> QED BY <2>5, <3>1, <3>2 DEF A, P
  <2> QED BY <2>3, <2>5, <2>6 DEF Shared, pieces, used
<1> HIDE DEF A, X, Op, base, listed
<1>5. \A a \in A, x \in X : next[<<a, x>>] = Op(a, x) /\ Op(a, x) \in A
    BY <1>4
<1> HIDE DEF next
<1>6. Closed(A, X, next)
    BY <1>5 DEF Closed
<1>7. PICK f : /\ Nesting(listed, base, next, f)
               /\ \A s \in SUBSET DOMAIN listed :
                     s # {} => f[s \ {Max(s)}] \in A /\ listed[Max(s)] \in X
  <2>1. listed \in Seq(X)
      BY <1>2
  <2> QED BY <1>3, <1>6, <2>1, NestingExists
<1>8. F(f)
  <2>1. \A s \in SUBSET S : s # {} =>
            next[<<f[s \ {Max(s)}], listed[Max(s)]>>] = Op(f[s \ {Max(s)}], listed[Max(s)])
      BY <1>5, <1>7
  <2> QED BY <1>7, <2>1 DEF Nesting
<1> HIDE DEF F
<1>9. F(g)
    BY <1>8
<1> HIDE DEF g
<1>10. Nested(listed, X, A, base, next, g)
    BY <1>5, <1>9 DEF Nested, F
<1>11. PICK sofar : /\ Taking(listed, A, base, next, sofar)
                    /\ g[DOMAIN listed] = sofar[Len(listed)]
    BY <1>2, <1>3, <1>6, <1>10, NestingTakes
<1> DEFINE k == Len(listed)
           Served(n) == \A m \in 1 .. n : listed[m] \in stored =>
                          \/ sofar[n].used = MaxParentChars
                          \/ HasRoot(sofar[n].roots, listed[m])
           T == {n \in Nat : n \in 0 .. k => Served(n)}
<1>12. k \in Nat /\ S = 1 .. k /\ \A i \in 1 .. k : listed[i] \in X
    BY <1>2
<1>13. /\ \A n \in 0 .. k : sofar[n] \in A
       /\ \A n \in 0 .. k - 1 : sofar[n + 1] = next[<<sofar[n], listed[n + 1]>>]
    BY <1>11 DEF Taking
<1> HIDE DEF k, S
<1>14. 0 \in T
    OBVIOUS
<1>15. ASSUME NEW n \in Nat, n \in T  PROVE n + 1 \in T
  <2> SUFFICES ASSUME n + 1 \in 0 .. k, NEW m \in 1 .. n + 1, listed[m] \in stored
               PROVE  \/ sofar[n + 1].used = MaxParentChars
                      \/ HasRoot(sofar[n + 1].roots, listed[m])
      OBVIOUS
  <2>1. n \in 0 .. k - 1 /\ n \in 0 .. k /\ n + 1 \in 1 .. k /\ (m \in 1 .. n \/ m = n + 1)
      BY <1>12
  <2>2. sofar[n] \in A /\ listed[n + 1] \in X
        /\ sofar[n + 1] = Op(sofar[n], listed[n + 1])
      BY <1>5, <1>12, <1>13, <2>1
  <2>3. /\ sofar[n].used = MaxParentChars => sofar[n + 1].used = MaxParentChars
        /\ \A other : HasRoot(sofar[n].roots, other) => HasRoot(sofar[n + 1].roots, other)
        /\ listed[n + 1] \in stored => \/ sofar[n + 1].used = MaxParentChars
                                       \/ HasRoot(sofar[n + 1].roots, listed[n + 1])
      BY <1>4, <2>2
  <2>4. m \in 1 .. n => \/ sofar[n].used = MaxParentChars
                        \/ HasRoot(sofar[n].roots, listed[m])
      BY <1>15, <2>1
  <2> QED BY <2>1, <2>3, <2>4
<1>16. Nat \subseteq T
  <2> HIDE DEF T
  <2> QED BY <1>14, <1>15, NumberInduction
<1>17. Served(k) /\ sofar[k] \in A
    BY <1>12, <1>13, <1>16
<1>18. Restore(list, loaded, stored) = sofar[k].roots
    BY <1>1, <1>11 DEF k, S
<1>19. /\ sofar[k].roots \in Seq(Pieces(list, stored))
       /\ Sharing(sofar[k].roots, sofar[k].used)
    BY <1>17 DEF A
<1>20. ASSUME NEW root \in stored \cap RootsOf(list)
       PROVE  sofar[k].used = MaxParentChars \/ HasRoot(sofar[k].roots, root)
  <2>1. PICK m \in 1 .. k : listed[m] = root
      BY <1>2, <1>12 DEF ToSet, X, S
  <2> QED BY <1>17, <2>1
<1> QED BY <1>18, <1>19, <1>20
-----------------------------------------------------------------------------
(* Products of positive numbers over a finite set: each of them divides it. *)
AllPositive(S) == \A x \in S : x \in Nat \ {0}
Multiplied(S, f) ==
    f = [s \in SUBSET S |-> IF s = {} THEN 1 ELSE Pick(s) * f[s \ {Pick(s)}]]

LEMMA Multiples ==
    ASSUME NEW a \in Nat \ {0}, NEW b \in Nat \ {0}
    PROVE  /\ a * b \in Nat \ {0}
           /\ \A c \in Nat \ {0} : a * (b * c) = b * (a * c)
<1>1. a * b \in Nat
    OBVIOUS
<1>2. a * b # 0
    BY Z3
<1>3. ASSUME NEW c \in Nat \ {0}  PROVE a * (b * c) = b * (a * c)
    BY Z3
<1> QED BY <1>1, <1>2, <1>3

LEMMA ProductIsMultiple ==
    ASSUME NEW S, IsFiniteSet(S), AllPositive(S)
    PROVE  /\ ProductSet(S) \in Nat \ {0}
           /\ \A x \in S : \E q \in Nat \ {0} : ProductSet(S) = x * q
<1> DEFINE next == [p \in (Nat \ {0}) \X S |-> p[2] * p[1]]
           pick == [s \in SUBSET S |-> Pick(s)]
           base == 1
           A == Nat \ {0}
<1>1. \A s \in SUBSET S : s # {} => pick[s] \in s /\ pick[s] = Pick(s)
    BY DEF Pick
<1>2. \A a \in Nat \ {0}, x \in S : next[<<a, x>>] = x * a /\ next[<<a, x>>] \in Nat \ {0}
  <2> SUFFICES ASSUME NEW a \in Nat \ {0}, NEW x \in S
               PROVE  next[<<a, x>>] = x * a /\ next[<<a, x>>] \in Nat \ {0}
      OBVIOUS
  <2>1. x \in Nat \ {0}
      BY DEF AllPositive
  <2>2. x * a \in Nat \ {0}
      BY <2>1, Multiples
  <2>3. next[<<a, x>>] = x * a
      OBVIOUS
  <2> QED BY <2>2, <2>3
<1> HIDE DEF next, pick
<1>3. base \in A /\ \A a \in A, x \in S : next[<<a, x>>] \in A
    BY <1>2
<1> HIDE DEF base, A
<1>4. PICK f : Folding(S, base, next, pick, f)
    BY <1>1, FoldExists
<1>5. \A s \in SUBSET S : f[s] \in Nat \ {0}
  <2>1. \A s \in SUBSET S : s # {} => pick[s] \in s
      BY <1>1
  <2>2. base \in A
      BY <1>3
  <2>3. \A a \in A, x \in S : next[<<a, x>>] \in A
      BY <1>3
  <2>4. \A s \in SUBSET S : f[s] \in A
      BY <1>4, <2>1, <2>2, <2>3, FoldStays, Zenon
  <2> QED BY <2>4 DEF A
<1>6. Multiplied(S, f)
  <2>1. ASSUME NEW s \in SUBSET S, s # {}
        PROVE  next[<<f[s \ {pick[s]}], pick[s]>>] = Pick(s) * f[s \ {Pick(s)}]
    <3>1. pick[s] \in S /\ pick[s] = Pick(s) /\ f[s \ {pick[s]}] \in Nat \ {0}
        BY <1>1, <1>5, <2>1
    <3> QED BY <1>2, <3>1
  <2> QED BY <1>4, <2>1 DEF Folding, Multiplied, base
<1> DEFINE g == CHOOSE g : Multiplied(S, g)
           Good(s) == /\ g[s] \in Nat \ {0}
                      /\ \A x \in s : \E q \in Nat \ {0} : g[s] = x * q
           T == {s \in SUBSET S : Good(s)}
<1>7. ProductSet(S) = g[S]
    BY Zenon DEF ProductSet, FoldSet, MapThenFoldSet, Multiplied, Pick
<1>8. Multiplied(S, g)
    BY <1>6
<1> HIDE DEF g
<1>9. \A s \in SUBSET S : g[s] = IF s = {} THEN 1 ELSE Pick(s) * g[s \ {Pick(s)}]
    BY <1>8 DEF Multiplied
<1>10. {} \in T
  <2>1. g[{}] = 1
      BY <1>9
  <2>2. Good({})
      BY <2>1
  <2> QED BY <2>2
<1>11. \A s \in SUBSET S : s # {} => \E x \in s : s \ {x} \in T => s \in T
  <2> SUFFICES ASSUME NEW s \in SUBSET S, s # {}, NEW p, p = Pick(s), Good(s \ {p})
               PROVE  Good(s)
    <3>1. \A s \in SUBSET S : s # {} => Pick(s) \in s
        BY DEF Pick
    <3> HIDE DEF Good
    <3> QED BY <3>1
  <2>1. p \in s /\ p \in Nat \ {0}
      BY DEF Pick, AllPositive
  <2>2. g[s] = p * g[s \ {p}] /\ g[s \ {p}] \in Nat \ {0}
      BY <1>9
  <2>3. g[s] \in Nat \ {0}
      BY <2>1, <2>2, Multiples
  <2>4. ASSUME NEW x \in s, x # p  PROVE \E q \in Nat \ {0} : g[s] = x * q
    <3>1. PICK r \in Nat \ {0} : g[s \ {p}] = x * r
        BY <2>4
    <3>2. x \in Nat \ {0}
        BY DEF AllPositive
    <3>3. p * (x * r) = x * (p * r) /\ p * r \in Nat \ {0}
        BY <2>1, <3>2, Multiples
    <3> QED BY <2>2, <3>1, <3>3
  <2> QED BY <2>1, <2>2, <2>3, <2>4
<1>12. SUBSET S \subseteq T
  <2> HIDE DEF T
  <2> QED BY <1>10, <1>11, SubsetInduction
<1> QED BY <1>7, <1>12
-----------------------------------------------------------------------------
(* Search and fusion. *)
Branch == [query : Queries, method : Methods, hits : Rankings(Leaves)]
Hit == [leaf : Leaves, score : Nat, queries : SUBSET Queries]

LEMMA RankingHasPlaces ==
    ASSUME NEW leaves \in SUBSET Leaves, NEW list \in Rankings(leaves)
    PROVE  /\ list \in Rankings(Leaves)
           /\ DOMAIN list \subseteq 1 .. SearchTopK
           /\ ToSet(list) \subseteq leaves
           /\ \A leaf \in ToSet(list) : /\ Position(list, leaf) \in DOMAIN list
                                        /\ list[Position(list, leaf)] = leaf
<1>1. PICK n \in 0 .. SearchTopK : list \in [1 .. n -> leaves] /\ IsInjective(list)
    BY DEF Rankings
<1>2. list \in [1 .. n -> Leaves]
    BY <1>1
<1>3. list \in Rankings(Leaves)
    BY <1>1, <1>2 DEF Rankings
<1>4. DOMAIN list \subseteq 1 .. SearchTopK
    BY <1>1, LimitsAssumption
<1>5. ToSet(list) \subseteq leaves
    BY <1>1 DEF ToSet
<1>6. ASSUME NEW leaf \in ToSet(list)
      PROVE  Position(list, leaf) \in DOMAIN list /\ list[Position(list, leaf)] = leaf
  <2>1. \E i \in DOMAIN list : list[i] = leaf
      BY DEF ToSet
  <2> QED BY <2>1 DEF Position
<1> QED BY <1>3, <1>4, <1>5, <1>6

LEMMA SearchFindsBranches ==
    ASSUME NEW lists \in SUBSET (Queries \X Methods), NEW leaves \in SUBSET Leaves,
           NEW found \in [lists -> Rankings(leaves)]
    PROVE  SetToSeq({[query |-> b[1], method |-> b[2], hits |-> found[b]] : b \in lists})
               \in Seq(Branch)
<1> DEFINE branch == [b \in lists |-> [query |-> b[1], method |-> b[2], hits |-> found[b]]]
           S == {branch[b] : b \in lists}
<1>1. S \in SUBSET Branch
  <2> SUFFICES ASSUME NEW b \in lists  PROVE branch[b] \in Branch
      OBVIOUS
  <2>1. b[1] \in Queries /\ b[2] \in Methods /\ found[b] \in Rankings(leaves)
      OBVIOUS
  <2>2. found[b] \in Rankings(Leaves)
      BY <2>1, RankingHasPlaces
  <2> QED BY <2>1, <2>2 DEF Branch
<1>2. IsFiniteSet(lists)
  <2>1. IsFiniteSet(Queries) /\ IsFiniteSet(Methods)
    <3>1. IsFiniteSet({"dense"}) /\ IsFiniteSet({"dense"} \cup {"sparse"})
        BY FS_Singleton, FS_AddElement
    <3>2. Methods = {"dense"} \cup {"sparse"}
        BY DEF Methods
    <3> QED BY <3>1, <3>2, RoutesAssumption
  <2>2. IsFiniteSet(Queries \X Methods)
      BY <2>1, FS_Product
  <2> QED BY <2>2, FS_Subset
<1>3. branch \in Surjection(lists, S)
    BY DEF Surjection
<1> HIDE DEF branch
<1>4. IsFiniteSet(S)
    BY <1>2, <1>3, FS_Surjection
<1>5. SetToSeq(S) \in Seq(S)
  <2>1. Cardinality(S) \in Nat /\ \E f : f \in Bijection(1 .. Cardinality(S), S)
      BY <1>4, FS_CardinalityType DEF ExistsBijection
  <2>2. \E f \in [1 .. Cardinality(S) -> S] : IsInjective(f)
      BY <2>1 DEF Bijection, Injection
  <2>3. SetToSeq(S) \in [1 .. Cardinality(S) -> S]
      BY <2>2 DEF SetToSeq
  <2> HIDE DEF S
  <2> QED BY <2>1, <2>3
<1>6. SetToSeq(S) \in Seq(Branch)
  <2> HIDE DEF S
  <2> QED BY <1>1, <1>5
<1>7. S = {[query |-> b[1], method |-> b[2], hits |-> found[b]] : b \in lists}
    BY DEF branch
<1> QED BY <1>6, <1>7

(* A sum of greater numbers, and of more of them, is greater. *)
LEMMA SumGrows ==
    ASSUME NEW A, IsFiniteSet(A), NEW B \in SUBSET A, B # {}, NEW v, NEW w,
           \A x \in A : v[x] \in Nat, \A x \in B : w[x] \in Nat,
           \A x \in B : v[x] > w[x]
    PROVE  Total(v, A) > Total(w, B)
<1>1. IsFiniteSet(B) /\ IsFiniteSet(A \ B)
    BY FS_Subset
<1>2. \A s \in SUBSET A : /\ Total(v, s) \in Nat
                          /\ \A x \in s : Total(v, s) = v[x] + Total(v, s \ {x})
    BY SumTakes
<1>3. \A s \in SUBSET B : /\ Total(w, s) \in Nat
                          /\ \A x \in s : Total(w, s) = w[x] + Total(w, s \ {x})
    BY <1>1, SumTakes
<1>4. Total(v, {}) = 0 /\ Total(w, {}) = 0
  <2>1. {} \in SUBSET A /\ {} \in SUBSET B
      OBVIOUS
  <2>2. Total(v, {}) = 0
      BY <2>1, SumUnfolds
  <2>3. Total(w, {}) = 0
      BY <1>1, <2>1, SumUnfolds
  <2> QED BY <2>2, <2>3
<1> DEFINE T == {s \in SUBSET B : Total(v, s) >= Total(w, s) /\ (s # {} => Total(v, s) > Total(w, s))}
           U == {s \in SUBSET (A \ B) : Total(v, B \cup s) >= Total(v, B)}
<1>5. SUBSET B \subseteq T
  <2>1. {} \in T
      BY <1>4
  <2>2. \A s \in SUBSET B : s # {} => \E x \in s : s \ {x} \in T => s \in T
    <3> SUFFICES ASSUME NEW s \in SUBSET B, NEW x \in s, s \ {x} \in T  PROVE s \in T
        OBVIOUS
    <3> DEFINE r == s \ {x}
    <3>1. Total(v, s) = v[x] + Total(v, r) /\ Total(w, s) = w[x] + Total(w, r)
        BY <1>2, <1>3
    <3>2. r \in SUBSET A /\ r \in SUBSET B /\ x \in B /\ x \in A /\ Total(v, r) >= Total(w, r)
        OBVIOUS
    <3> HIDE DEF r
    <3>3. Total(v, r) \in Nat /\ Total(w, r) \in Nat /\ v[x] \in Nat /\ w[x] \in Nat /\ v[x] > w[x]
        BY <1>2, <1>3, <3>2
    <3>4. Total(v, s) > Total(w, s)
        BY <3>1, <3>2, <3>3
    <3>5. Total(v, s) \in Nat /\ Total(w, s) \in Nat
        BY <1>2, <1>3
    <3> QED BY <3>4, <3>5
  <2> HIDE DEF T
  <2> QED BY <1>1, <2>1, <2>2, SubsetInduction
<1>6. SUBSET (A \ B) \subseteq U
  <2>1. {} \in U
    <3>1. B \cup {} = B /\ Total(v, B) \in Nat
        BY <1>2
    <3> QED BY <3>1
  <2>2. \A s \in SUBSET (A \ B) : s # {} => \E x \in s : s \ {x} \in U => s \in U
    <3> SUFFICES ASSUME NEW s \in SUBSET (A \ B), NEW x \in s, s \ {x} \in U  PROVE s \in U
        OBVIOUS
    <3> DEFINE r == B \cup (s \ {x})
               t == B \cup s
    <3>1. r = t \ {x} /\ x \in t /\ t \in SUBSET A /\ r \in SUBSET A /\ x \in A
        OBVIOUS
    <3>2. Total(v, r) >= Total(v, B)
        OBVIOUS
    <3> HIDE DEF r, t
    <3>3. Total(v, t) = v[x] + Total(v, r) /\ v[x] \in Nat /\ Total(v, r) \in Nat /\ Total(v, B) \in Nat
        BY <1>2, <3>1
    <3>4. Total(v, t) >= Total(v, B)
        BY <3>2, <3>3
    <3> QED BY <3>4 DEF t
  <2> DEFINE R == A \ B
  <2>3. IsFiniteSet(R)
      BY <1>1
  <2> HIDE DEF U, R
  <2>4. \A s \in SUBSET R : s # {} => \E x \in s : s \ {x} \in U => s \in U
      BY <2>2 DEF R
  <2>5. SUBSET R \subseteq U
      BY <2>1, <2>3, <2>4, SubsetInduction
  <2> QED BY <2>5 DEF R
<1>7. Total(v, B) > Total(w, B)
    BY <1>5
<1>8. Total(v, A) >= Total(v, B)
  <2>1. A \ B \in U /\ B \cup (A \ B) = A
      BY <1>6
  <2> QED BY <2>1
<1>9. Total(v, A) \in Nat /\ Total(v, B) \in Nat /\ Total(w, B) \in Nat
    BY <1>2, <1>3
<1> QED BY <1>7, <1>8, <1>9

(* Reciprocal ranks: the unit is a multiple of every RrfK + rank, so that  *)
(* a better rank gives more.                                               *)
LEMMA Quotients ==
    ASSUME NEW a \in Nat \ {0}, NEW q \in Nat \ {0}
    PROVE  (a * q) \div a = q
BY Z3

LEMMA LesserGivesMore ==
    ASSUME NEW a \in Nat \ {0}, NEW b \in Nat \ {0}, a < b,
           NEW p \in Nat \ {0}, NEW q \in Nat \ {0}, a * p = b * q
    PROVE  p > q
BY Z3

LEMMA BetterRankGivesMore ==
    /\ \A rank \in 1 .. SearchTopK : Unit \div (RrfK + rank) \in Nat \ {0}
    /\ \A m, n \in 1 .. SearchTopK :
          m < n => Unit \div (RrfK + m) > Unit \div (RrfK + n)
<1> DEFINE S == {RrfK + rank : rank \in 1 .. SearchTopK}
           term == [rank \in 1 .. SearchTopK |-> RrfK + rank]
<1>1. RrfK \in Nat \ {0} /\ SearchTopK \in Nat \ {0}
    BY LimitsAssumption
<1>2. \A rank \in 1 .. SearchTopK : RrfK + rank \in Nat \ {0} /\ RrfK + rank \in S
    BY <1>1
<1>3. AllPositive(S)
    BY <1>1 DEF AllPositive
<1>4. IsFiniteSet(S)
  <2>1. IsFiniteSet(1 .. SearchTopK)
      BY <1>1, FS_Interval
  <2>2. term \in Surjection(1 .. SearchTopK, S)
      BY DEF Surjection
  <2> HIDE DEF S, term
  <2> QED BY <2>1, <2>2, FS_Surjection
<1>5. /\ Unit \in Nat \ {0}
      /\ \A x \in S : \E q \in Nat \ {0} : Unit = x * q
  <2> HIDE DEF S
  <2>1. /\ ProductSet(S) \in Nat \ {0}
        /\ \A x \in S : \E q \in Nat \ {0} : ProductSet(S) = x * q
      BY <1>3, <1>4, ProductIsMultiple
  <2> QED BY <2>1 DEF Unit, S
<1> HIDE DEF S
<1>6. ASSUME NEW rank \in 1 .. SearchTopK
      PROVE  /\ Unit \div (RrfK + rank) \in Nat \ {0}
             /\ Unit = (RrfK + rank) * (Unit \div (RrfK + rank))
  <2>1. PICK q \in Nat \ {0} : Unit = (RrfK + rank) * q
      BY <1>2, <1>5
  <2>2. RrfK + rank \in Nat \ {0}
      BY <1>2
  <2>3. Unit \div (RrfK + rank) = q
      BY <2>1, <2>2, Quotients
  <2> QED BY <2>1, <2>3
<1>7. ASSUME NEW m \in 1 .. SearchTopK, NEW n \in 1 .. SearchTopK, m < n
      PROVE  Unit \div (RrfK + m) > Unit \div (RrfK + n)
  <2> DEFINE a == RrfK + m
             b == RrfK + n
             p == Unit \div a
             q == Unit \div b
  <2>1. a \in Nat \ {0} /\ b \in Nat \ {0} /\ a < b
      BY <1>1, <1>2, <1>7
  <2>2. p \in Nat \ {0} /\ q \in Nat \ {0} /\ a * p = b * q
      BY <1>6
  <2> HIDE DEF a, b, p, q
  <2>3. p > q
      BY <2>1, <2>2, LesserGivesMore
  <2> QED BY <2>3 DEF p, q, a, b
<1> QED BY <1>6, <1>7

LEMMA BranchesFound ==
    ASSUME NEW list \in Seq(Branch)
    PROVE  /\ FoundBy(list) \subseteq Leaves /\ IsFiniteSet(FoundBy(list))
           /\ \A leaf \in FoundBy(list) : BranchesOf(list, leaf) # {}
           /\ \A leaf : /\ BranchesOf(list, leaf) \subseteq DOMAIN list
                        /\ IsFiniteSet(BranchesOf(list, leaf))
           /\ \A leaf : \A i \in BranchesOf(list, leaf) :
                  /\ Position(list[i].hits, leaf) \in 1 .. SearchTopK
                  /\ Shares(list, leaf)[i] = Unit \div (RrfK + Position(list[i].hits, leaf))
                  /\ Shares(list, leaf)[i] \in Nat
<1>1. \A i \in DOMAIN list : list[i].hits \in Rankings(Leaves)
  <2>1. \A i \in DOMAIN list : list[i] \in Branch
      BY PlacesOf
  <2> QED BY <2>1 DEF Branch
<1>2. Leaves \in SUBSET Leaves /\ IsFiniteSet(Leaves)
    BY LeavesAssumption
<1>3. \A i \in DOMAIN list : /\ DOMAIN list[i].hits \subseteq 1 .. SearchTopK
                             /\ ToSet(list[i].hits) \subseteq Leaves
                             /\ \A leaf \in ToSet(list[i].hits) :
                                    Position(list[i].hits, leaf) \in DOMAIN list[i].hits
    BY <1>1, <1>2, RankingHasPlaces
<1>4. FoundBy(list) \subseteq Leaves
    BY <1>3 DEF FoundBy
<1>5. IsFiniteSet(FoundBy(list))
    BY <1>2, <1>4, FS_Subset
<1>6. \A leaf \in FoundBy(list) : BranchesOf(list, leaf) # {}
    BY DEF FoundBy, BranchesOf
<1>7. ASSUME NEW leaf
      PROVE  BranchesOf(list, leaf) \subseteq DOMAIN list /\ IsFiniteSet(BranchesOf(list, leaf))
  <2>1. BranchesOf(list, leaf) \subseteq DOMAIN list
      BY DEF BranchesOf
  <2>2. IsFiniteSet(DOMAIN list)
      BY PlacesOf
  <2> QED BY <2>1, <2>2, FS_Subset
<1>8. ASSUME NEW leaf, NEW i \in BranchesOf(list, leaf)
      PROVE  /\ Position(list[i].hits, leaf) \in 1 .. SearchTopK
             /\ Shares(list, leaf)[i] = Unit \div (RrfK + Position(list[i].hits, leaf))
             /\ Shares(list, leaf)[i] \in Nat
  <2>1. i \in DOMAIN list /\ leaf \in ToSet(list[i].hits)
      BY DEF BranchesOf
  <2>2. Position(list[i].hits, leaf) \in 1 .. SearchTopK
      BY <1>3, <2>1
  <2>3. Shares(list, leaf)[i] = Unit \div (RrfK + Position(list[i].hits, leaf))
      BY DEF Shares
  <2> QED BY <2>2, <2>3, BetterRankGivesMore
<1> QED BY <1>4, <1>5, <1>6, <1>7, <1>8

LEMMA ScoreIsSum ==
    ASSUME NEW list, NEW leaf
    PROVE  FusedHit(list, leaf).score = Total(Shares(list, leaf), BranchesOf(list, leaf))
<1>1. FusedHit(list, leaf).score = MapThenSumSet(LAMBDA i : Shares(list, leaf)[i],
                                                 BranchesOf(list, leaf))
    BY DEF FusedHit
<1> QED BY <1>1, Zenon DEF Total

LEMMA FusedHitIsHit ==
    ASSUME NEW list \in Seq(Branch), NEW leaf \in FoundBy(list)
    PROVE  FusedHit(list, leaf) \in Hit /\ FusedHit(list, leaf).leaf = leaf
<1>1. FusedHit(list, leaf).leaf = leaf /\ leaf \in Leaves
    BY BranchesFound DEF FusedHit
<1>2. FusedHit(list, leaf).score \in Nat
  <2> DEFINE S == BranchesOf(list, leaf)
  <2>1. IsFiniteSet(S) /\ \A i \in S : Shares(list, leaf)[i] \in Nat
      BY BranchesFound
  <2> HIDE DEF S
  <2>2. Total(Shares(list, leaf), S) \in Nat
      BY <2>1, SumUnfolds
  <2> QED BY <2>2, ScoreIsSum DEF S
<1>3. FusedHit(list, leaf).queries \subseteq Queries
  <2>1. FusedHit(list, leaf).queries = {list[i].query : i \in BranchesOf(list, leaf)}
      BY DEF FusedHit
  <2>2. \A i \in DOMAIN list : list[i] \in Branch
      BY PlacesOf
  <2> QED BY <2>1, <2>2, BranchesFound DEF Branch
<1>4. FusedHit(list, leaf) = [leaf    |-> FusedHit(list, leaf).leaf,
                              score   |-> FusedHit(list, leaf).score,
                              queries |-> FusedHit(list, leaf).queries]
    BY DEF FusedHit
<1> QED BY <1>1, <1>2, <1>3, <1>4 DEF Hit

(* Who is ahead in every branch has the greater fused score. *)
LEMMA DominanceScores ==
    ASSUME NEW list \in Seq(Branch), NEW a \in FoundBy(list), NEW b \in FoundBy(list),
           \A i \in BranchesOf(list, a) \cup BranchesOf(list, b) : Outranks(list[i], a, b)
    PROVE  FusedHit(list, a).score > FusedHit(list, b).score
<1> DEFINE A == BranchesOf(list, a)
           B == BranchesOf(list, b)
           v == Shares(list, a)
           w == Shares(list, b)
<1>1. B \subseteq A
  <2> SUFFICES ASSUME NEW i \in B  PROVE i \in A
      OBVIOUS
  <2>1. a \in ToSet(list[i].hits)
      BY DEF Outranks
  <2> QED BY <2>1 DEF BranchesOf
<1>2. IsFiniteSet(A) /\ B # {}
    BY BranchesFound
<1>3. (\A i \in A : v[i] \in Nat) /\ (\A i \in B : w[i] \in Nat)
    BY BranchesFound
<1>4. ASSUME NEW i \in B  PROVE v[i] > w[i]
  <2> DEFINE m == Position(list[i].hits, a)
             n == Position(list[i].hits, b)
  <2>1. m < n
    <3>1. b \in ToSet(list[i].hits) /\ Outranks(list[i], a, b)
        BY DEF BranchesOf
    <3> QED BY <3>1 DEF Outranks
  <2>2. m \in 1 .. SearchTopK /\ v[i] = Unit \div (RrfK + m)
      BY <1>1, BranchesFound
  <2>3. n \in 1 .. SearchTopK /\ w[i] = Unit \div (RrfK + n)
      BY BranchesFound
  <2> HIDE DEF m, n, v, w
  <2> QED BY <2>1, <2>2, <2>3, BetterRankGivesMore
<1> HIDE DEF A, B, v, w
<1>5. Total(v, A) > Total(w, B)
    BY <1>1, <1>2, <1>3, <1>4, SumGrows
<1> QED BY <1>5, ScoreIsSum DEF A, B, v, w

(* Every leaf that was found has its one place among the fused hits. *)
Ranked(list, ranked) ==
    /\ ranked \in Seq(Hit)
    /\ \A leaf \in FoundBy(list) : \E i \in DOMAIN ranked : ranked[i] = FusedHit(list, leaf)
    /\ \A i \in DOMAIN ranked : /\ ranked[i].leaf \in FoundBy(list)
                                /\ ranked[i] = FusedHit(list, ranked[i].leaf)
    /\ \A i, j \in DOMAIN ranked : i < j <=> Better(ranked[i], ranked[j])
    /\ \A i, j \in DOMAIN ranked : ranked[i].leaf = ranked[j].leaf => i = j

LEMMA OrderedIsRanked ==
    ASSUME NEW list \in Seq(Branch)
    PROVE  Ranked(list, Ordered(list))
<1> DEFINE S == {FusedHit(list, leaf) : leaf \in FoundBy(list)}
           R == {p \in S \X S : Better(p[1], p[2])}
           k == Cardinality(S)
           ranked == Listing(S, R)
<1>1. \A x \in S : x \in Hit /\ x.leaf \in FoundBy(list) /\ x = FusedHit(list, x.leaf)
    BY FusedHitIsHit
<1>2. IsFiniteSet(S)
  <2> DEFINE hit == [leaf \in FoundBy(list) |-> FusedHit(list, leaf)]
  <2>1. hit \in Surjection(FoundBy(list), S)
      BY DEF Surjection
  <2> HIDE DEF hit, S
  <2> QED BY <2>1, BranchesFound, FS_Surjection
<1>3. \A x \in S : x.score \in Int /\ x.leaf \in Int
  <2> HIDE DEF S
  <2> QED BY <1>1, LeavesAssumption DEF Hit
<1>4. Ordering(S, R)
  <2> SUFFICES /\ \A x \in S : ~Better(x, x)
               /\ \A x, y \in S : x # y => Better(x, y) \/ Better(y, x)
               /\ \A x, y, z \in S : Better(x, y) /\ Better(y, z) => Better(x, z)
      BY DEF Ordering
  <2> HIDE DEF S
  <2>1. \A x \in S : x.score \in Int /\ x.leaf \in Int
      BY <1>3
  <2>2. \A x, y \in S : x # y => x.leaf # y.leaf
      BY <1>1
  <2>3. \A x \in S : ~Better(x, x)
      BY <2>1 DEF Better
  <2>4. \A x, y \in S : x # y => Better(x, y) \/ Better(y, x)
      BY <2>1, <2>2 DEF Better
  <2>5. \A x, y, z \in S : Better(x, y) /\ Better(y, z) => Better(x, z)
      BY <2>1 DEF Better
  <2> QED BY <2>3, <2>4, <2>5
<1>5. \A x \in S : Lower(S, R, x) = {y \in S : Better(y, x)}
    BY DEF Lower
<1>6. \A x, y \in S : <<x, y>> \in R <=> Better(x, y)
    OBVIOUS
<1>7. \A leaf \in FoundBy(list) : FusedHit(list, leaf) \in S
    OBVIOUS
<1>8. Ordered(list) = InOrder(S, Better)
    BY DEF Ordered
<1> HIDE DEF R, S
<1>9. /\ ranked \in [1 .. k -> S] /\ k \in Nat
      /\ \A x \in S : \E n \in 1 .. k : ranked[n] = x
      /\ \A m, n \in 1 .. k : m < n <=> <<ranked[m], ranked[n]>> \in R
    BY <1>2, <1>4, ListingInOrder
<1>10. Ordered(list) = ranked
  <2>1. InOrder(S, Better)
            = [n \in 1 .. Cardinality(S) |->
                  CHOOSE x \in S : Cardinality({y \in S : Better(y, x)}) = n - 1]
      BY Zenon DEF InOrder
  <2>2. \A n : \A x \in S :
            Cardinality({y \in S : Better(y, x)}) = n - 1
                <=> Cardinality(Lower(S, R, x)) = n - 1
      BY <1>5
  <2>3. \A n : (CHOOSE x \in S : Cardinality({y \in S : Better(y, x)}) = n - 1)
                = (CHOOSE x \in S : Cardinality(Lower(S, R, x)) = n - 1)
      BY <2>2
  <2> QED BY <1>8, <2>1, <2>3 DEF Listing
<1> HIDE DEF ranked, k
<1>11. DOMAIN ranked = 1 .. k /\ \A n \in 1 .. k : ranked[n] \in S
    BY <1>9
<1>12. ranked \in Seq(Hit)
  <2>1. ranked \in [1 .. k -> Hit]
      BY <1>1, <1>9
  <2> QED BY <1>9, <2>1
<1>13. \A leaf \in FoundBy(list) : \E i \in DOMAIN ranked : ranked[i] = FusedHit(list, leaf)
    BY <1>7, <1>9, <1>11
<1>14. \A i \in DOMAIN ranked : /\ ranked[i].leaf \in FoundBy(list)
                                /\ ranked[i] = FusedHit(list, ranked[i].leaf)
    BY <1>1, <1>11
<1>15. \A i, j \in DOMAIN ranked : i < j <=> Better(ranked[i], ranked[j])
    BY <1>6, <1>9, <1>11
<1>16. ASSUME NEW i \in DOMAIN ranked, NEW j \in DOMAIN ranked, ranked[i].leaf = ranked[j].leaf
       PROVE  i = j
  <2>1. ranked[i] = ranked[j]
      BY <1>14, <1>16
  <2>2. ranked[i].score \in Int /\ ranked[i].leaf \in Int
      BY <1>3, <1>11
  <2>3. ~Better(ranked[i], ranked[j]) /\ ~Better(ranked[j], ranked[i])
      BY <2>1, <2>2 DEF Better
  <2>4. i \in Int /\ j \in Int
      BY <1>9, <1>11
  <2> QED BY <1>15, <2>3, <2>4
<1>17. Ranked(list, ranked)
    BY <1>12, <1>13, <1>14, <1>15, <1>16 DEF Ranked
<1> QED BY <1>10, <1>17

(* Fusion considers one hit of the order after another. *)
Kept(kept, hit, quota) ==
    IF SameRoot(kept, hit) >= quota \/ Len(kept) >= FusedTopK
    THEN kept ELSE Append(kept, hit)

Fusing(ranked, quota, kept) ==
    /\ kept[0] = <<>>
    /\ \A n \in 0 .. Len(ranked) - 1 : kept[n + 1] = Kept(kept[n], ranked[n + 1], quota)

LEMMA FuseTakes ==
    ASSUME NEW list, NEW quota, Ordered(list) \in Seq(Hit)
    PROVE  \E kept : /\ Fusing(Ordered(list), quota, kept)
                     /\ Fuse(list, quota) = kept[Len(Ordered(list))]
<1> DEFINE
      ranked == Ordered(list)
      S == DOMAIN ranked
      B == Seq(Hit)
      Op(sofar, i) == Kept(sofar, ranked[i], quota)
      next == [p \in B \X S |-> Op(p[1], p[2])]
      pick == LastPlace(ranked)
      F(f) == f = [s \in SUBSET S |-> IF s = {} THEN <<>>
                                      ELSE Op(f[s \ {Max(s)}], Max(s))]
<1>1. Fuse(list, quota) = (CHOOSE f : F(f))[S]
    BY DEF Fuse, FoldLeft, MapThenFoldSet, Kept
<1>2. /\ S = 1 .. Len(ranked) /\ Len(ranked) \in Nat
      /\ IsFiniteSet(S)
      /\ \A i \in S : ranked[i] \in Hit
      /\ \A s \in SUBSET S : s # {} => /\ pick[s] \in s
                                       /\ Max(s) = pick[s]
                                       /\ \A i \in s : i <= Max(s)
    BY PlacesOf
<1>3. \A a \in B, x \in S : Op(a, x) \in B
  <2> SUFFICES ASSUME NEW a \in B, NEW x \in S  PROVE Op(a, x) \in B
      OBVIOUS
  <2>1. ranked[x] \in Hit
      BY <1>2
  <2> HIDE DEF ranked
  <2>2. Append(a, ranked[x]) \in B
      BY <2>1
  <2> QED BY <2>2 DEF Kept
<1>4. <<>> \in B
    OBVIOUS
<1> HIDE DEF S, B, Op, pick
<1>5. \A a \in B, x \in S : next[<<a, x>>] = Op(a, x)
    OBVIOUS
<1> HIDE DEF next, F
<1>6. PICK f : Folding(S, <<>>, next, pick, f)
    BY <1>2, FoldExists
<1>7. \A s \in SUBSET S : f[s] \in B
  <2>1. \A a \in B, x \in S : next[<<a, x>>] \in B
      BY <1>3, <1>5
  <2>2. \A s \in SUBSET S : s # {} => pick[s] \in s
      BY <1>2
  <2>3. IsFiniteSet(S)
      BY <1>2
  <2> QED BY <1>4, <1>6, <2>1, <2>2, <2>3, FoldStays, Zenon
<1>8. F(f)
  <2>1. ASSUME NEW s \in SUBSET S, s # {}
        PROVE  next[<<f[s \ {pick[s]}], pick[s]>>]
                   = Op(f[s \ {Max(s)}], Max(s))
    <3>1. f[s \ {Max(s)}] \in B /\ Max(s) \in S /\ Max(s) = pick[s]
        BY <1>2, <1>7, <2>1
    <3> QED BY <1>5, <3>1
  <2> QED BY <1>6, <2>1 DEF Folding, F
<1> DEFINE g == CHOOSE h : F(h)
           k == Len(ranked)
           kept == [n \in 0 .. k |-> g[1 .. n]]
<1>9. F(g)
    BY <1>8
<1> HIDE DEF g, k
<1>10. \A s \in SUBSET S : g[s] = IF s = {} THEN <<>> ELSE Op(g[s \ {Max(s)}], Max(s))
    BY <1>9 DEF F
<1>11. S = 1 .. k /\ k \in Nat
    BY <1>2 DEF k
<1>12. kept[0] = <<>>
  <2>1. 1 .. 0 = {} /\ {} \in SUBSET S /\ 0 \in 0 .. k
      BY <1>11
  <2> QED BY <1>10, <2>1
<1>13. ASSUME NEW n \in 0 .. k - 1  PROVE kept[n + 1] = Op(kept[n], n + 1)
  <2> DEFINE s == 1 .. n + 1
  <2>1. s \in SUBSET S /\ s # {} /\ n + 1 \in s /\ n \in 0 .. k /\ n + 1 \in 0 .. k
      BY <1>11
  <2>2. Max(s) = n + 1
    <3>1. Max(s) \in s /\ n + 1 <= Max(s)
        BY <1>2, <2>1
    <3> QED BY <1>11, <3>1
  <2>3. s \ {n + 1} = 1 .. n
      BY <1>11
  <2>4. g[s] = Op(g[s \ {Max(s)}], Max(s))
      BY <1>10, <2>1
  <2>5. g[s] = Op(g[1 .. n], n + 1)
      BY <2>2, <2>3, <2>4
  <2> QED BY <2>1, <2>5
<1>14. g[S] = kept[k]
    BY <1>11
<1> HIDE DEF kept
<1>15. Fusing(ranked, quota, kept)
    BY <1>12, <1>13 DEF Fusing, Op, k
<1>16. Fuse(list, quota) = kept[k]
    BY <1>1, <1>14 DEF g
<1> QED BY <1>15, <1>16 DEF k

LEMMA SameRootCounts ==
    ASSUME NEW list \in Seq(Hit), NEW hit \in Hit, NEW other
    PROVE  /\ SameRoot(list, other) \in Nat
           /\ SameRoot(Append(list, hit), other)
                  = SameRoot(list, other) + IF RootOf[hit.leaf] = RootOf[other.leaf] THEN 1 ELSE 0
           /\ \A i \in DOMAIN list :
                  RootOf[list[i].leaf] = RootOf[other.leaf] => SameRoot(list, other) # 0
<1> DEFINE more == Append(list, hit)
           S == {i \in DOMAIN list : RootOf[list[i].leaf] = RootOf[other.leaf]}
           T == {i \in DOMAIN more : RootOf[more[i].leaf] = RootOf[other.leaf]}
           last == Len(list) + 1
<1>1. DOMAIN list = 1 .. Len(list) /\ Len(list) \in Nat /\ IsFiniteSet(DOMAIN list)
    BY PlacesOf
<1>2. IsFiniteSet(S)
    BY <1>1, FS_Subset
<1>3. Cardinality(S) \in Nat /\ (S # {} => Cardinality(S) # 0)
    BY <1>2, FS_CardinalityType, FS_EmptySet
<1>4. SameRoot(list, other) = Cardinality(S) /\ SameRoot(more, other) = Cardinality(T)
    BY DEF SameRoot
<1>5. /\ DOMAIN more = 1 .. last /\ more[last] = hit
      /\ \A i \in DOMAIN list : more[i] = list[i]
    BY <1>1
<1>6. last \notin S
    BY <1>1
<1>7. \A i \in DOMAIN list : RootOf[list[i].leaf] = RootOf[other.leaf] => S # {}
    OBVIOUS
<1> HIDE DEF more
<1>8. CASE RootOf[hit.leaf] = RootOf[other.leaf]
  <2>1. T = S \cup {last}
      BY <1>1, <1>5, <1>8
  <2> HIDE DEF S, T, last
  <2>2. Cardinality(T) = Cardinality(S) + 1
      BY <1>2, <1>6, <2>1, FS_AddElement
  <2> QED BY <1>3, <1>4, <1>8, <1>7, <2>2 DEF more
<1>9. CASE RootOf[hit.leaf] # RootOf[other.leaf]
  <2>1. T = S
      BY <1>1, <1>5, <1>9
  <2> HIDE DEF S, T
  <2> QED BY <1>3, <1>4, <1>9, <1>7, <2>1 DEF more
<1> QED BY <1>8, <1>9

(* What is kept of the first n hits of the order, and at which places they *)
(* were: a hit that is not kept had no room left, and one that is kept has *)
(* only hits ahead of it whose roots have used up their quota.             *)
Sofar(ranked, quota, n, part, at) ==
    /\ part \in Seq(Hit) /\ Len(part) <= FusedTopK
    /\ at \in [DOMAIN part -> 1 .. n]
    /\ \A k \in DOMAIN part : part[k] = ranked[at[k]]
    /\ \A k, l \in DOMAIN part : k < l <=> at[k] < at[l]
    /\ \A hit : SameRoot(part, hit) <= quota
    /\ \A i \in 1 .. n : \/ \E k \in DOMAIN part : at[k] = i
                         \/ SameRoot(part, ranked[i]) >= quota
                         \/ Len(part) >= FusedTopK
    /\ \A k \in DOMAIN part : \A i \in 1 .. at[k] - 1 :
           \/ \E l \in DOMAIN part : at[l] = i
           \/ SameRoot(part, ranked[i]) >= quota

LEMMA SofarTakes ==
    ASSUME NEW ranked \in Seq(Hit), NEW quota \in Nat \ {0}, NEW n \in 0 .. Len(ranked) - 1,
           NEW part, NEW at, Sofar(ranked, quota, n, part, at)
    PROVE  \E more : Sofar(ranked, quota, n + 1, Kept(part, ranked[n + 1], quota), more)
<1> DEFINE hit == ranked[n + 1]
           k == Len(part)
<1>1. /\ n \in Nat /\ hit \in Hit /\ FusedTopK \in Nat \ {0}
      /\ part \in Seq(Hit) /\ k \in Nat /\ k <= FusedTopK /\ DOMAIN part = 1 .. k
      /\ \A i \in DOMAIN part : at[i] \in 1 .. n
    BY LimitsAssumption DEF Sofar
<1>2. \A other : SameRoot(part, other) \in Nat
    BY <1>1, SameRootCounts
<1>3. CASE SameRoot(part, hit) >= quota \/ k >= FusedTopK
  <2>1. Kept(part, hit, quota) = part
      BY <1>3 DEF Kept
  <2>2. at \in [DOMAIN part -> 1 .. n + 1]
      BY <1>1 DEF Sofar
  <2>3. \A i \in 1 .. n + 1 : i \in 1 .. n \/ i = n + 1
      BY <1>1
  <2>4. \A i \in 1 .. n + 1 : \/ \E l \in DOMAIN part : at[l] = i
                              \/ SameRoot(part, ranked[i]) >= quota
                              \/ Len(part) >= FusedTopK
      BY <1>3, <2>3 DEF Sofar
  <2>5. Sofar(ranked, quota, n + 1, part, at)
      BY <2>2, <2>4 DEF Sofar
  <2> QED BY <2>1, <2>5
<1>4. CASE ~(SameRoot(part, hit) >= quota) /\ ~(k >= FusedTopK)
  <2> DEFINE all == Append(part, hit)
             more == [i \in 1 .. k + 1 |-> IF i \in 1 .. k THEN at[i] ELSE n + 1]
  <2>1. Kept(part, hit, quota) = all
      BY <1>4 DEF Kept
  <2>2. /\ all \in Seq(Hit) /\ DOMAIN all = 1 .. k + 1 /\ Len(all) = k + 1
        /\ all[k + 1] = hit /\ \A i \in 1 .. k : all[i] = part[i]
      BY <1>1
  <2>3. /\ DOMAIN more = 1 .. k + 1 /\ more[k + 1] = n + 1
        /\ \A i \in 1 .. k : more[i] = at[i]
        /\ \A i \in 1 .. k + 1 : i \in 1 .. k \/ i = k + 1
        /\ \A i \in 1 .. k : i \in 1 .. k + 1 /\ i < k + 1
        /\ k + 1 \in 1 .. k + 1
      BY <1>1
  <2>4. \A other : /\ SameRoot(all, other) \in Nat
                   /\ SameRoot(all, other)
                        = SameRoot(part, other)
                            + IF RootOf[hit.leaf] = RootOf[other.leaf] THEN 1 ELSE 0
                   /\ SameRoot(all, other) >= SameRoot(part, other)
    <3> SUFFICES ASSUME NEW other
                 PROVE  /\ SameRoot(all, other) \in Nat
                        /\ SameRoot(all, other)
                             = SameRoot(part, other)
                                 + IF RootOf[hit.leaf] = RootOf[other.leaf] THEN 1 ELSE 0
                        /\ SameRoot(all, other) >= SameRoot(part, other)
        OBVIOUS
    <3>1. SameRoot(part, other) \in Nat
        BY <1>2
    <3>2. SameRoot(all, other)
              = SameRoot(part, other) + IF RootOf[hit.leaf] = RootOf[other.leaf] THEN 1 ELSE 0
        BY <1>1, SameRootCounts
    <3> HIDE DEF all, hit
    <3> QED BY <3>1, <3>2
  <2> HIDE DEF all, more, k
  <2>5. Len(all) <= FusedTopK
      BY <1>1, <1>4, <2>2
  <2>6. more \in [DOMAIN all -> 1 .. n + 1]
    <3>1. \A i \in 1 .. k + 1 : more[i] \in 1 .. n + 1
        BY <1>1, <2>3
    <3>2. more = [i \in 1 .. k + 1 |-> more[i]]
        BY DEF more
    <3> QED BY <2>2, <3>1, <3>2
  <2>7. \A i \in DOMAIN all : all[i] = ranked[more[i]]
      BY <1>1, <2>2, <2>3 DEF Sofar, hit
  <2>8. \A i, l \in DOMAIN all : i < l <=> more[i] < more[l]
    <3> SUFFICES ASSUME NEW i \in 1 .. k + 1, NEW l \in 1 .. k + 1
                 PROVE  i < l <=> more[i] < more[l]
        BY <2>2
    <3>1. CASE i \in 1 .. k /\ l \in 1 .. k
        BY <1>1, <2>3, <3>1 DEF Sofar
    <3>2. CASE i \in 1 .. k /\ l = k + 1
        BY <1>1, <2>3, <3>2
    <3>3. CASE i = k + 1 /\ l \in 1 .. k
        BY <1>1, <2>3, <3>3
    <3>4. CASE i = k + 1 /\ l = k + 1
        BY <1>1, <2>3, <3>4
    <3> QED BY <2>3, <3>1, <3>2, <3>3, <3>4
  <2>9. \A other : SameRoot(all, other) <= quota
    <3> SUFFICES ASSUME NEW other  PROVE SameRoot(all, other) <= quota
        OBVIOUS
    <3>1. SameRoot(part, other) \in Nat /\ SameRoot(part, other) <= quota
        BY <1>2 DEF Sofar
    <3>2. RootOf[hit.leaf] = RootOf[other.leaf] => SameRoot(part, hit) = SameRoot(part, other)
        BY DEF SameRoot
    <3>3. SameRoot(part, hit) \in Nat /\ ~(SameRoot(part, hit) >= quota)
        BY <1>2, <1>4
    <3> HIDE DEF hit
    <3> QED BY <2>4, <3>1, <3>2, <3>3
  <2>10. ASSUME NEW i \in 1 .. n, \/ \E l \in DOMAIN part : at[l] = i
                                  \/ SameRoot(part, ranked[i]) >= quota
         PROVE  (\E l \in DOMAIN all : more[l] = i) \/ SameRoot(all, ranked[i]) >= quota
    <3>1. CASE \E l \in DOMAIN part : at[l] = i
        BY <1>1, <2>2, <2>3, <3>1
    <3>2. CASE SameRoot(part, ranked[i]) >= quota
      <4>1. SameRoot(part, ranked[i]) \in Nat /\ SameRoot(all, ranked[i]) \in Nat
          BY <1>2, <2>4
      <4>2. SameRoot(all, ranked[i]) >= SameRoot(part, ranked[i])
          BY <2>4
      <4> QED BY <3>2, <4>1, <4>2
    <3> QED BY <2>10, <3>1, <3>2
  <2>11. \A i \in 1 .. n : \/ \E l \in DOMAIN part : at[l] = i
                           \/ SameRoot(part, ranked[i]) >= quota
      BY <1>4 DEF Sofar, k
  <2>12. \A i \in 1 .. n + 1 : \/ \E l \in DOMAIN all : more[l] = i
                               \/ SameRoot(all, ranked[i]) >= quota
                               \/ Len(all) >= FusedTopK
    <3> SUFFICES ASSUME NEW i \in 1 .. n + 1
                 PROVE  (\E l \in DOMAIN all : more[l] = i) \/ SameRoot(all, ranked[i]) >= quota
        OBVIOUS
    <3>1. CASE i \in 1 .. n
        BY <2>10, <2>11, <3>1
    <3>2. CASE i = n + 1
        BY <2>2, <2>3, <3>2
    <3>3. i \in 1 .. n \/ i = n + 1
        BY <1>1
    <3> QED BY <3>1, <3>2, <3>3
  <2>13. \A l \in DOMAIN all : \A i \in 1 .. more[l] - 1 :
            (\E m \in DOMAIN all : more[m] = i) \/ SameRoot(all, ranked[i]) >= quota
    <3> SUFFICES ASSUME NEW l \in DOMAIN all, NEW i \in 1 .. more[l] - 1
                 PROVE  i \in 1 .. n
        BY <2>10, <2>11
    <3>1. more[l] \in 1 .. n + 1
        BY <2>6
    <3> QED BY <1>1, <3>1
  <2>14. Sofar(ranked, quota, n + 1, all, more)
      BY <2>2, <2>5, <2>6, <2>7, <2>8, <2>9, <2>12, <2>13 DEF Sofar
  <2> QED BY <2>1, <2>14
<1> QED BY <1>3, <1>4

LEMMA FuseIsSound ==
    ASSUME NEW list \in Seq(Branch), NEW quota \in Nat \ {0}
    PROVE  \E at : Sofar(Ordered(list), quota, Len(Ordered(list)), Fuse(list, quota), at)
<1> DEFINE ranked == Ordered(list)
           k == Len(ranked)
<1>1. ranked \in Seq(Hit) /\ k \in Nat
    BY OrderedIsRanked DEF Ranked
<1>2. PICK kept : Fusing(ranked, quota, kept) /\ Fuse(list, quota) = kept[k]
    BY <1>1, FuseTakes
<1> HIDE DEF ranked
<1> DEFINE T == {n \in Nat : n <= k => \E at : Sofar(ranked, quota, n, kept[n], at)}
<1>3. 0 \in T
  <2> DEFINE at == [i \in {} |-> 0]
             none == <<>>
  <2>1. none \in Seq(Hit) /\ Len(none) = 0 /\ DOMAIN none = {} /\ 0 <= FusedTopK
      BY LimitsAssumption
  <2>2. \A hit : SameRoot(none, hit) = 0
    <3> SUFFICES ASSUME NEW hit  PROVE SameRoot(none, hit) = 0
        OBVIOUS
    <3>1. {i \in DOMAIN none : RootOf[none[i].leaf] = RootOf[hit.leaf]} = {}
        BY <2>1
    <3> QED BY <3>1, FS_EmptySet DEF SameRoot
  <2>3. at \in [DOMAIN none -> 1 .. 0] /\ 1 .. 0 = {}
      BY <2>1
  <2> HIDE DEF at, none
  <2>4. Sofar(ranked, quota, 0, none, at)
      BY <2>1, <2>2, <2>3 DEF Sofar
  <2>5. kept[0] = none
      BY <1>2 DEF Fusing, none
  <2> QED BY <2>4, <2>5
<1>4. ASSUME NEW n \in Nat, n \in T  PROVE n + 1 \in T
  <2> SUFFICES ASSUME n + 1 <= k
               PROVE  \E at : Sofar(ranked, quota, n + 1, kept[n + 1], at)
      BY <1>4
  <2>1. n <= k /\ n \in 0 .. Len(ranked) - 1
      BY <1>1
  <2>2. PICK at : Sofar(ranked, quota, n, kept[n], at)
      BY <1>4, <2>1
  <2>3. kept[n + 1] = Kept(kept[n], ranked[n + 1], quota)
      BY <1>2, <2>1 DEF Fusing
  <2> HIDE DEF k
  <2>4. \E more : Sofar(ranked, quota, n + 1, Kept(kept[n], ranked[n + 1], quota), more)
      BY <1>1, <2>1, <2>2, SofarTakes
  <2> QED BY <2>3, <2>4
<1>5. Nat \subseteq T
  <2> HIDE DEF T
  <2> QED BY <1>3, <1>4, NumberInduction
<1>6. k \in T /\ k <= k
    BY <1>1, <1>5
<1>7. \E at : Sofar(ranked, quota, k, kept[k], at)
    BY <1>6
<1> QED BY <1>2, <1>7 DEF ranked

-----------------------------------------------------------------------------
Distinct(list) == \A i, j \in DOMAIN list : list[i].leaf = list[j].leaf => i = j
Descending(list) == \A i, j \in DOMAIN list : i < j => list[i].score >= list[j].score

LEMMA FusedInOrder ==
    ASSUME NEW list \in Seq(Branch), NEW quota \in Nat \ {0}
    PROVE  /\ Fuse(list, quota) \in Seq(Hit)
           /\ Distinct(Fuse(list, quota)) /\ Descending(Fuse(list, quota))
<1> DEFINE ranked == Ordered(list)
           part == Fuse(list, quota)
<1>1. PICK at : Sofar(ranked, quota, Len(ranked), part, at)
    BY FuseIsSound
<1>2. Ranked(list, ranked)
    BY OrderedIsRanked
<1> HIDE DEF ranked, part
<1>3. /\ part \in Seq(Hit)
      /\ DOMAIN ranked = 1 .. Len(ranked)
      /\ \A i \in DOMAIN part : i \in Nat /\ at[i] \in DOMAIN ranked /\ part[i] = ranked[at[i]]
      /\ \A i, j \in DOMAIN part : i < j <=> at[i] < at[j]
      /\ \A i \in DOMAIN ranked : i \in Nat /\ ranked[i] \in Hit
  <2>1. DOMAIN ranked = 1 .. Len(ranked) /\ \A i \in DOMAIN ranked : i \in Nat /\ ranked[i] \in Hit
      BY <1>2, PlacesOf DEF Ranked
  <2>2. part \in Seq(Hit)
      BY <1>1 DEF Sofar
  <2>3. \A i \in DOMAIN part : i \in Nat
      BY <2>2
  <2>4. \A i \in DOMAIN part : at[i] \in DOMAIN ranked /\ part[i] = ranked[at[i]]
      BY <1>1, <2>1 DEF Sofar
  <2>5. \A i, j \in DOMAIN part : i < j <=> at[i] < at[j]
      BY <1>1 DEF Sofar
  <2> QED BY <2>1, <2>2, <2>3, <2>4, <2>5
<1>4. Distinct(part)
  <2> SUFFICES ASSUME NEW i \in DOMAIN part, NEW j \in DOMAIN part, part[i].leaf = part[j].leaf
               PROVE  i = j
      BY DEF Distinct
  <2>1. at[i] = at[j]
      BY <1>2, <1>3 DEF Ranked
  <2>2. ~(at[i] < at[j]) /\ ~(at[j] < at[i])
      BY <1>3, <2>1
  <2> QED BY <1>3, <2>2
<1>5. Descending(part)
  <2> SUFFICES ASSUME NEW i \in DOMAIN part, NEW j \in DOMAIN part, i < j
               PROVE  part[i].score >= part[j].score
      BY DEF Descending
  <2>1. Better(ranked[at[i]], ranked[at[j]])
      BY <1>2, <1>3 DEF Ranked
  <2>2. ranked[at[i]].score \in Nat /\ ranked[at[j]].score \in Nat
      BY <1>3 DEF Hit
  <2>3. ranked[at[i]].score >= ranked[at[j]].score
      BY <2>1, <2>2 DEF Better
  <2> QED BY <1>3, <2>3
<1> QED BY <1>3, <1>4, <1>5 DEF part

LEMMA HitsKeep ==
    ASSUME NEW list \in Seq(Hit), NEW places \in SUBSET DOMAIN list
    PROVE  /\ HitsAt(list, places) \in Seq(Hit)
           /\ Distinct(list) => Distinct(HitsAt(list, places))
           /\ Descending(list) => Descending(HitsAt(list, places))
<1> DEFINE part == HitsAt(list, places)
<1>1. part \in Seq(Hit)
    BY HitsInOrder
<1>2. PICK order : Sublist(part, list, order, places)
    BY HitsInOrder
<1> HIDE DEF part
<1>3. /\ \A n \in DOMAIN part : n \in Nat /\ order[n] \in DOMAIN list /\ order[n] \in Nat
                                /\ part[n] = list[order[n]]
      /\ \A m, n \in DOMAIN part : m < n <=> order[m] < order[n]
    BY <1>1, <1>2 DEF Sublist
<1>4. ASSUME Distinct(list)  PROVE Distinct(part)
  <2> SUFFICES ASSUME NEW m \in DOMAIN part, NEW n \in DOMAIN part, part[m].leaf = part[n].leaf
               PROVE  m = n
      BY DEF Distinct
  <2>1. order[m] = order[n]
      BY <1>3, <1>4 DEF Distinct
  <2>2. ~(order[m] < order[n]) /\ ~(order[n] < order[m])
      BY <1>3, <2>1
  <2> QED BY <1>3, <2>2
<1>5. ASSUME Descending(list)  PROVE Descending(part)
    BY <1>3, <1>5 DEF Descending
<1> QED BY <1>1, <1>4, <1>5 DEF part
-----------------------------------------------------------------------------
(* Selection. *)
Answers(items) ==
    [{items[i].leaf : i \in DOMAIN Candidates(items)} -> ScoreLevels] \cup {Unscored}

Scored(items, answer) ==
    [i \in DOMAIN Candidates(items) |->
        IF answer = Unscored THEN Candidates(items)[i].score
        ELSE answer[Candidates(items)[i].leaf]]

Above(score, i, j) == score[i] > score[j] \/ (score[i] = score[j] /\ i < j)

LEMMA CandidatesAre ==
    ASSUME NEW items \in Seq(Hit)
    PROVE  /\ Candidates(items) \in Seq(Hit)
           /\ \A i \in DOMAIN Candidates(items) : /\ i \in DOMAIN items /\ i \in Nat
                                                  /\ Candidates(items)[i] = items[i]
<1> DEFINE m == Min({RerankCandidates, Len(items)})
<1>1. RerankCandidates \in Nat /\ Len(items) \in Nat /\ DOMAIN items = 1 .. Len(items)
    BY LimitsAssumption
<1>2. m \in Nat /\ m <= Len(items)
    BY <1>1, LesserOfTwo
<1> HIDE DEF m
<1>3. /\ SubSeq(items, 1, m) \in Seq(Hit)
      /\ DOMAIN SubSeq(items, 1, m) = 1 .. m
      /\ \A i \in 1 .. m : SubSeq(items, 1, m)[i] = items[i]
    BY <1>1, <1>2
<1>4. Candidates(items) = SubSeq(items, 1, m)
    BY DEF Candidates, m
<1> QED BY <1>1, <1>2, <1>3, <1>4

LEMMA ScoresAreNumbers ==
    ASSUME NEW items \in Seq(Hit), NEW answer \in Answers(items)
    PROVE  \A i \in DOMAIN Candidates(items) : Scored(items, answer)[i] \in Nat
<1> SUFFICES ASSUME NEW i \in DOMAIN Candidates(items)
             PROVE  Scored(items, answer)[i] \in Nat
    OBVIOUS
<1>1. Candidates(items)[i] \in Hit /\ Candidates(items)[i] = items[i]
    BY CandidatesAre, PlacesOf
<1>2. CASE answer = Unscored
    BY <1>1, <1>2 DEF Scored, Hit
<1>3. CASE answer # Unscored
  <2>1. answer[items[i].leaf] \in ScoreLevels
      BY <1>3 DEF Answers
  <2> QED BY <1>1, <1>3, <2>1, RoutesAssumption DEF Scored
<1> QED BY <1>2, <1>3

(* The candidates by score; the first of them are selected. *)
Selecting(items, answer, order) ==
    LET candidates == Candidates(items)
        score == Scored(items, answer)
        k == Len(candidates)
    IN  /\ order \in [1 .. k -> DOMAIN candidates]
        /\ \A i \in DOMAIN candidates : \E n \in 1 .. k : order[n] = i
        /\ \A m, n \in 1 .. k : m < n <=> Above(score, order[m], order[n])
        /\ Select(items, answer)
             = [n \in 1 .. Min({SelectedLeafK, k}) |->
                   Rescored(candidates[order[n]], score[order[n]])]

LEMMA SelectionIsOrdered ==
    ASSUME NEW items \in Seq(Hit), NEW answer \in Answers(items)
    PROVE  \E order : Selecting(items, answer, order)
<1> DEFINE candidates == Candidates(items)
           score == Scored(items, answer)
           k == Len(candidates)
           D == DOMAIN candidates
           Score(i) == IF answer = Unscored THEN candidates[i].score
                       ELSE answer[candidates[i].leaf]
           Comes(i, j) == Score(i) > Score(j) \/ (Score(i) = Score(j) /\ i < j)
           R == {p \in D \X D : Above(score, p[1], p[2])}
           order == Listing(D, R)
<1>1. D = 1 .. k /\ k \in Nat /\ IsFiniteSet(D) /\ Cardinality(D) = k
  <2>1. D = 1 .. k /\ k \in Nat /\ IsFiniteSet(D)
      BY CandidatesAre, PlacesOf
  <2>2. Cardinality(1 .. k) = k
    <3> HIDE DEF k
    <3>1. Cardinality(1 .. k) = IF 1 > k THEN 0 ELSE k - 1 + 1
        BY <2>1, FS_Interval
    <3> QED BY <2>1, <3>1
  <2> QED BY <2>1, <2>2
<1>2. \A i \in D : score[i] \in Nat /\ i \in Nat /\ Score(i) = score[i]
  <2>1. \A i \in D : score[i] \in Nat /\ i \in Nat
      BY <1>1, ScoresAreNumbers
  <2> QED BY <2>1 DEF Scored
<1> HIDE DEF D, score
<1>3. Ordering(D, R)
  <2> SUFFICES /\ \A x \in D : ~Above(score, x, x)
               /\ \A x, y \in D : x # y => Above(score, x, y) \/ Above(score, y, x)
               /\ \A x, y, z \in D : Above(score, x, y) /\ Above(score, y, z) => Above(score, x, z)
      BY DEF Ordering
  <2>1. \A x \in D : score[x] \in Nat /\ x \in Nat
      BY <1>2
  <2>2. \A x \in D : ~Above(score, x, x)
      BY <2>1 DEF Above
  <2>3. \A x, y \in D : x # y => Above(score, x, y) \/ Above(score, y, x)
      BY <2>1 DEF Above
  <2>4. \A x, y, z \in D : Above(score, x, y) /\ Above(score, y, z) => Above(score, x, z)
      BY <2>1 DEF Above
  <2> QED BY <2>2, <2>3, <2>4
<1>4. \A x \in D : Lower(D, R, x) = {y \in D : Above(score, y, x)}
    BY DEF Lower
<1>5. \A x, y \in D : <<x, y>> \in R <=> Above(score, x, y)
    OBVIOUS
<1>6. \A x, y \in D : Comes(x, y) <=> Above(score, x, y)
    BY <1>2 DEF Above
<1>7. \A x \in D : {y \in D : Comes(y, x)} = Lower(D, R, x)
    BY <1>4, <1>6
<1> HIDE DEF R
<1>8. /\ order \in [1 .. k -> D]
      /\ \A x \in D : \E n \in 1 .. k : order[n] = x
      /\ \A m, n \in 1 .. k : m < n <=> <<order[m], order[n]>> \in R
  <2>1. IsFiniteSet(D)
      BY <1>1
  <2>2. /\ Listing(D, R) \in [1 .. Cardinality(D) -> D]
        /\ \A x \in D : \E n \in 1 .. Cardinality(D) : Listing(D, R)[n] = x
        /\ \A m, n \in 1 .. Cardinality(D) :
               m < n <=> <<Listing(D, R)[m], Listing(D, R)[n]>> \in R
      BY <1>3, <2>1, ListingInOrder
  <2> HIDE DEF k, order
  <2>3. Cardinality(D) = k
      BY <1>1
  <2> QED BY <2>2, <2>3 DEF order
<1>9. InOrder(D, LAMBDA i, j : Comes(i, j)) = order
  <2>1. InOrder(D, LAMBDA i, j : Comes(i, j))
            = [n \in 1 .. Cardinality(D) |->
                  CHOOSE x \in D : Cardinality({y \in D : Comes(y, x)}) = n - 1]
      BY Zenon DEF InOrder
  <2> HIDE DEF Comes
  <2>2. \A n : \A x \in D :
            Cardinality({y \in D : Comes(y, x)}) = n - 1
                <=> Cardinality(Lower(D, R, x)) = n - 1
      BY <1>7
  <2>3. \A n : (CHOOSE x \in D : Cardinality({y \in D : Comes(y, x)}) = n - 1)
                = (CHOOSE x \in D : Cardinality(Lower(D, R, x)) = n - 1)
      BY <2>2
  <2> QED BY <2>1, <2>3 DEF Listing
<1>10. Select(items, answer)
          = [n \in 1 .. Min({SelectedLeafK, k}) |->
                Rescored(candidates[InOrder(D, LAMBDA i, j : Comes(i, j))[n]],
                         Score(InOrder(D, LAMBDA i, j : Comes(i, j))[n]))]
    BY Zenon DEF Select, D
<1>11. Select(items, answer)
          = [n \in 1 .. Min({SelectedLeafK, k}) |->
                Rescored(candidates[order[n]], Score(order[n]))]
    BY <1>9, <1>10
<1>12. \A n \in 1 .. Min({SelectedLeafK, k}) : n \in 1 .. k /\ Score(order[n]) = score[order[n]]
  <2>1. SelectedLeafK \in Nat
      BY LimitsAssumption
  <2>2. Min({SelectedLeafK, k}) <= k /\ Min({SelectedLeafK, k}) \in Nat
      BY <1>1, <2>1, LesserOfTwo
  <2>3. \A n \in 1 .. Min({SelectedLeafK, k}) : n \in 1 .. k
      BY <1>1, <2>2
  <2> HIDE DEF Score, order, k
  <2> QED BY <1>2, <1>8, <2>3
<1>13. \A m, n \in 1 .. k : m < n <=> Above(score, order[m], order[n])
    BY <1>5, <1>8
<1> HIDE DEF order, Score
<1>14. Select(items, answer)
          = [n \in 1 .. Min({SelectedLeafK, k}) |->
                Rescored(candidates[order[n]], score[order[n]])]
    BY <1>11, <1>12
<1> QED BY <1>8, <1>13, <1>14 DEF Selecting, D, score

LEMMA SelectedAreHits ==
    ASSUME NEW items \in Seq(Hit), Distinct(items), NEW answer \in Answers(items)
    PROVE  /\ Select(items, answer) \in Seq(Hit) /\ Distinct(Select(items, answer))
           /\ Relevant(Select(items, answer), answer) \in Seq(Hit)
           /\ Distinct(Relevant(Select(items, answer), answer))
<1> DEFINE candidates == Candidates(items)
           score == Scored(items, answer)
           k == Len(candidates)
           m == Min({SelectedLeafK, k})
           part == Select(items, answer)
<1>1. PICK order : Selecting(items, answer, order)
    BY SelectionIsOrdered
<1>2. k \in Nat /\ m \in Nat /\ m <= k
  <2>1. k \in Nat /\ SelectedLeafK \in Nat
      BY CandidatesAre, LimitsAssumption
  <2> QED BY <2>1, LesserOfTwo
<1>3. part = [n \in 1 .. m |-> Rescored(candidates[order[n]], score[order[n]])]
    BY <1>1 DEF Selecting
<1>4. \A n \in 1 .. m : order[n] \in DOMAIN candidates
    BY <1>1, <1>2 DEF Selecting
<1>5. \A i \in DOMAIN candidates : /\ score[i] \in Nat /\ i \in DOMAIN items
                                   /\ candidates[i] \in Hit /\ candidates[i] = items[i]
    BY CandidatesAre, ScoresAreNumbers, PlacesOf
<1>6. \A n \in 1 .. m : /\ n \in 1 .. k /\ n \in Nat
                        /\ part[n] \in Hit
                        /\ part[n].leaf = items[order[n]].leaf
  <2> SUFFICES ASSUME NEW n \in 1 .. m
               PROVE  n \in 1 .. k /\ n \in Nat /\ part[n] \in Hit
                      /\ part[n].leaf = items[order[n]].leaf
      OBVIOUS
  <2>1. n \in 1 .. k /\ n \in Nat
      BY <1>2
  <2>2. part[n] = Rescored(candidates[order[n]], score[order[n]])
      BY <1>3
  <2> HIDE DEF part, candidates, score
  <2>3. candidates[order[n]] \in Hit /\ score[order[n]] \in Nat
        /\ candidates[order[n]] = items[order[n]]
      BY <1>4, <1>5
  <2>4. part[n] \in Hit /\ part[n].leaf = items[order[n]].leaf
      BY <2>2, <2>3 DEF Rescored, Hit
  <2> QED BY <2>1, <2>4
<1> HIDE DEF candidates, score, k, m, part
<1>7. part \in Seq(Hit) /\ DOMAIN part = 1 .. m
  <2>1. part \in [1 .. m -> Hit]
      BY <1>3, <1>6
  <2> QED BY <1>2, <2>1
<1>8. Distinct(part)
  <2> SUFFICES ASSUME NEW i \in 1 .. m, NEW j \in 1 .. m, part[i].leaf = part[j].leaf
               PROVE  i = j
      BY <1>7 DEF Distinct
  <2>1. order[i] = order[j]
      BY <1>4, <1>5, <1>6 DEF Distinct
  <2>2. order[i] \in Nat
      BY <1>4, CandidatesAre DEF candidates
  <2>3. ~Above(score, order[i], order[j]) /\ ~Above(score, order[j], order[i])
    <3>1. score[order[i]] \in Nat
        BY <1>4, <1>5
    <3> QED BY <2>1, <2>2, <3>1 DEF Above
  <2>4. ~(i < j) /\ ~(j < i)
      BY <1>1, <1>6, <2>3 DEF Selecting, candidates, score, k
  <2> QED BY <1>6, <2>4
<1>9. Relevant(part, answer) \in Seq(Hit) /\ Distinct(Relevant(part, answer))
  <2>1. {i \in DOMAIN part : part[i].score > 0} \in SUBSET DOMAIN part
      OBVIOUS
  <2>2. /\ HitsAt(part, {i \in DOMAIN part : part[i].score > 0}) \in Seq(Hit)
        /\ Distinct(HitsAt(part, {i \in DOMAIN part : part[i].score > 0}))
      BY <1>7, <1>8, <2>1, HitsKeep
  <2> QED BY <1>7, <1>8, <2>2 DEF Relevant
<1> QED BY <1>7, <1>8, <1>9 DEF part

-----------------------------------------------------------------------------
(* The funnel. *)
Fused == stage = "authorize" => hits = Fuse(branches, Quota)
Unjudged ==
    /\ stage \in {"search", "fuse", "authorize", "rerank"} => scores = Unscored
    /\ stage = "rerank" => Descending(hits)
ScopeResolved ==
    stage \in {"rerank", "texts", "roots"} =>
        /\ resolved \subseteq permission
        /\ \A filter \in Filters(scope) : resolved \subseteq filter

FunnelInv ==
    /\ branches \in Seq(Branch)
    /\ hits \in Seq(Hit) /\ Distinct(hits)
    /\ texts \subseteq Leaves
    /\ Fused /\ Unjudged /\ ScopeResolved

LEMMA QuotaIsPositive ==
    ASSUME branches \in Seq(Branch)
    PROVE  Quota \in Nat \ {0}
<1> DEFINE routes == {branches[i].query : i \in DOMAIN branches}
           S == {LeavesPerRoot, Cardinality(routes)}
           route == [i \in DOMAIN branches |-> branches[i].query]
<1>1. IsFiniteSet(routes)
  <2>1. IsFiniteSet(DOMAIN branches)
      BY PlacesOf
  <2>2. route \in Surjection(DOMAIN branches, routes)
      BY DEF Surjection
  <2> HIDE DEF route, routes
  <2> QED BY <2>1, <2>2, FS_Surjection
<1>2. Cardinality(routes) \in Nat /\ LeavesPerRoot \in Nat \ {0}
    BY <1>1, FS_CardinalityType, LimitsAssumption
<1> HIDE DEF routes
<1>3. IsFiniteSet(S) /\ S # {} /\ S \in SUBSET Int
  <2>1. S = {LeavesPerRoot} \cup {Cardinality(routes)}
      OBVIOUS
  <2>2. IsFiniteSet({LeavesPerRoot} \cup {Cardinality(routes)})
      BY FS_Singleton, FS_AddElement
  <2>3. S # {} /\ S \in SUBSET Int
      BY <1>2
  <2> HIDE DEF S
  <2> QED BY <2>1, <2>2, <2>3
<1>4. Max(S) \in S /\ \A y \in S : Max(S) >= y
  <2> HIDE DEF S
  <2> QED BY <1>3, GreatestExists
<1>5. Max(S) >= LeavesPerRoot /\ Max(S) \in Nat
    BY <1>2, <1>4
<1>6. Quota = Max(S)
    BY DEF Quota, RootQuota, routes
<1> HIDE DEF S
<1> QED BY <1>2, <1>5, <1>6

LEMMA FunnelStarts ==
    ASSUME FunnelInit  PROVE FunnelInv
<1>1. /\ stage = "search" /\ branches = <<>> /\ hits = <<>> /\ scores = Unscored /\ texts = {}
    BY DEF FunnelInit
<1>2. branches \in Seq(Branch) /\ hits \in Seq(Hit) /\ Distinct(hits)
    BY <1>1 DEF Distinct
<1> QED BY <1>1, <1>2 DEF FunnelInv, Fused, Unjudged, ScopeResolved

LEMMA SearchKeeps ==
    ASSUME FunnelInv, stage = "search", NEW lists \in SUBSET (Queries \X Methods), Searched(lists)
    PROVE  FunnelInv'
<1> DEFINE leaves == Prefiltered(scope, permission)
<1>1. leaves \in SUBSET Leaves
    BY DEF Prefiltered
<1> HIDE DEF leaves
<1>2. branches' \in Seq(Branch)
  <2>1. PICK found \in [lists -> Rankings(leaves)] :
            branches' = SetToSeq({[query |-> b[1], method |-> b[2], hits |-> found[b]] :
                                     b \in lists})
      BY DEF Searched, leaves
  <2> QED BY <1>1, <2>1, SearchFindsBranches
<1>3. stage' = "fuse" /\ UNCHANGED <<hits, scores, texts>>
    BY DEF Searched
<1>4. hits' \in Seq(Hit) /\ Distinct(hits)' /\ texts' \subseteq Leaves /\ scores' = Unscored
    BY <1>3 DEF FunnelInv, Unjudged, Distinct
<1> QED BY <1>2, <1>3, <1>4 DEF FunnelInv, Fused, Unjudged, ScopeResolved

LEMMA FuseKeeps ==
    ASSUME FunnelInv, FuseBranches  PROVE FunnelInv'
<1>1. /\ stage = "fuse" /\ stage' = "authorize"
      /\ hits' = Fuse(branches, Quota) /\ UNCHANGED <<branches, scores, texts>>
    BY DEF FuseBranches
<1>2. branches \in Seq(Branch) /\ texts \subseteq Leaves /\ scores = Unscored
    BY <1>1 DEF FunnelInv, Unjudged
<1>3. hits' \in Seq(Hit) /\ Distinct(hits')
    BY <1>1, <1>2, QuotaIsPositive, FusedInOrder
<1>4. Distinct(hits)'
    BY <1>3 DEF Distinct
<1>5. Fused'
    BY <1>1 DEF Fused, Quota
<1> QED BY <1>1, <1>2, <1>3, <1>4, <1>5 DEF FunnelInv, Unjudged, ScopeResolved

LEMMA AuthorizeKeeps ==
    ASSUME FunnelInv, Authorize  PROVE FunnelInv'
<1>1. /\ stage = "authorize" /\ branches' = <<>>
      /\ resolved' = Resolve(ready, permission, scope)
      /\ UNCHANGED <<scores, texts, permission, scope>>
    BY DEF Authorize, inputs
<1>2. /\ branches \in Seq(Branch) /\ texts \subseteq Leaves /\ scores = Unscored
      /\ hits \in Seq(Hit) /\ hits = Fuse(branches, Quota)
    BY <1>1 DEF FunnelInv, Unjudged, Fused
<1>3. Distinct(hits) /\ Descending(hits)
    BY <1>2, QuotaIsPositive, FusedInOrder
<1>4. CASE resolved' = Conflict
  <2>1. stage' = "conflict" /\ hits' = <<>>
      BY <1>4 DEF Authorize
  <2>2. hits' \in Seq(Hit) /\ branches' \in Seq(Branch) /\ Distinct(hits)'
      BY <1>1, <2>1 DEF Distinct
  <2> QED BY <1>1, <1>2, <2>1, <2>2 DEF FunnelInv, Fused, Unjudged, ScopeResolved
<1>5. CASE resolved' # Conflict
  <2> DEFINE places == {i \in DOMAIN hits : hits[i].leaf \in LoadedLeaves(ready, resolved', Leaves)}
  <2>1. stage' = "rerank" /\ hits' = HitsAt(hits, places)
      BY <1>5 DEF Authorize, Prepare
  <2>2. places \in SUBSET DOMAIN hits
      OBVIOUS
  <2> HIDE DEF places
  <2>3. hits' \in Seq(Hit) /\ Distinct(hits') /\ Descending(hits')
      BY <1>2, <1>3, <2>1, <2>2, HitsKeep
  <2>4. branches' \in Seq(Branch)
      BY <1>1
  <2>5. ScopeResolved'
      BY <1>1, <1>5 DEF ScopeResolved, Resolve
  <2> QED BY <1>1, <1>2, <2>1, <2>3, <2>4, <2>5
          DEF FunnelInv, Fused, Unjudged, Distinct, Descending
<1> QED BY <1>4, <1>5

LEMMA RerankKeeps ==
    ASSUME FunnelInv, Rerank  PROVE FunnelInv'
<1>1. /\ stage = "rerank" /\ stage' = "texts"
      /\ hits' = Relevant(Select(hits, scores'), scores')
      /\ UNCHANGED <<branches, resolved, texts, permission, scope>>
    BY DEF Rerank, inputs
<1>2. scores' \in Answers(hits)
  <2>1. scores' \in [{hits[i].leaf : i \in DOMAIN Candidates(hits)} -> ScoreLevels]
                       \cup {Unscored}
      BY DEF Rerank
  <2> QED BY <2>1, Zenon DEF Answers
<1>3. hits \in Seq(Hit) /\ Distinct(hits)
    BY DEF FunnelInv
<1>4. hits' \in Seq(Hit) /\ Distinct(hits')
    BY <1>1, <1>2, <1>3, SelectedAreHits
<1> QED BY <1>1, <1>4 DEF FunnelInv, Fused, Unjudged, ScopeResolved, Distinct

LEMMA LoadKeeps ==
    ASSUME FunnelInv, LoadTexts \/ LoadRoots  PROVE FunnelInv'
<1>1. CASE LoadTexts
  <2>1. /\ stage = "texts" /\ stage' = "roots"
        /\ UNCHANGED <<branches, hits, resolved, permission, scope>>
        /\ texts' \subseteq {hits[i].leaf : i \in DOMAIN hits}
      BY <1>1 DEF LoadTexts, LoadedLeaves, inputs
  <2>2. \A i \in DOMAIN hits : hits[i].leaf \in Leaves
    <3>1. \A i \in DOMAIN hits : hits[i] \in Hit
        BY PlacesOf DEF FunnelInv
    <3> QED BY <3>1 DEF Hit
  <2>3. texts' \subseteq Leaves
      BY <2>1, <2>2
  <2> QED BY <2>1, <2>3 DEF FunnelInv, Fused, Unjudged, ScopeResolved, Distinct
<1>2. CASE LoadRoots
  <2>1. stage' = "restored" /\ UNCHANGED <<branches, hits, texts>>
      BY <1>2 DEF LoadRoots
  <2> QED BY <2>1 DEF FunnelInv, Fused, Unjudged, ScopeResolved, Distinct
<1> QED BY <1>1, <1>2

LEMMA FunnelStutters ==
    ASSUME FunnelInv,
           UNCHANGED <<stage, inputs, branches, hits, scores, resolved, texts>>
    PROVE  FunnelInv'
BY DEF FunnelInv, Fused, Unjudged, ScopeResolved, Distinct, Descending, Quota, inputs

(* Along the funnel the hits stay distinct hits of the fused order, the    *)
(* reranker has answered nothing before it is asked, and what the scope    *)
(* was resolved to is permitted and passes every filter                    *)
(* (SemanticQueryRunner._retrieve).                                        *)
THEOREM FunnelInductive == FunnelSpec => []FunnelInv
<1>1. FunnelInit => FunnelInv
    BY FunnelStarts
<1>2. FunnelInv /\ [FunnelNext]_funnelVars => FunnelInv'
  <2> SUFFICES ASSUME FunnelInv, [FunnelNext]_funnelVars  PROVE FunnelInv'
      OBVIOUS
  <2>1. CASE SearchHybrid
      BY <2>1, SearchKeeps DEF SearchHybrid
  <2>2. CASE SearchSingle
    <3>1. PICK query \in Queries, method \in Methods : stage = "search" /\ Searched({<<query, method>>})
        BY <2>2 DEF SearchSingle
    <3>2. {<<query, method>>} \in SUBSET (Queries \X Methods)
        OBVIOUS
    <3> QED BY <3>1, <3>2, SearchKeeps
  <2>3. CASE FuseBranches
      BY <2>3, FuseKeeps
  <2>4. CASE Authorize
      BY <2>4, AuthorizeKeeps
  <2>5. CASE Rerank
      BY <2>5, RerankKeeps
  <2>6. CASE LoadTexts \/ LoadRoots
      BY <2>6, LoadKeeps
  <2>7. CASE \E document \in Documents : Change(document)
      BY <2>7, FunnelStutters DEF Change
  <2>8. CASE Ended \/ UNCHANGED funnelVars
      BY <2>8, FunnelStutters DEF Ended, funnelVars
  <2> QED BY <2>1, <2>2, <2>3, <2>4, <2>5, <2>6, <2>7, <2>8 DEF FunnelNext
<1> QED BY <1>1, <1>2, PTL DEF FunnelSpec

(* The fused list ranks by the branches and is spread over the roots,      *)
(* whatever the branches found (reciprocal_rank_fusion in fusion.py).      *)
THEOREM FusionIsSound == FunnelSpec => []FusionSound
<1>1. FunnelInv => FusionSound
  <2> SUFFICES ASSUME FunnelInv, stage = "authorize"
               PROVE  DominanceKept /\ EveryRootHeard
      BY DEF FusionSound, DominanceKept, EveryRootHeard
  <2> DEFINE ranked == Ordered(branches)
             k == Len(ranked)
             quota == Quota
  <2>1. branches \in Seq(Branch) /\ hits = Fuse(branches, quota)
      BY DEF FunnelInv, Fused
  <2>2. quota \in Nat \ {0}
      BY <2>1, QuotaIsPositive
  <2> HIDE DEF quota
  <2>3. PICK at : Sofar(ranked, quota, k, hits, at)
      BY <2>1, <2>2, FuseIsSound
  <2>4. Ranked(branches, ranked)
      BY <2>1, OrderedIsRanked
  <2> HIDE DEF ranked
  <2>5. /\ k \in Nat /\ DOMAIN ranked = 1 .. k
        /\ \A i \in 1 .. k : i \in Nat /\ ranked[i] \in Hit
      BY <2>4, PlacesOf DEF Ranked
  <2> HIDE DEF k
  <2>6. /\ hits \in Seq(Hit) /\ Len(hits) \in Nat /\ Len(hits) <= FusedTopK
        /\ \A i \in DOMAIN hits : i \in Nat /\ at[i] \in 1 .. k /\ hits[i] = ranked[at[i]]
        /\ \A i, j \in DOMAIN hits : i < j <=> at[i] < at[j]
      BY <2>3 DEF Sofar
  <2>7. \A leaf : SameRoot(hits, [leaf |-> leaf]) \in Nat
    <3> SUFFICES ASSUME NEW leaf  PROVE SameRoot(hits, [leaf |-> leaf]) \in Nat
        OBVIOUS
    <3>1. IsFiniteSet(DOMAIN hits)
        BY <2>6, PlacesOf
    <3>2. IsFiniteSet({i \in DOMAIN hits : RootOf[hits[i].leaf] = RootOf[[leaf |-> leaf].leaf]})
        BY <3>1, FS_Subset
    <3> QED BY <3>2, FS_CardinalityType DEF SameRoot
  <2>8. \A hit : SameRoot(hits, hit) = SameRoot(hits, [leaf |-> hit.leaf])
      BY DEF SameRoot
  <2>9. DominanceKept
    <3> SUFFICES ASSUME NEW b \in DOMAIN hits, NEW a \in FoundBy(branches), a # hits[b].leaf,
                        \A i \in BranchesOf(branches, a) \cup BranchesOf(branches, hits[b].leaf) :
                            Outranks(branches[i], a, hits[b].leaf)
                 PROVE  \/ Before(hits, a, hits[b].leaf)
                        \/ SameRoot(hits, [leaf |-> a]) >= quota
        BY DEF DominanceKept, quota
    <3>1. PICK i \in 1 .. k : ranked[i] = FusedHit(branches, a)
        BY <2>4, <2>5 DEF Ranked
    <3>2. /\ at[b] \in 1 .. k /\ hits[b] = ranked[at[b]]
          /\ hits[b].leaf \in FoundBy(branches)
          /\ hits[b] = FusedHit(branches, hits[b].leaf)
        BY <2>4, <2>5, <2>6 DEF Ranked
    <3>3. FusedHit(branches, a).score > FusedHit(branches, hits[b].leaf).score
        BY <2>1, <3>2, DominanceScores
    <3>4. Better(ranked[i], ranked[at[b]])
        BY <3>1, <3>2, <3>3 DEF Better
    <3>5. i < at[b]
        BY <2>4, <2>5, <3>2, <3>4 DEF Ranked
    <3>6. i \in 1 .. at[b] - 1
        BY <2>5, <3>2, <3>5
    <3>7. ranked[i].leaf = a
        BY <2>1, <3>1, FusedHitIsHit
    <3>8. CASE \E l \in DOMAIN hits : at[l] = i
      <4>1. PICK l \in DOMAIN hits : at[l] = i
          BY <3>8
      <4>2. l < b /\ hits[l].leaf = a
          BY <2>6, <3>5, <3>7, <4>1
      <4> QED BY <4>1, <4>2 DEF Before
    <3>9. CASE SameRoot(hits, ranked[i]) >= quota
        BY <2>8, <3>7, <3>9
    <3> QED BY <2>3, <3>6, <3>8, <3>9 DEF Sofar
  <2>10. EveryRootHeard
    <3> SUFFICES ASSUME NEW leaf \in FoundBy(branches)
                 PROVE  /\ SameRoot(hits, [leaf |-> leaf]) <= quota
                        /\ SameRoot(hits, [leaf |-> leaf]) = 0 => Len(hits) = FusedTopK
        BY DEF EveryRootHeard, quota
    <3>1. SameRoot(hits, [leaf |-> leaf]) <= quota
        BY <2>3 DEF Sofar
    <3>2. ASSUME SameRoot(hits, [leaf |-> leaf]) = 0  PROVE Len(hits) = FusedTopK
      <4>1. PICK i \in 1 .. k : ranked[i] = FusedHit(branches, leaf)
          BY <2>4, <2>5 DEF Ranked
      <4>2. ranked[i].leaf = leaf /\ ranked[i] \in Hit
          BY <2>1, <4>1, FusedHitIsHit
      <4>3. SameRoot(hits, ranked[i]) = 0
          BY <2>8, <3>2, <4>2
      <4>4. \A l \in DOMAIN hits : at[l] # i
        <5> SUFFICES ASSUME NEW l \in DOMAIN hits, at[l] = i  PROVE FALSE
            OBVIOUS
        <5>1. hits[l] = ranked[i]
            BY <2>6
        <5>2. SameRoot(hits, ranked[i]) # 0
            BY <2>6, <4>2, <5>1, SameRootCounts
        <5> QED BY <4>3, <5>2
      <4>5. ~(SameRoot(hits, ranked[i]) >= quota)
          BY <2>2, <4>3
      <4>6. Len(hits) >= FusedTopK
          BY <2>3, <4>4, <4>5 DEF Sofar
      <4> QED BY <2>6, <4>6, LimitsAssumption
    <3> QED BY <3>1, <3>2
  <2> QED BY <2>9, <2>10
<1> QED BY <1>1, FunnelInductive, PTL

(* What reaches the author was permitted, in the scope and served when its *)
(* root was read, whatever was withdrawn since the search (scope_root.py). *)
THEOREM ContextIsAuthorized == FunnelSpec => OnlyAuthorizedContext
<1> DEFINE Authorized ==
        restored' # restored =>
            \A i \in DOMAIN restored' :
                LET document == DocumentOf[restored'[i].root]
                IN  /\ document \in permission \cap ready
                    /\ \A filter \in Filters(scope) : document \in filter
<1>1. FunnelInv /\ [FunnelNext]_funnelVars => [Authorized]_funnelVars
  <2> SUFFICES ASSUME FunnelInv, FunnelNext, restored' # restored  PROVE Authorized
      OBVIOUS
  <2>1. LoadRoots
      BY DEF FunnelNext, SearchHybrid, SearchSingle, Searched, FuseBranches, Authorize,
             Rerank, LoadTexts, Change, Ended, funnelVars
  <2> DEFINE stored == LoadedRoots(ready, resolved, ToSet(RootsInOrder(hits)))
  <2>2. stage = "roots" /\ restored' = Restore(hits, texts, stored)
      BY <2>1 DEF LoadRoots
  <2>3. \A root \in stored : DocumentOf[root] \in ready \cap resolved
      BY DEF LoadedRoots
  <2> HIDE DEF stored
  <2>4. hits \in Seq(Hit) /\ texts \in SUBSET Leaves
      BY DEF FunnelInv
  <2>5. \A i \in DOMAIN restored' : restored'[i].root \in stored
    <3>1. restored' \in Seq(Pieces(hits, stored))
        BY <2>2, <2>4, RestoringShares
    <3> QED BY <3>1, PiecesAre
  <2>6. /\ resolved \subseteq permission
        /\ \A filter \in Filters(scope) : resolved \subseteq filter
      BY <2>2 DEF FunnelInv, ScopeResolved
  <2> QED BY <2>3, <2>5, <2>6
<1>2. [][Authorized]_funnelVars => OnlyAuthorizedContext
    BY PTL DEF OnlyAuthorizedContext
<1> QED BY <1>1, <1>2, FunnelInductive, PTL DEF FunnelSpec

-----------------------------------------------------------------------------
(* The candidates that are kept, when as many as may be are selected, are  *)
(* the first of the order.                                                 *)
KeptLeaves(list) == {list[i].leaf : i \in DOMAIN list}

OrderKept(items, answer, list) ==
    \A i, j \in DOMAIN Candidates(items) :
        Before(list, Candidates(items)[i].leaf, Candidates(items)[j].leaf)
            => Scored(items, answer)[i] >= Scored(items, answer)[j]

BestKept(items, answer, list) ==
    \A i \in DOMAIN Candidates(items) :
        \/ Candidates(items)[i].leaf \in KeptLeaves(list)
        \/ Scored(items, answer)[i] = 0 /\ answer # Unscored
        \/ Cardinality({k \in DOMAIN Candidates(items) \ {i} :
                           /\ Candidates(items)[k].leaf \in KeptLeaves(list)
                           /\ Scored(items, answer)[k] >= Scored(items, answer)[i]})
               = SelectedLeafK

(* What is selected and relevant, by places of the order. *)
Picks(items) == Min({SelectedLeafK, Len(Candidates(items))})

Picked(items, answer, order, list, at) ==
    /\ at \in [DOMAIN list -> 1 .. Picks(items)]
    /\ \A n \in DOMAIN list : list[n].leaf = Candidates(items)[order[at[n]]].leaf
    /\ \A l, n \in DOMAIN list : l < n <=> at[l] < at[n]
    /\ \A i \in 1 .. Picks(items) :
           (answer # Unscored => Scored(items, answer)[order[i]] > 0)
               => \E n \in DOMAIN list : at[n] = i

LEMMA RelevantAre ==
    ASSUME NEW items \in Seq(Hit), NEW answer \in Answers(items), NEW order,
           Selecting(items, answer, order)
    PROVE  \E at : Picked(items, answer, order, Relevant(Select(items, answer), answer), at)
<1> DEFINE candidates == Candidates(items)
           score == Scored(items, answer)
           part == Select(items, answer)
           list == Relevant(part, answer)
           places == {i \in DOMAIN part : part[i].score > 0}
           m == Picks(items)
<1>1. m \in Nat /\ m <= Len(candidates) /\ Len(candidates) \in Nat
  <2>1. Len(candidates) \in Nat /\ SelectedLeafK \in Nat
      BY CandidatesAre, LimitsAssumption
  <2> QED BY <2>1, LesserOfTwo DEF Picks
<1>2. part = [n \in 1 .. m |-> Rescored(candidates[order[n]], score[order[n]])]
    BY DEF Selecting, Picks
<1>3. \A n \in 1 .. m : order[n] \in DOMAIN candidates
    BY <1>1 DEF Selecting
<1>4. \A i \in DOMAIN candidates : score[i] \in Nat /\ candidates[i] \in Hit
    BY CandidatesAre, ScoresAreNumbers, PlacesOf
<1> HIDE DEF candidates, score, part, m
<1>5. \A n \in 1 .. m : /\ part[n] \in Hit
                        /\ part[n].leaf = candidates[order[n]].leaf
                        /\ part[n].score = score[order[n]]
  <2> SUFFICES ASSUME NEW n \in 1 .. m
               PROVE  part[n] \in Hit /\ part[n].leaf = candidates[order[n]].leaf
                      /\ part[n].score = score[order[n]]
      OBVIOUS
  <2>1. candidates[order[n]] \in Hit /\ score[order[n]] \in Nat
      BY <1>3, <1>4
  <2>2. part[n] = Rescored(candidates[order[n]], score[order[n]])
      BY <1>2
  <2> QED BY <2>1, <2>2 DEF Rescored, Hit
<1>6. part \in Seq(Hit) /\ DOMAIN part = 1 .. m
  <2>1. part \in [1 .. m -> Hit]
      BY <1>2, <1>5
  <2> QED BY <1>1, <2>1
<1>7. CASE answer = Unscored
  <2> DEFINE at == [n \in 1 .. m |-> n]
  <2>1. list = part
      BY <1>7 DEF Relevant
  <2>2. /\ at \in [DOMAIN list -> 1 .. m]
        /\ \A n \in DOMAIN list : list[n].leaf = candidates[order[at[n]]].leaf
        /\ \A l, n \in DOMAIN list : l < n <=> at[l] < at[n]
        /\ \A i \in 1 .. m : \E n \in DOMAIN list : at[n] = i
      BY <1>5, <1>6, <2>1
  <2> HIDE DEF at, list
  <2>3. Picked(items, answer, order, list, at)
      BY <2>2 DEF Picked, candidates, m
  <2> QED BY <2>3 DEF list, part
<1>8. CASE answer # Unscored
  <2>1. list = HitsAt(part, places)
      BY <1>8 DEF Relevant
  <2>2. places \in SUBSET DOMAIN part
      OBVIOUS
  <2>3. \A i \in 1 .. m : score[order[i]] > 0 => i \in places
      BY <1>5, <1>6
  <2> HIDE DEF places
  <2>4. PICK at : Sublist(list, part, at, places)
      BY <1>6, <2>1, <2>2, HitsInOrder
  <2>5. /\ at \in [DOMAIN list -> 1 .. m]
        /\ \A n \in DOMAIN list : at[n] \in 1 .. m /\ list[n] = part[at[n]]
        /\ \A l, n \in DOMAIN list : l < n <=> at[l] < at[n]
        /\ \A i \in places : \E n \in DOMAIN list : at[n] = i
      BY <1>6, <2>2, <2>4 DEF Sublist
  <2> HIDE DEF list
  <2>6. \A n \in DOMAIN list : list[n].leaf = candidates[order[at[n]]].leaf
      BY <1>5, <2>5
  <2>7. Picked(items, answer, order, list, at)
      BY <1>8, <2>3, <2>5, <2>6 DEF Picked, candidates, score, m
  <2> QED BY <2>7 DEF list, part
<1> QED BY <1>7, <1>8

LEMMA PickedAreBest ==
    ASSUME NEW items \in Seq(Hit), Distinct(items), NEW answer \in Answers(items),
           NEW order, Selecting(items, answer, order),
           NEW list, NEW at, Picked(items, answer, order, list, at)
    PROVE  OrderKept(items, answer, list) /\ BestKept(items, answer, list)
<1> DEFINE candidates == Candidates(items)
           score == Scored(items, answer)
           D == DOMAIN candidates
           k == Len(candidates)
           m == Picks(items)
<1>1. /\ m \in Nat /\ m <= k /\ k \in Nat /\ D = 1 .. k
      /\ m = SelectedLeafK \/ m = k
  <2>1. k \in Nat /\ SelectedLeafK \in Nat /\ D = 1 .. k
      BY CandidatesAre, PlacesOf, LimitsAssumption
  <2> QED BY <2>1, LesserOfTwo DEF Picks
<1>2. \A i, j \in D : candidates[i].leaf = candidates[j].leaf => i = j
    BY CandidatesAre DEF Distinct
<1>3. \A i \in D : score[i] \in Nat /\ i \in Nat
    BY <1>1, ScoresAreNumbers
<1>4. /\ order \in [1 .. k -> D]
      /\ \A i \in D : \E n \in 1 .. k : order[n] = i
      /\ \A l, n \in 1 .. k : l < n <=> Above(score, order[l], order[n])
    BY Zenon DEF Selecting
<1>5. /\ at \in [DOMAIN list -> 1 .. m]
      /\ \A n \in DOMAIN list : list[n].leaf = candidates[order[at[n]]].leaf
      /\ \A l, n \in DOMAIN list : l < n <=> at[l] < at[n]
      /\ \A i \in 1 .. m :
             (answer # Unscored => score[order[i]] > 0) => \E n \in DOMAIN list : at[n] = i
    BY Zenon DEF Picked
<1> HIDE DEF candidates, score, D, k, m
<1>6. \A n \in DOMAIN list : at[n] \in 1 .. m /\ at[n] \in 1 .. k /\ order[at[n]] \in D
    BY <1>1, <1>4, <1>5
<1>7. \A l, n \in 1 .. k : l < n => score[order[l]] >= score[order[n]] /\ order[l] # order[n]
    BY <1>3, <1>4 DEF Above
<1>8. ASSUME NEW i \in D, NEW j \in D,
             Before(list, candidates[i].leaf, candidates[j].leaf)
      PROVE  score[i] >= score[j]
  <2>1. PICK l \in DOMAIN list, n \in DOMAIN list :
            l < n /\ list[l].leaf = candidates[i].leaf /\ list[n].leaf = candidates[j].leaf
      BY <1>8, Zenon DEF Before
  <2>2. i = order[at[l]] /\ j = order[at[n]]
      BY <1>2, <1>5, <1>6, <2>1
  <2>3. at[l] < at[n]
      BY <1>5, <2>1
  <2> QED BY <1>6, <1>7, <2>2, <2>3
<1>9. OrderKept(items, answer, list)
    BY <1>8, Zenon DEF OrderKept, candidates, score, D
<1>10. ASSUME NEW i \in D, candidates[i].leaf \notin KeptLeaves(list),
              ~ (score[i] = 0 /\ answer # Unscored)
       PROVE  Cardinality({l \in D \ {i} : /\ candidates[l].leaf \in KeptLeaves(list)
                                           /\ score[l] >= score[i]}) = SelectedLeafK
  <2> DEFINE T == {l \in D \ {i} : /\ candidates[l].leaf \in KeptLeaves(list)
                                   /\ score[l] >= score[i]}
             f == [l \in 1 .. m |-> order[l]]
  <2>1. PICK n \in 1 .. k : order[n] = i
      BY <1>4
  <2>2. \A l \in 1 .. m : (answer # Unscored => score[order[l]] > 0)
                              => candidates[order[l]].leaf \in KeptLeaves(list)
      BY <1>5 DEF KeptLeaves
  <2>3. answer # Unscored => score[i] > 0
      BY <1>3, <1>10
  <2>4. n > m
      BY <1>1, <1>10, <2>1, <2>2, <2>3
  <2>5. m = SelectedLeafK
      BY <1>1, <2>4
  <2>6. ASSUME NEW l \in 1 .. m  PROVE order[l] \in T
    <3>1. l \in 1 .. k /\ l < n
        BY <1>1, <2>4
    <3>2. order[l] \in D /\ order[l] # i /\ score[order[l]] >= score[i]
        BY <1>4, <1>7, <2>1, <3>1
    <3>3. answer # Unscored => score[order[l]] > 0
        BY <1>3, <2>3, <3>2
    <3> QED BY <2>2, <3>2, <3>3
  <2>7. ASSUME NEW l \in T  PROVE \E p \in 1 .. m : order[p] = l
    <3>1. PICK p \in DOMAIN list : list[p].leaf = candidates[l].leaf
        BY DEF KeptLeaves
    <3>2. order[at[p]] = l
        BY <1>2, <1>5, <1>6, <3>1
    <3> QED BY <1>6, <3>2
  <2>8. \A l, p \in 1 .. m : order[l] = order[p] => l = p
      BY <1>1, <1>7
  <2> HIDE DEF T
  <2>9. f \in Bijection(1 .. m, T)
      BY <2>6, <2>7, <2>8 DEF Bijection, Injection, Surjection, IsInjective
  <2>10. ExistsBijection(1 .. m, T)
      BY <2>9, Zenon DEF ExistsBijection
  <2>11. Cardinality(T) = m
      BY <1>1, <2>10, FS_CountingElements
  <2> QED BY <2>5, <2>11 DEF T
<1>11. BestKept(items, answer, list)
    BY <1>10, Zenon DEF BestKept, candidates, score, D
<1> QED BY <1>9, <1>11

LEMMA SelectionIsBest ==
    ASSUME NEW items \in Seq(Hit), Distinct(items), NEW answer \in Answers(items)
    PROVE  /\ OrderKept(items, answer, Relevant(Select(items, answer), answer))
           /\ BestKept(items, answer, Relevant(Select(items, answer), answer))
<1>1. PICK order : Selecting(items, answer, order)
    BY SelectionIsOrdered
<1>2. PICK at : Picked(items, answer, order, Relevant(Select(items, answer), answer), at)
    BY <1>1, RelevantAre
<1> QED BY <1>1, <1>2, PickedAreBest

(* Nothing is passed over while the reranker is awaited. *)
LEMMA UnselectedIsBest ==
    ASSUME NEW items \in Seq(Hit), Distinct(items), Descending(items)
    PROVE  OrderKept(items, Unscored, items) /\ BestKept(items, Unscored, items)
<1> DEFINE candidates == Candidates(items)
           score == Scored(items, Unscored)
<1>1. \A i \in DOMAIN candidates : /\ i \in DOMAIN items /\ candidates[i] = items[i]
                                   /\ score[i] = items[i].score
    BY CandidatesAre DEF Scored
<1>2. \A i \in DOMAIN items : items[i].score \in Nat
  <2>1. \A i \in DOMAIN items : items[i] \in Hit
      OBVIOUS
  <2> QED BY <2>1 DEF Hit
<1> HIDE DEF candidates, score
<1>3. ASSUME NEW i \in DOMAIN candidates, NEW j \in DOMAIN candidates,
             Before(items, candidates[i].leaf, candidates[j].leaf)
      PROVE  score[i] >= score[j]
  <2>1. PICK l \in DOMAIN items, n \in DOMAIN items :
            l < n /\ items[l].leaf = candidates[i].leaf /\ items[n].leaf = candidates[j].leaf
      BY <1>3, Zenon DEF Before
  <2>2. l = i /\ n = j
      BY <1>1, <2>1 DEF Distinct
  <2> QED BY <1>1, <2>1, <2>2 DEF Descending
<1>4. \A i \in DOMAIN candidates : candidates[i].leaf \in KeptLeaves(items)
    BY <1>1 DEF KeptLeaves
<1>5. OrderKept(items, Unscored, items)
    BY <1>3, Zenon DEF OrderKept, candidates, score
<1>6. BestKept(items, Unscored, items)
    BY <1>4, Zenon DEF BestKept, candidates
<1> QED BY <1>5, <1>6

(* The selection is in the order of the scores that are believed and keeps *)
(* the best candidates, whatever the reranker answers (reranking.py).      *)
THEOREM SelectionKeepsBest == FunnelSpec => BestSelected
<1> DEFINE BestStep ==
              stage = "rerank" =>
                LET candidates == Candidates(hits)
                    kept == {hits'[k].leaf : k \in DOMAIN hits'}
                    Score(i) == IF scores' = Unscored THEN candidates[i].score
                                ELSE scores'[candidates[i].leaf]
                IN  /\ \A i, j \in DOMAIN candidates :
                        Before(hits', candidates[i].leaf, candidates[j].leaf)
                            => Score(i) >= Score(j)
                    /\ \A i \in DOMAIN candidates :
                        \/ candidates[i].leaf \in kept
                        \/ Score(i) = 0 /\ scores' # Unscored
                        \/ Cardinality({k \in DOMAIN candidates \ {i} :
                                candidates[k].leaf \in kept /\ Score(k) >= Score(i)})
                           = SelectedLeafK
<1>1. ASSUME OrderKept(hits, scores', hits'), BestKept(hits, scores', hits')
      PROVE  BestStep
  <2> DEFINE candidates == Candidates(hits)
             kept == {hits'[k].leaf : k \in DOMAIN hits'}
             Score(i) == IF scores' = Unscored THEN candidates[i].score
                         ELSE scores'[candidates[i].leaf]
             score == Scored(hits, scores')
  <2>1. \A i \in DOMAIN candidates : Score(i) = score[i]
      BY DEF Scored
  <2>2. \A i, j \in DOMAIN candidates :
            Before(hits', candidates[i].leaf, candidates[j].leaf) => score[i] >= score[j]
      BY <1>1, Zenon DEF OrderKept
  <2>3. \A i \in DOMAIN candidates :
            \/ candidates[i].leaf \in kept
            \/ score[i] = 0 /\ scores' # Unscored
            \/ Cardinality({k \in DOMAIN candidates \ {i} :
                    candidates[k].leaf \in kept /\ score[k] >= score[i]}) = SelectedLeafK
      BY <1>1, Zenon DEF BestKept, KeptLeaves
  <2> HIDE DEF candidates, kept, score, Score
  <2>4. \A i, j \in DOMAIN candidates :
            Before(hits', candidates[i].leaf, candidates[j].leaf) => Score(i) >= Score(j)
      BY <2>1, <2>2
  <2>5. \A i \in DOMAIN candidates :
            {k \in DOMAIN candidates \ {i} :
                    candidates[k].leaf \in kept /\ score[k] >= score[i]}
            = {k \in DOMAIN candidates \ {i} :
                    candidates[k].leaf \in kept /\ Score(k) >= Score(i)}
      BY <2>1
  <2>6. \A i \in DOMAIN candidates :
            \/ candidates[i].leaf \in kept
            \/ Score(i) = 0 /\ scores' # Unscored
            \/ Cardinality({k \in DOMAIN candidates \ {i} :
                    candidates[k].leaf \in kept /\ Score(k) >= Score(i)}) = SelectedLeafK
      BY <2>1, <2>3, <2>5
  <2> QED BY <2>4, <2>6, Zenon DEF candidates, kept, Score
<1>2. ASSUME FunnelInv, Rerank  PROVE BestStep
  <2>1. hits' = Relevant(Select(hits, scores'), scores')
      BY <1>2 DEF Rerank
  <2>2. scores' \in [{hits[i].leaf : i \in DOMAIN Candidates(hits)} -> ScoreLevels]
                       \cup {Unscored}
      BY <1>2 DEF Rerank
  <2>3. scores' \in Answers(hits)
      BY <2>2, Zenon DEF Answers
  <2>4. hits \in Seq(Hit) /\ Distinct(hits)
      BY <1>2 DEF FunnelInv
  <2> HIDE DEF BestStep
  <2>5. OrderKept(hits, scores', hits') /\ BestKept(hits, scores', hits')
      BY <2>1, <2>3, <2>4, SelectionIsBest
  <2> QED BY <1>1, <2>5
<1>3. ASSUME FunnelInv, stage = "rerank", UNCHANGED <<hits, scores>>  PROVE BestStep
  <2>1. /\ hits \in Seq(Hit) /\ Distinct(hits) /\ Descending(hits)
        /\ scores = Unscored
      BY <1>3 DEF FunnelInv, Unjudged
  <2> HIDE DEF BestStep
  <2>2. OrderKept(hits, Unscored, hits) /\ BestKept(hits, Unscored, hits)
      BY <2>1, UnselectedIsBest
  <2>3. OrderKept(hits, scores', hits') /\ BestKept(hits, scores', hits')
      BY <1>3, <2>1, <2>2
  <2> QED BY <1>1, <2>3
<1>4. ASSUME FunnelNext, stage = "rerank"  PROVE Rerank \/ UNCHANGED <<hits, scores>>
    BY <1>4 DEF FunnelNext, SearchHybrid, SearchSingle, FuseBranches, Authorize,
                LoadTexts, LoadRoots, Change, Ended
<1>5. FunnelInv /\ [FunnelNext]_funnelVars => [BestStep]_funnelVars
  <2>1. stage # "rerank" => BestStep
      OBVIOUS
  <2> HIDE DEF BestStep
  <2> QED BY <1>2, <1>3, <1>4, <2>1
<1>6. [][BestStep]_funnelVars => BestSelected
    BY PTL DEF BestSelected
<1> QED BY <1>5, <1>6, FunnelInductive, PTL DEF FunnelSpec
-----------------------------------------------------------------------------
(* What the trace tells. *)

(* The branches are those of different searches, ... *)
Apart(list) ==
    \A i, j \in DOMAIN list :
        list[i].query = list[j].query /\ list[i].method = list[j].method => i = j

LEMMA SearchesAreApart ==
    ASSUME NEW lists \in SUBSET (Queries \X Methods), NEW found
    PROVE  Apart(SetToSeq({[query |-> b[1], method |-> b[2], hits |-> found[b]] : b \in lists}))
<1> DEFINE branch == [b \in lists |-> [query |-> b[1], method |-> b[2], hits |-> found[b]]]
           S == {branch[b] : b \in lists}
           list == SetToSeq(S)
<1>1. IsFiniteSet(lists)
  <2>1. IsFiniteSet(Queries) /\ IsFiniteSet(Methods)
    <3>1. IsFiniteSet({"dense"}) /\ IsFiniteSet({"dense"} \cup {"sparse"})
        BY FS_Singleton, FS_AddElement
    <3>2. Methods = {"dense"} \cup {"sparse"}
        BY DEF Methods
    <3> QED BY <3>1, <3>2, RoutesAssumption
  <2>2. IsFiniteSet(Queries \X Methods)
      BY <2>1, FS_Product
  <2> QED BY <2>2, FS_Subset
<1>2. branch \in Surjection(lists, S)
    BY DEF Surjection
<1>3. \A a, b \in lists : /\ branch[a].query = a[1] /\ branch[a].method = a[2]
                          /\ a[1] = b[1] /\ a[2] = b[2] => a = b
    OBVIOUS
<1> HIDE DEF branch
<1>4. \A x, y \in S : x.query = y.query /\ x.method = y.method => x = y
    BY <1>3
<1>5. IsFiniteSet(S)
    BY <1>1, <1>2, FS_Surjection
<1> HIDE DEF S
<1>6. list \in [1 .. Cardinality(S) -> S] /\ IsInjective(list)
  <2>1. Cardinality(S) \in Nat /\ \E f : f \in Bijection(1 .. Cardinality(S), S)
      BY <1>5, FS_CardinalityType DEF ExistsBijection
  <2>2. \E f \in [1 .. Cardinality(S) -> S] : IsInjective(f)
      BY <2>1 DEF Bijection, Injection
  <2> QED BY <2>2 DEF SetToSeq
<1> HIDE DEF list
<1>7. Apart(list)
    BY <1>4, <1>6 DEF Apart, IsInjective
<1>8. S = {[query |-> b[1], method |-> b[2], hits |-> found[b]] : b \in lists}
    BY DEF S, branch
<1> QED BY <1>7, <1>8 DEF list

(* ... and the roots are restored from the hits and texts that are there. *)
Stored == LoadedRoots(ready, resolved, ToSet(RootsInOrder(hits)))
RestoredFromHits ==
    IF stage = "restored" THEN restored = Restore(hits, texts, Stored) ELSE restored = <<>>

Traceable == Apart(branches) /\ RestoredFromHits

LEMMA FunnelTraceable == FunnelSpec => []Traceable
<1>1. FunnelInit => Traceable
    BY DEF FunnelInit, Traceable, Apart, RestoredFromHits
<1>2. ASSUME Traceable, [FunnelNext]_funnelVars  PROVE Traceable'
  <2> USE <1>2
  <2> DEFINE sought == stage = "search" /\ \E lists \in SUBSET (Queries \X Methods) : Searched(lists)
  <2>1. CASE sought
    <3>1. PICK lists \in SUBSET (Queries \X Methods) : Searched(lists)
        BY <2>1
    <3>2. PICK found \in [lists -> Rankings(Prefiltered(scope, permission))] :
              branches' = SetToSeq({[query |-> b[1], method |-> b[2], hits |-> found[b]] :
                                       b \in lists})
        BY <3>1 DEF Searched
    <3>3. Apart(branches)'
      <4>1. Apart(SetToSeq({[query |-> b[1], method |-> b[2], hits |-> found[b]] : b \in lists}))
          BY SearchesAreApart
      <4> QED BY <3>2, <4>1 DEF Apart
    <3>4. stage = "search" /\ stage' = "fuse" /\ restored' = restored
        BY <2>1, <3>1 DEF Searched
    <3> QED BY <3>3, <3>4 DEF Traceable, RestoredFromHits
  <2>2. SearchHybrid \/ SearchSingle => sought
    <3>1. SearchHybrid => sought
        BY DEF SearchHybrid
    <3>2. ASSUME SearchSingle  PROVE sought
      <4>1. PICK query \in Queries, method \in Methods :
                stage = "search" /\ Searched({<<query, method>>})
          BY <3>2 DEF SearchSingle
      <4>2. {<<query, method>>} \in SUBSET (Queries \X Methods)
          OBVIOUS
      <4> QED BY <4>1, <4>2
    <3> QED BY <3>1, <3>2
  <2> HIDE DEF sought
  <2>3. CASE LoadRoots
      BY <2>3 DEF LoadRoots, Traceable, Apart, RestoredFromHits, Stored, inputs
  <2>4. CASE FuseBranches \/ Authorize \/ Rerank \/ LoadTexts
    <3>1. /\ stage # "restored" /\ stage' # "restored" /\ restored' = restored
          /\ branches' = branches \/ branches' = <<>>
        BY <2>4 DEF FuseBranches, Authorize, Rerank, LoadTexts
    <3> QED BY <3>1 DEF Traceable, Apart, RestoredFromHits
  <2>5. CASE \E document \in Documents : Change(document)
      BY <2>5 DEF Change, Traceable, Apart, RestoredFromHits
  <2>6. CASE Ended \/ UNCHANGED funnelVars
      BY <2>6 DEF Ended, funnelVars, Traceable, Apart, RestoredFromHits, Stored
  <2> QED BY <2>1, <2>2, <2>3, <2>4, <2>5, <2>6 DEF FunnelNext
<1> QED BY <1>1, <1>2, PTL DEF FunnelSpec

LEMMA LengthsAddUp ==
    ASSUME NEW pieces, IsFiniteSet(DOMAIN pieces)
    PROVE  MapThenSumSet(LAMBDA i : pieces[i].length, DOMAIN pieces)
               = Total(Lengths(pieces), DOMAIN pieces)
<1> DEFINE S == DOMAIN pieces
           w == Lengths(pieces)
           f(h) == h = [s \in SUBSET S |->
                           IF s = {} THEN 0 ELSE pieces[Pick(s)].length + h[s \ {Pick(s)}]]
           g(h) == h = [s \in SUBSET S |->
                           IF s = {} THEN 0 ELSE w[Pick(s)] + h[s \ {Pick(s)}]]
<1>1. MapThenSumSet(LAMBDA i : pieces[i].length, S) = (CHOOSE h : f(h))[S]
    BY Zenon DEF MapThenSumSet, MapThenFoldSet, Pick
<1>2. Total(w, S) = (CHOOSE h : g(h))[S]
    BY Zenon DEF Total, MapThenSumSet, MapThenFoldSet, Pick
<1>3. \A s \in SUBSET S : s # {} => w[Pick(s)] = pieces[Pick(s)].length
    BY DEF Pick, Lengths
<1> HIDE DEF w, S
<1>4. \A h : f(h) <=> g(h)
    BY <1>3
<1> HIDE DEF f, g
<1>5. (CHOOSE h : f(h)) = (CHOOSE h : g(h))
    BY <1>4
<1> QED BY <1>1, <1>2, <1>5 DEF S, w

(* The roots share one budget, whatever was selected and loaded. *)
LEMMA BudgetIsShared ==
    ASSUME FunnelInv, RestoredFromHits
    PROVE  BudgetShared
<1> DEFINE used == MapThenSumSet(LAMBDA i : restored[i].length, DOMAIN restored)
           missing(root) == used = MaxParentChars \/ \E i \in DOMAIN restored : restored[i].root = root
<1>1. \E sum : /\ IsFiniteSet(DOMAIN restored) /\ Sharing(restored, sum)
               /\ stage = "restored" => \A root \in Stored :
                      sum = MaxParentChars \/ HasRoot(restored, root)
  <2>1. CASE stage = "restored"
    <3>1. hits \in Seq(Hit) /\ texts \in SUBSET Leaves /\ restored = Restore(hits, texts, Stored)
        BY <2>1 DEF FunnelInv, RestoredFromHits
    <3>2. PICK sum :
               /\ Restore(hits, texts, Stored) \in Seq(Pieces(hits, Stored))
               /\ Sharing(Restore(hits, texts, Stored), sum)
               /\ \A root \in Stored \cap RootsOf(hits) :
                      sum = MaxParentChars \/ HasRoot(Restore(hits, texts, Stored), root)
        BY <3>1, RestoringShares
    <3>3. Stored \subseteq RootsOf(hits)
      <4>1. ToSet(RootsInOrder(hits)) = RootsOf(hits)
          BY <3>1, RootsAreOnce
      <4> QED BY <4>1 DEF Stored, LoadedRoots
    <3>4. IsFiniteSet(DOMAIN restored)
        BY <3>1, <3>2, PlacesOf
    <3> QED BY <3>1, <3>2, <3>3, <3>4
  <2>2. CASE stage # "restored"
    <3>1. restored = <<>>
        BY <2>2 DEF RestoredFromHits
    <3>2. DOMAIN restored = {} /\ IsFiniteSet({})
        BY <3>1, FS_EmptySet
    <3>3. Total(Lengths(restored), {}) = 0
      <4> DEFINE w == Lengths(restored)
      <4> HIDE DEF w
      <4>1. Total(w, {}) = 0
          BY SumUnfolds, FS_EmptySet
      <4> QED BY <4>1 DEF w
    <3>4. Sharing(restored, 0)
        BY <3>2, <3>3, LimitsAssumption DEF Sharing
    <3> QED BY <2>2, <3>2, <3>4
  <2> QED BY <2>1, <2>2
<1>2. PICK sum : /\ IsFiniteSet(DOMAIN restored) /\ Sharing(restored, sum)
                 /\ stage = "restored" => \A root \in Stored :
                        sum = MaxParentChars \/ HasRoot(restored, root)
    BY <1>1
<1>3. used = sum
  <2>1. used = Total(Lengths(restored), DOMAIN restored)
      BY <1>2, LengthsAddUp
  <2> QED BY <1>2, <2>1 DEF Sharing
<1> HIDE DEF used
<1>4. used <= MaxParentChars
    BY <1>2, <1>3 DEF Sharing
<1>5. \A i \in DOMAIN restored :
          restored[i].truncated => i = Len(restored) /\ used = MaxParentChars
    BY <1>2, <1>3 DEF Sharing
<1>6. stage = "restored" => \A root \in Stored : missing(root)
    BY <1>2, <1>3 DEF HasRoot
<1> QED BY <1>4, <1>5, <1>6 DEF BudgetShared, Stored, used

(* Fusion counts each hit it leaves out, for the reason it has. *)
Drops == [kept : Seq(Hit), quota : Nat, topK : Nat]

Drop(seen, hit, quota) ==
    IF SameRoot(seen.kept, hit) >= quota
    THEN [seen EXCEPT !.quota = @ + 1]
    ELSE IF Len(seen.kept) >= FusedTopK
    THEN [seen EXCEPT !.topK = @ + 1]
    ELSE [seen EXCEPT !.kept = Append(@, hit)]

Accounted(seen, quota, n) ==
    /\ seen.quota + seen.topK + Len(seen.kept) = n
    /\ seen.quota > 0 => \E hit \in Hit : SameRoot(seen.kept, hit) >= quota
    /\ seen.topK > 0 => Len(seen.kept) >= FusedTopK

LEMMA DropStays ==
    ASSUME NEW seen \in Drops, NEW hit \in Hit, NEW quota
    PROVE  Drop(seen, hit, quota) \in Drops
<1>1. /\ seen.kept \in Seq(Hit) /\ seen.quota \in Nat /\ seen.topK \in Nat
      /\ seen = [kept |-> seen.kept, quota |-> seen.quota, topK |-> seen.topK]
    BY DEF Drops
<1>2. [seen EXCEPT !.quota = @ + 1] \in Drops
    BY <1>1 DEF Drops
<1>3. [seen EXCEPT !.topK = @ + 1] \in Drops
    BY <1>1 DEF Drops
<1>4. [seen EXCEPT !.kept = Append(@, hit)] \in Drops
  <2>1. Append(seen.kept, hit) \in Seq(Hit)
      BY <1>1
  <2> QED BY <1>1, <2>1 DEF Drops
<1> QED BY <1>2, <1>3, <1>4 DEF Drop

LEMMA DropAccounts ==
    ASSUME NEW seen, seen \in Drops, NEW hit, hit \in Hit, NEW quota, quota \in Nat \ {0}, NEW n, n \in Nat,
           Accounted(seen, quota, n)
    PROVE  /\ Drop(seen, hit, quota) \in Drops
           /\ Drop(seen, hit, quota).kept = Kept(seen.kept, hit, quota)
           /\ Accounted(Drop(seen, hit, quota), quota, n + 1)
<1>1. /\ seen.kept \in Seq(Hit) /\ Len(seen.kept) \in Nat
      /\ seen.quota \in Nat /\ seen.topK \in Nat /\ FusedTopK \in Nat
    BY LimitsAssumption DEF Drops
<1>2. \A other : SameRoot(seen.kept, other) \in Nat
    BY <1>1, SameRootCounts
<1> DEFINE l == Len(seen.kept)
<1>20. seen.quota + seen.topK + l = n
    BY DEF Accounted
<1>3. CASE SameRoot(seen.kept, hit) >= quota
  <2> DEFINE more == [seen EXCEPT !.quota = @ + 1]
  <2>1. /\ more \in Drops
        /\ more.kept = seen.kept /\ more.quota = seen.quota + 1 /\ more.topK = seen.topK
      BY <1>1 DEF Drops
  <2>2. Drop(seen, hit, quota) = more /\ Kept(seen.kept, hit, quota) = seen.kept
      BY <1>3 DEF Drop, Kept
  <2> HIDE DEF more
  <2>3. Accounted(more, quota, n + 1)
    <3>1. more.quota + more.topK + Len(more.kept) = n + 1
        BY <1>1, <1>20, <2>1
    <3>2. SameRoot(more.kept, hit) >= quota
        BY <1>3, <2>1
    <3>3. more.topK > 0 => Len(more.kept) >= FusedTopK
        BY <2>1 DEF Accounted
    <3> QED BY <3>1, <3>2, <3>3 DEF Accounted
  <2> QED BY <2>1, <2>2, <2>3
<1>4. CASE ~(SameRoot(seen.kept, hit) >= quota) /\ Len(seen.kept) >= FusedTopK
  <2> DEFINE more == [seen EXCEPT !.topK = @ + 1]
  <2>1. /\ more \in Drops
        /\ more.kept = seen.kept /\ more.quota = seen.quota /\ more.topK = seen.topK + 1
      BY <1>1 DEF Drops
  <2>2. Drop(seen, hit, quota) = more /\ Kept(seen.kept, hit, quota) = seen.kept
      BY <1>4 DEF Drop, Kept
  <2> HIDE DEF more
  <2>3. Accounted(more, quota, n + 1)
      BY <1>1, <1>4, <2>1 DEF Accounted
  <2> QED BY <2>1, <2>2, <2>3
<1>5. CASE ~(SameRoot(seen.kept, hit) >= quota) /\ ~(Len(seen.kept) >= FusedTopK)
  <2> DEFINE more == [seen EXCEPT !.kept = Append(@, hit)]
  <2>1. /\ more \in Drops
        /\ more.kept = Append(seen.kept, hit) /\ more.quota = seen.quota /\ more.topK = seen.topK
      BY <1>1 DEF Drops
  <2>2. Drop(seen, hit, quota) = more /\ Kept(seen.kept, hit, quota) = Append(seen.kept, hit)
      BY <1>5 DEF Drop, Kept
  <2> HIDE DEF more
  <2>3. Len(more.kept) = Len(seen.kept) + 1
      BY <1>1, <2>1
  <2>4. \A other \in Hit : SameRoot(more.kept, other) >= SameRoot(seen.kept, other)
    <3> SUFFICES ASSUME NEW other \in Hit
                 PROVE  SameRoot(more.kept, other) >= SameRoot(seen.kept, other)
        OBVIOUS
    <3>1. SameRoot(more.kept, other) = SameRoot(seen.kept, other)
              + IF RootOf[hit.leaf] = RootOf[other.leaf] THEN 1 ELSE 0
        BY <1>1, <2>1, SameRootCounts
    <3> QED BY <1>2, <3>1
  <2>5. \A other \in Hit : SameRoot(more.kept, other) \in Nat
      BY <2>1, SameRootCounts DEF Drops
  <2>6. Accounted(more, quota, n + 1)
    <3>1. more.quota + more.topK + Len(more.kept) = n + 1
      <4>1. more.quota = seen.quota /\ more.topK = seen.topK /\ Len(more.kept) = l + 1
          BY <2>1, <2>3
      <4>2. l \in Nat /\ seen.quota \in Nat /\ seen.topK \in Nat
          BY <1>1
      <4> HIDE DEF l
      <4> QED BY <1>20, <4>1, <4>2
    <3>2. ASSUME more.quota > 0  PROVE \E other \in Hit : SameRoot(more.kept, other) >= quota
      <4>1. PICK other \in Hit : SameRoot(seen.kept, other) >= quota
          BY <2>1, <3>2 DEF Accounted
      <4> QED BY <1>2, <2>4, <2>5, <4>1
    <3>3. ~(more.topK > 0)
        BY <1>1, <1>5, <2>1 DEF Accounted
    <3> QED BY <3>1, <3>2, <3>3 DEF Accounted
  <2> QED BY <2>1, <2>2, <2>6
<1> QED BY <1>3, <1>4, <1>5

(* Every hit of the order is kept or counted once as left out. *)
LEMMA DropsAddUp ==
    ASSUME NEW list \in Seq(Branch), NEW quota \in Nat \ {0}
    PROVE  /\ Dropped(list, quota) \in Drops
           /\ Dropped(list, quota).kept = Fuse(list, quota)
           /\ Accounted(Dropped(list, quota), quota, Len(Ordered(list)))
<1> DEFINE
      ranked == Ordered(list)
      S == DOMAIN ranked
      B == Drops
      base == [kept |-> <<>>, quota |-> 0, topK |-> 0]
      Op(seen, hit) == Drop(seen, hit, quota)
      next == [p \in B \X Hit |-> Op(p[1], p[2])]
      F(f) == f = [s \in SUBSET S |-> IF s = {} THEN base
                                      ELSE Op(f[s \ {Max(s)}], ranked[Max(s)])]
      g == CHOOSE f : F(f)
<1>1. Dropped(list, quota) = g[S]
    BY DEF Dropped, FoldLeft, MapThenFoldSet, Drop
<1>2. base \in B /\ base.kept = <<>> /\ base.quota = 0 /\ base.topK = 0
    BY DEF Drops
<1>3. ranked \in Seq(Hit)
    BY OrderedIsRanked DEF Ranked
<1>4. PICK kept : Fusing(ranked, quota, kept) /\ Fuse(list, quota) = kept[Len(ranked)]
    BY <1>3, FuseTakes
<1> HIDE DEF base, ranked
<1> HIDE DEF S, F, g
<1>5. \A a \in B, x \in Hit : next[<<a, x>>] = Op(a, x) /\ Op(a, x) \in B
  <2>1. ASSUME NEW a \in B, NEW x \in Hit  PROVE Op(a, x) \in B
      BY DropStays
  <2> HIDE DEF Op
  <2> QED BY <2>1
<1> HIDE DEF B, Op, next
<1>6. Closed(B, Hit, next)
    BY <1>5 DEF Closed
<1>7. PICK f : /\ Nesting(ranked, base, next, f)
               /\ \A s \in SUBSET DOMAIN ranked :
                     s # {} => f[s \ {Max(s)}] \in B /\ ranked[Max(s)] \in Hit
  <2> HIDE DEF S
  <2>1. base \in B
      BY <1>2
  <2> QED BY <1>3, <1>6, <2>1, NestingExists
<1>8. F(f)
  <2>1. \A s \in SUBSET S : s # {} =>
            next[<<f[s \ {Max(s)}], ranked[Max(s)]>>] = Op(f[s \ {Max(s)}], ranked[Max(s)])
      BY <1>5, <1>7 DEF S
  <2> QED BY <1>7, <2>1 DEF Nesting, F, S
<1>9. F(g)
    BY <1>8 DEF g

<1>10. Nested(ranked, Hit, B, base, next, g)
    BY <1>5, <1>9 DEF Nested, F, S
<1>11. PICK sofar : /\ Taking(ranked, B, base, next, sofar)
                    /\ g[DOMAIN ranked] = sofar[Len(ranked)]
  <2> HIDE DEF S
  <2> QED BY <1>2, <1>3, <1>6, <1>10, NestingTakes
<1> DEFINE k == Len(ranked)
           T == {n \in Nat : n \in 0 .. k => /\ sofar[n].kept = kept[n]
                                             /\ Accounted(sofar[n], quota, n)}
<1>12. k \in Nat /\ S = 1 .. k /\ \A i \in 1 .. k : ranked[i] \in Hit
    BY <1>3 DEF S
<1>13. /\ sofar[0] = base
       /\ \A n \in 0 .. k : sofar[n] \in B
       /\ \A n \in 0 .. k - 1 : sofar[n + 1] = next[<<sofar[n], ranked[n + 1]>>]
    BY <1>11 DEF Taking
<1>14. kept[0] = <<>> /\ \A n \in 0 .. k - 1 : kept[n + 1] = Kept(kept[n], ranked[n + 1], quota)
    BY <1>4 DEF Fusing
<1> HIDE DEF k, S
<1>15. 0 \in T
    BY <1>2, <1>12, <1>13, <1>14 DEF Accounted
<1>16. ASSUME NEW n \in Nat, n \in T  PROVE n + 1 \in T
  <2> SUFFICES ASSUME n + 1 \in 0 .. k
               PROVE  sofar[n + 1].kept = kept[n + 1] /\ Accounted(sofar[n + 1], quota, n + 1)
      OBVIOUS
  <2>1. n \in 0 .. k - 1 /\ n \in 0 .. k /\ n + 1 \in 1 .. k
      BY <1>12
  <2>2. sofar[n].kept = kept[n] /\ Accounted(sofar[n], quota, n) /\ sofar[n] \in Drops
      BY <1>13, <1>16, <2>1 DEF B
  <2>3. sofar[n + 1] = Drop(sofar[n], ranked[n + 1], quota) /\ ranked[n + 1] \in Hit
      BY <1>5, <1>12, <1>13, <2>1 DEF Op
  <2>4. kept[n + 1] = Kept(kept[n], ranked[n + 1], quota)
      BY <1>14, <2>1
  <2> HIDE DEF T
  <2> QED BY <2>2, <2>3, <2>4, DropAccounts
<1>17. Nat \subseteq T
  <2> HIDE DEF T
  <2> QED BY <1>15, <1>16, NumberInduction
<1>18. k \in T /\ k \in 0 .. k
    BY <1>12, <1>17
<1>19. Dropped(list, quota) = sofar[k] /\ Fuse(list, quota) = kept[k]
    BY <1>1, <1>4, <1>11 DEF k, S
<1> QED BY <1>13, <1>18, <1>19 DEF B, k, ranked

(* Sums over a set in two parts, and in as many parts as there are keys.   *)
LEMMA SumJoins ==
    ASSUME NEW S, IsFiniteSet(S), NEW w, \A x \in S : w[x] \in Nat,
           NEW A, A \in SUBSET S, NEW B, B \in SUBSET S, A \cap B = {}
    PROVE  Total(w, A \cup B) = Total(w, A) + Total(w, B)
<1> DEFINE T == {b \in SUBSET B : Total(w, A \cup b) = Total(w, A) + Total(w, b)}
<1>1. \A s \in SUBSET S : /\ Total(w, s) \in Nat
                          /\ \A x \in s : Total(w, s) = w[x] + Total(w, s \ {x})
    BY SumTakes
<1>2. {} \in T
  <2>1. Total(w, {}) = 0
    <3>1. {} \in SUBSET S
        OBVIOUS
    <3> QED BY <3>1, SumUnfolds
  <2>2. A \cup {} = A
      OBVIOUS
  <2> QED BY <1>1, <2>1, <2>2
<1>3. \A s \in SUBSET B : s # {} => \E x \in s : s \ {x} \in T => s \in T
  <2> SUFFICES ASSUME NEW s \in SUBSET B, NEW x \in s, s \ {x} \in T
               PROVE  Total(w, A \cup s) = Total(w, A) + Total(w, s)
      OBVIOUS
  <2>1. (A \cup s) \ {x} = A \cup (s \ {x}) /\ x \in A \cup s /\ x \in S
      OBVIOUS
  <2>2. A \cup s \in SUBSET S /\ s \in SUBSET S /\ s \ {x} \in SUBSET S
      OBVIOUS
  <2>3. Total(w, A \cup s) = w[x] + Total(w, A \cup (s \ {x}))
      BY <1>1, <2>1, <2>2
  <2>4. Total(w, s) = w[x] + Total(w, s \ {x})
      BY <1>1, <2>2
  <2>5. Total(w, A \cup (s \ {x})) = Total(w, A) + Total(w, s \ {x})
      OBVIOUS
  <2>6. w[x] \in Nat /\ Total(w, A) \in Nat /\ Total(w, s \ {x}) \in Nat
      BY <1>1, <2>1, <2>2
  <2> HIDE DEF T
  <2> QED BY <2>3, <2>4, <2>5, <2>6
<1>4. IsFiniteSet(B)
    BY FS_Subset
<1>5. SUBSET B \subseteq T
  <2> HIDE DEF T
  <2> QED BY <1>2, <1>3, <1>4, SubsetInduction
<1> QED BY <1>5

Keyed(S, key, keys) == {x \in S : key[x] \in keys}

SumsPer(S, w, key, Q, per) == \A q \in Q : per[q] = Total(w, Keyed(S, key, {q}))

LEMMA SumSplits ==
    ASSUME NEW S, IsFiniteSet(S), NEW w, \A x \in S : w[x] \in Nat, NEW key,
           NEW Q, IsFiniteSet(Q), NEW per, SumsPer(S, w, key, Q, per)
    PROVE  Total(per, Q) = Total(w, Keyed(S, key, Q))
<1> DEFINE T == {z \in SUBSET Q : Total(per, z) = Total(w, Keyed(S, key, z))}
<1>1. \A s \in SUBSET S : Total(w, s) \in Nat
    BY SumUnfolds
<1>2. \A z : Keyed(S, key, z) \in SUBSET S
    BY DEF Keyed
<1>3. \A q \in Q : per[q] \in Nat
    BY <1>1, <1>2 DEF SumsPer
<1>4. \A z \in SUBSET Q : /\ Total(per, z) \in Nat
                          /\ \A q \in z : Total(per, z) = per[q] + Total(per, z \ {q})
  <2>1. IsFiniteSet(Q)
      OBVIOUS
  <2> HIDE DEF T
  <2> QED BY <1>3, <2>1, SumTakes
<1>5. {} \in T
  <2>1. {} \in SUBSET S /\ {} \in SUBSET Q
      OBVIOUS
  <2>2. Total(w, {}) = 0
      BY <2>1, SumUnfolds
  <2>3. Total(per, {}) = 0
      BY <1>3, <2>1, SumUnfolds
  <2>4. Keyed(S, key, {}) = {}
      BY DEF Keyed
  <2> QED BY <2>2, <2>3, <2>4
<1>6. \A z \in SUBSET Q : z # {} => \E q \in z : z \ {q} \in T => z \in T
  <2> SUFFICES ASSUME NEW z \in SUBSET Q, NEW q \in z, z \ {q} \in T
               PROVE  Total(per, z) = Total(w, Keyed(S, key, z))
      OBVIOUS
  <2> DEFINE A == Keyed(S, key, z \ {q})
             B == Keyed(S, key, {q})
  <2>1. Keyed(S, key, z) = A \cup B /\ A \cap B = {}
      BY DEF Keyed
  <2>2. A \in SUBSET S /\ B \in SUBSET S
      BY <1>2
  <2>3. Total(per, z) = Total(w, B) + Total(w, A)
      BY <1>4 DEF SumsPer
  <2>4. Total(w, A) \in Nat /\ Total(w, B) \in Nat
      BY <1>1, <2>2
  <2> HIDE DEF A, B, T
  <2>5. Total(w, A \cup B) = Total(w, A) + Total(w, B)
      BY <2>1, <2>2, SumJoins
  <2> QED BY <2>1, <2>3, <2>4, <2>5
<1>7. SUBSET Q \subseteq T
  <2> HIDE DEF T
  <2> QED BY <1>5, <1>6, SubsetInduction
<1> QED BY <1>7

(* A ranking holds each of its leaves once. *)
LEMMA RankingIsOnce ==
    ASSUME NEW list, list \in Rankings(Leaves)
    PROVE  /\ list \in Seq(Leaves)
           /\ IsFiniteSet(ToSet(list)) /\ Cardinality(ToSet(list)) = Len(list)
<1>1. PICK n \in 0 .. SearchTopK : list \in [1 .. n -> Leaves] /\ IsInjective(list)
    BY DEF Rankings
<1>2. n \in Nat /\ list \in Seq(Leaves) /\ Len(list) = n
    BY <1>1, LimitsAssumption
<1>3. list \in Bijection(1 .. n, ToSet(list))
    BY <1>1 DEF Bijection, Injection, Surjection, ToSet
<1>4. IsFiniteSet(1 .. n) /\ Cardinality(1 .. n) = n
    BY <1>2, FS_Interval
<1>5. IsFiniteSet(ToSet(list)) /\ Cardinality(ToSet(list)) = n
    BY <1>3, <1>4, FS_Bijection DEF ExistsBijection
<1> QED BY <1>2, <1>5

(* Fusion orders every leaf that was found. *)
LEMMA OrderedIsAll ==
    ASSUME NEW list \in Seq(Branch)
    PROVE  Len(Ordered(list)) = Cardinality(FoundBy(list)) /\ Len(Ordered(list)) \in Nat
<1> DEFINE ranked == Ordered(list)
           leaf == [i \in DOMAIN ranked |-> ranked[i].leaf]
<1>1. Ranked(list, ranked)
    BY OrderedIsRanked
<1>2. DOMAIN ranked = 1 .. Len(ranked) /\ Len(ranked) \in Nat
    BY <1>1 DEF Ranked
<1>3. leaf \in [DOMAIN ranked -> FoundBy(list)]
    BY <1>1 DEF Ranked
<1>4. IsInjective(leaf)
    BY <1>1 DEF Ranked, IsInjective
<1>5. ASSUME NEW x \in FoundBy(list)  PROVE \E i \in DOMAIN ranked : leaf[i] = x
  <2>1. PICK i \in DOMAIN ranked : ranked[i] = FusedHit(list, x)
      BY <1>1 DEF Ranked
  <2> QED BY <2>1, FusedHitIsHit
<1>6. leaf \in Bijection(DOMAIN ranked, FoundBy(list))
    BY <1>3, <1>4, <1>5 DEF Bijection, Injection, Surjection
<1> HIDE DEF ranked, leaf
<1>7. IsFiniteSet(DOMAIN ranked) /\ Cardinality(DOMAIN ranked) = Len(ranked)
  <2> DEFINE k == Len(ranked)
  <2>1. k \in Nat /\ DOMAIN ranked = 1 .. k
      BY <1>2
  <2> HIDE DEF k
  <2>2. IsFiniteSet(1 .. k) /\ Cardinality(1 .. k) = k
      BY <2>1, FS_Interval
  <2> QED BY <2>1, <2>2 DEF k
<1>8. Cardinality(FoundBy(list)) = Cardinality(DOMAIN ranked)
    BY <1>6, <1>7, FS_Bijection DEF ExistsBijection
<1> QED BY <1>2, <1>7, <1>8 DEF ranked

LEMMA SumOfOne ==
    ASSUME NEW S, IsFiniteSet(S), NEW w, \A x \in S : w[x] \in Nat, NEW a, a \in S
    PROVE  Total(w, {a}) = w[a] /\ Total(w, {}) = 0
<1>1. {} \in SUBSET S /\ {a} \in SUBSET S /\ {a} \ {a} = {} /\ a \in {a}
    OBVIOUS
<1>2. Total(w, {}) = 0
    BY <1>1, SumUnfolds
<1>3. \A s \in SUBSET S : /\ Total(w, s) \in Nat
                          /\ \A x \in s : Total(w, s) = w[x] + Total(w, s \ {x})
    BY SumTakes
<1>4. Total(w, {a}) = w[a] + Total(w, {a} \ {a})
    BY <1>1, <1>3
<1>5. w[a] \in Nat
    OBVIOUS
<1> QED BY <1>1, <1>2, <1>4, <1>5

(* What a route's search by one method found. *)
PlacesBy(list, query, method) ==
    {i \in DOMAIN list : list[i].query = query /\ list[i].method = method}
LeavesBy(list, query, method) ==
    UNION {ToSet(list[i].hits) : i \in PlacesBy(list, query, method)}
HitsIn(list) == [i \in DOMAIN list |-> Len(list[i].hits)]

LEMMA SearchCounts ==
    ASSUME NEW list \in Seq(Branch), Apart(list), NEW query, NEW method
    PROVE  /\ IsFiniteSet(LeavesBy(list, query, method))
           /\ Cardinality(LeavesBy(list, query, method))
                  = Total(HitsIn(list), PlacesBy(list, query, method))
<1> DEFINE places == PlacesBy(list, query, method)
           w == HitsIn(list)
<1>1. /\ IsFiniteSet(DOMAIN list)
      /\ \A i \in DOMAIN list : list[i].hits \in Rankings(Leaves)
  <2>1. \A i \in DOMAIN list : list[i] \in Branch
      BY PlacesOf
  <2> QED BY <2>1, PlacesOf DEF Branch
<1>2. \A i \in DOMAIN list : w[i] \in Nat /\ w[i] = Len(list[i].hits)
  <2>1. \A i \in DOMAIN list : list[i].hits \in Seq(Leaves)
      BY <1>1, RankingIsOnce
  <2> QED BY <2>1 DEF HitsIn
<1>3. places \in SUBSET DOMAIN list
    BY DEF PlacesBy
<1>4. \A i, j \in places : i = j
    BY DEF PlacesBy, Apart
<1>5. CASE places = {}
  <2>1. LeavesBy(list, query, method) = {}
      BY <1>5 DEF LeavesBy
  <2> HIDE DEF places, w
  <2>2. Total(w, {}) = 0
    <3>1. {} \in SUBSET DOMAIN list
        OBVIOUS
    <3> QED BY <1>1, <1>2, <3>1, SumUnfolds
  <2> QED BY <1>5, <2>1, <2>2, FS_EmptySet DEF places, w
<1>6. CASE places # {}
  <2>1. PICK i \in places : places = {i}
      BY <1>4, <1>6
  <2>2. LeavesBy(list, query, method) = ToSet(list[i].hits)
      BY <2>1 DEF LeavesBy
  <2>3. i \in DOMAIN list
      BY <1>3, <2>1
  <2> HIDE DEF places, w
  <2>4. Total(w, {i}) = w[i]
    <3>1. \A x \in DOMAIN list : w[x] \in Nat
        BY <1>2
    <3> QED BY <1>1, <2>3, <3>1, SumOfOne
  <2>5. IsFiniteSet(ToSet(list[i].hits)) /\ Cardinality(ToSet(list[i].hits)) = Len(list[i].hits)
      BY <1>1, <2>3, RankingIsOnce
  <2> QED BY <1>2, <2>1, <2>2, <2>3, <2>4, <2>5 DEF places, w
<1> QED BY <1>5, <1>6

QueriesOf(list) == {list[i].query : i \in DOMAIN list}
FoundPer(list) ==
    [q \in QueriesOf(list) |-> BranchMetric(list, q).overlap + BranchMetric(list, q).unique]

(* A route found what its two searches found: together and alone. *)
LEMMA RouteCounts ==
    ASSUME NEW list \in Seq(Branch), Apart(list), NEW query
    PROVE  BranchMetric(list, query).overlap + BranchMetric(list, query).unique
               = Total(HitsIn(list), PlacesBy(list, query, "dense"))
                 + Total(HitsIn(list), PlacesBy(list, query, "sparse"))
<1> DEFINE D == LeavesBy(list, query, "dense")
           P == LeavesBy(list, query, "sparse")
<1>1. /\ BranchMetric(list, query).overlap = Cardinality(D \cap P)
      /\ BranchMetric(list, query).unique = Cardinality(D \cup P)
    BY DEF BranchMetric, LeavesBy, PlacesBy
<1>2. /\ IsFiniteSet(D) /\ Cardinality(D) = Total(HitsIn(list), PlacesBy(list, query, "dense"))
      /\ IsFiniteSet(P) /\ Cardinality(P) = Total(HitsIn(list), PlacesBy(list, query, "sparse"))
    BY SearchCounts
<1> HIDE DEF D, P
<1>3. Cardinality(D \cup P) = Cardinality(D) + Cardinality(P) - Cardinality(D \cap P)
    BY <1>2, FS_Union
<1>4. Cardinality(D) \in Nat /\ Cardinality(P) \in Nat /\ Cardinality(D \cap P) \in Nat
  <2>1. IsFiniteSet(D \cap P)
      BY <1>2, FS_Intersection
  <2> QED BY <1>2, <2>1, FS_CardinalityType
<1> QED BY <1>1, <1>2, <1>3, <1>4

(* What enters fusion is what the routes found. *)
LEMMA BranchesAddUp ==
    ASSUME NEW list \in Seq(Branch), Apart(list)
    PROVE  /\ InputHits(list) \in Nat
           /\ InputHits(list) = Total(FoundPer(list), QueriesOf(list))
<1> DEFINE S == DOMAIN list
           Q == QueriesOf(list)
           w == HitsIn(list)
           per == FoundPer(list)
           key == [i \in S |-> list[i].query]
           f(h) == h = [s \in SUBSET S |->
                           IF s = {} THEN 0 ELSE Len(list[Pick(s)].hits) + h[s \ {Pick(s)}]]
           g(h) == h = [s \in SUBSET S |->
                           IF s = {} THEN 0 ELSE w[Pick(s)] + h[s \ {Pick(s)}]]
<1>1. InputHits(list) = Total(w, S)
  <2>1. InputHits(list) = (CHOOSE h : f(h))[S]
      BY Zenon DEF InputHits, MapThenSumSet, MapThenFoldSet, Pick
  <2>2. Total(w, S) = (CHOOSE h : g(h))[S]
      BY Zenon DEF Total, MapThenSumSet, MapThenFoldSet, Pick
  <2>3. \A s \in SUBSET S : s # {} => w[Pick(s)] = Len(list[Pick(s)].hits)
      BY DEF Pick, HitsIn
  <2> HIDE DEF w, S
  <2>4. \A h : f(h) <=> g(h)
      BY <2>3
  <2> HIDE DEF f, g
  <2>5. (CHOOSE h : f(h)) = (CHOOSE h : g(h))
      BY <2>4
  <2> QED BY <2>1, <2>2, <2>5
<1> HIDE DEF f, g
<1>2. IsFiniteSet(S) /\ \A i \in S : list[i] \in Branch
    BY PlacesOf
<1>3. \A i \in S : w[i] \in Nat
  <2>1. \A i \in S : list[i].hits \in Rankings(Leaves)
      BY <1>2 DEF Branch
  <2>2. \A i \in S : list[i].hits \in Seq(Leaves)
      BY <2>1, RankingIsOnce
  <2> QED BY <2>2 DEF HitsIn
<1>4. IsFiniteSet(Q)
  <2>1. key \in Surjection(S, Q)
      BY DEF Surjection, QueriesOf
  <2> HIDE DEF key, S, Q
  <2> QED BY <1>2, <2>1, FS_Surjection
<1>5. ASSUME NEW q \in Q  PROVE per[q] = Total(w, Keyed(S, key, {q}))
  <2> DEFINE D == PlacesBy(list, q, "dense")
             P == PlacesBy(list, q, "sparse")
  <2>1. per[q] = BranchMetric(list, q).overlap + BranchMetric(list, q).unique
      BY DEF FoundPer
  <2>2. per[q] = Total(w, D) + Total(w, P)
      BY <2>1, RouteCounts
  <2>3. \A i \in S : list[i].method = "dense" \/ list[i].method = "sparse"
      BY <1>2 DEF Branch, Methods
  <2>4. Keyed(S, key, {q}) = D \cup P
      BY <2>3 DEF Keyed, PlacesBy
  <2>5. D \in SUBSET S /\ P \in SUBSET S /\ D \cap P = {}
      BY DEF PlacesBy
  <2> HIDE DEF D, P, S, w, per
  <2>6. Total(w, D \cup P) = Total(w, D) + Total(w, P)
      BY <1>2, <1>3, <2>5, SumJoins
  <2> QED BY <2>2, <2>4, <2>6
<1>6. Keyed(S, key, Q) = S
    BY DEF Keyed, QueriesOf
<1>7. SumsPer(S, w, key, Q, per)
  <2> HIDE DEF S, w, key, Q, per
  <2> QED BY <1>5 DEF SumsPer
<1> HIDE DEF S, w, key, Q, per
<1>8. Total(per, Q) = Total(w, Keyed(S, key, Q))
    BY <1>2, <1>3, <1>4, <1>7, SumSplits
<1>9. Total(w, S) \in Nat
  <2>1. S \in SUBSET S
      OBVIOUS
  <2> QED BY <1>2, <1>3, <2>1, SumUnfolds
<1> QED BY <1>1, <1>6, <1>8, <1>9 DEF per, Q

LEMMA RoutesAddUp ==
    ASSUME NEW list
    PROVE  MapThenSumSet(
               LAMBDA q : BranchMetric(list, q).overlap + BranchMetric(list, q).unique,
               {list[i].query : i \in DOMAIN list})
           = Total(FoundPer(list), QueriesOf(list))
<1> DEFINE Q == QueriesOf(list)
           w == FoundPer(list)
           f(h) == h = [s \in SUBSET Q |->
                           IF s = {} THEN 0
                           ELSE BranchMetric(list, Pick(s)).overlap
                                + BranchMetric(list, Pick(s)).unique + h[s \ {Pick(s)}]]
           g(h) == h = [s \in SUBSET Q |->
                           IF s = {} THEN 0 ELSE w[Pick(s)] + h[s \ {Pick(s)}]]
<1>1. MapThenSumSet(
          LAMBDA q : BranchMetric(list, q).overlap + BranchMetric(list, q).unique, Q)
      = (CHOOSE h : f(h))[Q]
    BY Zenon DEF MapThenSumSet, MapThenFoldSet, Pick
<1>2. Total(w, Q) = (CHOOSE h : g(h))[Q]
    BY Zenon DEF Total, MapThenSumSet, MapThenFoldSet, Pick
<1>3. \A s \in SUBSET Q : s # {} =>
          w[Pick(s)] = BranchMetric(list, Pick(s)).overlap + BranchMetric(list, Pick(s)).unique
  <2>1. \A q \in Q : w[q] = BranchMetric(list, q).overlap + BranchMetric(list, q).unique
      BY DEF FoundPer
  <2>2. \A s \in SUBSET Q : s # {} => Pick(s) \in Q
      BY DEF Pick
  <2> QED BY <2>1, <2>2
<1>4. Q = {list[i].query : i \in DOMAIN list}
    BY DEF QueriesOf
<1> HIDE DEF w, Q
<1>5. \A h : f(h) <=> g(h)
    BY <1>3
<1> HIDE DEF f, g
<1>6. (CHOOSE h : f(h)) = (CHOOSE h : g(h))
    BY <1>5
<1>7. MapThenSumSet(
          LAMBDA q : BranchMetric(list, q).overlap + BranchMetric(list, q).unique, Q)
      = Total(w, Q)
    BY <1>1, <1>2, <1>6
<1> QED BY <1>4, <1>7 DEF w, Q

(* The counters of fusion account for every hit. *)
LEMMA FusionAddsUp ==
    ASSUME FunnelInv, Traceable, stage = "authorize"
    PROVE  LET m == FusionMetric(branches, hits, Quota)
           IN  /\ m.input = MapThenSumSet(
                      LAMBDA q : BranchMetric(branches, q).overlap
                                 + BranchMetric(branches, q).unique,
                      {branches[i].query : i \in DOMAIN branches})
               /\ m.dropped = m.collapsed + m.quota + m.topK
               /\ m.quota > 0 => \E i \in DOMAIN hits : SameRoot(hits, hits[i]) = Quota
               /\ m.topK > 0 => m.output = FusedTopK
<1> DEFINE quota == Quota
           m == FusionMetric(branches, hits, quota)
           seen == Dropped(branches, quota)
<1>1. branches \in Seq(Branch) /\ hits = Fuse(branches, quota)
    BY DEF FunnelInv, Fused
<1>2. quota \in Nat \ {0}
    BY <1>1, QuotaIsPositive
<1>3. /\ m.input = InputHits(branches) /\ m.output = Len(hits)
      /\ m.dropped = InputHits(branches) - Len(hits)
      /\ m.collapsed = InputHits(branches) - Cardinality(FoundBy(branches))
      /\ m.quota = seen.quota /\ m.topK = seen.topK
    BY DEF FusionMetric
<1> HIDE DEF m, quota
<1>4. /\ seen \in Drops /\ seen.kept = hits
      /\ Accounted(seen, quota, Len(Ordered(branches)))
    BY <1>1, <1>2, DropsAddUp
<1>5. /\ Len(Ordered(branches)) = Cardinality(FoundBy(branches))
      /\ Len(Ordered(branches)) \in Nat
    BY <1>1, OrderedIsAll
<1>6. PICK at : Sofar(Ordered(branches), quota, Len(Ordered(branches)), hits, at)
    BY <1>1, <1>2, FuseIsSound
<1>7. /\ hits \in Seq(Hit) /\ Len(hits) \in Nat /\ Len(hits) <= FusedTopK
      /\ \A hit : SameRoot(hits, hit) <= quota
    BY <1>6 DEF Sofar
<1>8. Apart(branches)
    BY DEF Traceable
<1>9. /\ InputHits(branches) \in Nat
      /\ InputHits(branches) = Total(FoundPer(branches), QueriesOf(branches))
    BY <1>1, <1>8, BranchesAddUp
<1> HIDE DEF seen
<1>10. seen.quota \in Nat /\ seen.topK \in Nat
    BY <1>4 DEF Drops
<1>11. seen.quota + seen.topK + Len(hits) = Cardinality(FoundBy(branches))
    BY <1>4, <1>5 DEF Accounted
<1>12. m.dropped = m.collapsed + m.quota + m.topK
    BY <1>3, <1>5, <1>7, <1>9, <1>10, <1>11
<1>13. ASSUME m.quota > 0  PROVE \E i \in DOMAIN hits : SameRoot(hits, hits[i]) = quota
  <2>1. PICK hit \in Hit : SameRoot(hits, hit) >= quota
      BY <1>3, <1>4, <1>13 DEF Accounted
  <2>2. SameRoot(hits, hit) \in Nat
      BY <1>7, SameRootCounts
  <2>3. SameRoot(hits, hit) = quota
      BY <1>2, <1>7, <2>1, <2>2
  <2>4. PICK i \in DOMAIN hits : RootOf[hits[i].leaf] = RootOf[hit.leaf]
    <3>1. {i \in DOMAIN hits : RootOf[hits[i].leaf] = RootOf[hit.leaf]} # {}
        BY <1>2, <2>3, FS_EmptySet DEF SameRoot
    <3> QED BY <3>1
  <2>5. SameRoot(hits, hits[i]) = SameRoot(hits, hit)
      BY <2>4 DEF SameRoot
  <2> QED BY <2>3, <2>5
<1>14. m.topK > 0 => m.output = FusedTopK
  <2>1. m.topK > 0 => Len(hits) >= FusedTopK
      BY <1>3, <1>4 DEF Accounted
  <2>2. FusedTopK \in Nat
      BY LimitsAssumption
  <2> QED BY <1>3, <1>7, <2>1, <2>2
<1>15. m.input = Total(FoundPer(branches), QueriesOf(branches))
    BY <1>3, <1>9
<1>16. m.input = MapThenSumSet(
           LAMBDA q : BranchMetric(branches, q).overlap + BranchMetric(branches, q).unique,
           {branches[i].query : i \in DOMAIN branches})
    BY <1>15, RoutesAddUp
<1> QED BY <1>12, <1>13, <1>14, <1>16 DEF m, quota

(* The counters of the restoring account for every root. *)
LEMMA RestoringAddsUp ==
    ASSUME FunnelInv, Traceable, stage = "restored"
    PROVE  LET m == RestoreMetric(hits, restored)
           IN  /\ m.output + m.dropped = Cardinality({RootOf[hits[i].leaf] : i \in DOMAIN hits})
               /\ m.truncated > 0 => m.used = MaxParentChars
<1> DEFINE m == RestoreMetric(hits, restored)
           used == MapThenSumSet(LAMBDA i : restored[i].length, DOMAIN restored)
           roots == RootsInOrder(hits)
           cut == {i \in DOMAIN restored : restored[i].truncated}
<1>1. /\ m.output = Len(restored) /\ m.dropped = Len(roots) - Len(restored)
      /\ m.truncated = Cardinality(cut) /\ m.used = used
    BY DEF RestoreMetric
<1>2. \A i \in DOMAIN restored : restored[i].truncated => used = MaxParentChars
    BY BudgetIsShared DEF BudgetShared, Traceable
<1>3. hits \in Seq(Hit) /\ texts \subseteq Leaves
    BY DEF FunnelInv
<1>4. Len(restored) \in Nat
  <2>1. restored = Restore(hits, texts, Stored)
      BY DEF Traceable, RestoredFromHits
  <2>2. PICK sum : Restore(hits, texts, Stored) \in Seq(Pieces(hits, Stored))
      BY <1>3, RestoringShares
  <2> QED BY <2>1, <2>2
<1>5. roots \in Seq(RootsOf(hits)) /\ ToSet(roots) = RootsOf(hits) /\ IsInjective(roots)
    BY <1>3, RootsAreOnce
<1> HIDE DEF m, used, roots
<1>6. Len(roots) = Cardinality(RootsOf(hits)) /\ Len(roots) \in Nat
  <2> DEFINE k == Len(roots)
  <2>1. k \in Nat /\ DOMAIN roots = 1 .. k /\ roots \in [1 .. k -> RootsOf(hits)]
      BY <1>5
  <2>2. roots \in Bijection(1 .. k, RootsOf(hits))
      BY <1>5, <2>1 DEF Bijection, Injection, Surjection, ToSet
  <2> HIDE DEF k
  <2>3. IsFiniteSet(1 .. k) /\ Cardinality(1 .. k) = k
      BY <2>1, FS_Interval
  <2>4. Cardinality(RootsOf(hits)) = k
      BY <2>2, <2>3, FS_Bijection DEF ExistsBijection
  <2> QED BY <2>1, <2>4 DEF k
<1>7. m.output + m.dropped = Cardinality(RootsOf(hits))
    BY <1>1, <1>4, <1>6
<1>8. m.truncated > 0 => m.used = MaxParentChars
  <2>1. cut = {} => ~(Cardinality(cut) > 0)
      BY FS_EmptySet
  <2> QED BY <1>1, <1>2, <2>1
<1> QED BY <1>7, <1>8 DEF m, RootsOf

LEMMA CountersAddUp ==
    ASSUME FunnelInv, Traceable
    PROVE  FunnelAddsUp
BY FusionAddsUp, RestoringAddsUp DEF FunnelAddsUp

-----------------------------------------------------------------------------
(* The ranking table: what a row tells of the events of its leaf. *)
Row == [leaf : Leaves, dense : Nat, sparse : Nat, fusion : Nat, rerank : Nat]

(* What the events of a trace may be. *)
Finding == [stage : Methods, leaf : Leaves, rank : Nat \ {0}]
Merging == [stage : {"fusion"}, leaf : Leaves, rank : Nat \ {0},
            dense : Nat \ {0}, sparse : Nat \ {0}]
Judging == [stage : {"rerank"}, leaf : Leaves, rank : Nat \ {0}]
Told == Finding \cup Merging \cup Judging

Tells(event, leaf, about) == event.leaf = leaf /\ event.stage = about

(* A rank a row has is one that an event told of its leaf, ... *)
Noticed(rank, events, n, leaf, about) ==
    \/ rank = None /\ \A m \in 1 .. n : ~Tells(events[m], leaf, about)
    \/ \E m \in 1 .. n : Tells(events[m], leaf, about) /\ rank = events[m].rank

(* ... and the least. *)
Lowest(rank, events, n, leaf, about) ==
    /\ Noticed(rank, events, n, leaf, about)
    /\ \A m \in 1 .. n : Tells(events[m], leaf, about) => rank <= events[m].rank

Knows(row, events, n) ==
    /\ Lowest(row.dense, events, n, row.leaf, "dense")
    /\ Lowest(row.sparse, events, n, row.leaf, "sparse")
    /\ Noticed(row.fusion, events, n, row.leaf, "fusion")
    /\ Noticed(row.rerank, events, n, row.leaf, "rerank")

(* An event of the fusion repeats what the searches told of its leaf. *)
Repeats(rank, events, n, leaf, about) ==
    \/ rank = Unranked /\ \A m \in 1 .. n : ~Tells(events[m], leaf, about)
    \/ rank < Unranked /\ rank # None /\ Lowest(rank, events, n, leaf, about)

Consistent(events, n) ==
    events[n + 1].stage = "fusion" =>
        /\ Repeats(events[n + 1].dense, events, n, events[n + 1].leaf, "dense")
        /\ Repeats(events[n + 1].sparse, events, n, events[n + 1].leaf, "sparse")

LEMMA TellsNothing ==
    ASSUME NEW events, NEW n \in Nat, NEW leaf, NEW about, ~Tells(events[n + 1], leaf, about)
    PROVE  /\ \A rank : Noticed(rank, events, n, leaf, about) => Noticed(rank, events, n + 1, leaf, about)
           /\ \A rank : Lowest(rank, events, n, leaf, about) => Lowest(rank, events, n + 1, leaf, about)
<1>1. \A m \in 1 .. n + 1 : m \in 1 .. n \/ m = n + 1
    OBVIOUS
<1>2. \A m \in 1 .. n : m \in 1 .. n + 1
    OBVIOUS
<1>3. \A rank : Noticed(rank, events, n, leaf, about) => Noticed(rank, events, n + 1, leaf, about)
    BY <1>1, <1>2 DEF Noticed
<1>4. \A rank : Lowest(rank, events, n, leaf, about) => Lowest(rank, events, n + 1, leaf, about)
    BY <1>1, <1>3 DEF Lowest
<1> QED BY <1>3, <1>4

LEMMA TellsNext ==
    ASSUME NEW events, NEW n \in Nat, NEW leaf, NEW about, Tells(events[n + 1], leaf, about)
    PROVE  Noticed(events[n + 1].rank, events, n + 1, leaf, about)
<1>1. n + 1 \in 1 .. n + 1
    OBVIOUS
<1> QED BY <1>1 DEF Noticed

LEMMA TellsLower ==
    ASSUME NEW events \in Seq(Told), NEW n \in 0 .. Len(events) - 1, NEW leaf, NEW about,
           Tells(events[n + 1], leaf, about), NEW rank \in Nat,
           Lowest(rank, events, n, leaf, about)
    PROVE  Lowest(BestRank(rank, events[n + 1].rank), events, n + 1, leaf, about)
<1> DEFINE other == events[n + 1].rank
           best == BestRank(rank, other)
<1>1. \A m \in 1 .. n + 1 : events[m].rank \in Nat \ {0}
  <2>1. \A m \in 1 .. n + 1 : m \in DOMAIN events
      OBVIOUS
  <2>2. \A m \in DOMAIN events : events[m] \in Told
      BY PlacesOf
  <2> QED BY <2>1, <2>2 DEF Told, Finding, Merging, Judging
<1>2. /\ \A m \in 1 .. n + 1 : m \in 1 .. n \/ m = n + 1
      /\ \A m \in 1 .. n : m \in 1 .. n + 1
      /\ n + 1 \in 1 .. n + 1 /\ n \in Nat
    OBVIOUS
<1>3. other \in Nat \ {0}
    BY <1>1, <1>2
<1>4. CASE rank = None \/ other < rank
  <2>1. best = other
      BY <1>4 DEF BestRank
  <2>2. Noticed(other, events, n + 1, leaf, about)
      BY <1>2, TellsNext
  <2>3. ASSUME NEW m \in 1 .. n, Tells(events[m], leaf, about)  PROVE other <= events[m].rank
    <3>1. rank <= events[m].rank
        BY <2>3 DEF Lowest
    <3>2. rank # None
      <4>1. events[m].rank # 0 /\ \A k \in 1 .. n : events[k].rank # 0
          BY <1>1, <1>2
      <4> QED BY <2>3, <4>1 DEF Lowest, Noticed, None
    <3>3. events[m].rank \in Nat
        BY <1>1, <1>2
    <3> QED BY <1>3, <1>4, <3>1, <3>2, <3>3
  <2>4. other <= other
      BY <1>3
  <2> HIDE DEF best, other
  <2>5. \A m \in 1 .. n + 1 : Tells(events[m], leaf, about) => other <= events[m].rank
      BY <1>2, <2>3, <2>4 DEF other
  <2> QED BY <2>1, <2>2, <2>5 DEF Lowest, best, other
<1>5. CASE rank # None /\ ~(other < rank)
  <2>1. best = rank
      BY <1>5 DEF BestRank
  <2>2. rank <= other
      BY <1>3, <1>5
  <2>3. Noticed(rank, events, n + 1, leaf, about)
      BY <1>2, <1>5 DEF Lowest, Noticed
  <2>4. \A m \in 1 .. n + 1 : Tells(events[m], leaf, about) => rank <= events[m].rank
      BY <1>2, <2>2 DEF Lowest
  <2> QED BY <2>1, <2>3, <2>4 DEF Lowest
<1> QED BY <1>4, <1>5

LEMMA LowestIsOne ==
    ASSUME NEW events \in Seq(Told), NEW n \in 0 .. Len(events), NEW leaf, NEW about,
           NEW a \in Nat, Lowest(a, events, n, leaf, about),
           NEW b \in Nat, Lowest(b, events, n, leaf, about)
    PROVE  a = b
<1>1. \A m \in 1 .. n : events[m].rank \in Nat \ {0}
  <2>1. \A m \in 1 .. n : m \in DOMAIN events
      OBVIOUS
  <2>2. \A m \in DOMAIN events : events[m] \in Told
      BY PlacesOf
  <2> QED BY <2>1, <2>2 DEF Told, Finding, Merging, Judging
<1> QED BY <1>1 DEF Lowest, Noticed

LEMMA RepeatedStays ==
    ASSUME NEW events \in Seq(Told), NEW n \in 0 .. Len(events), NEW leaf, NEW about,
           NEW a \in Nat, Lowest(a, events, n, leaf, about),
           NEW b \in Nat \ {0}, Repeats(b, events, n, leaf, about)
    PROVE  OrElse(b, a) = a
<1>1. CASE b = Unranked
    BY <1>1 DEF OrElse
<1>2. CASE b # Unranked
  <2>1. Lowest(b, events, n, leaf, about) /\ b # None
      BY <1>2 DEF Repeats
  <2>2. a = b
      BY <2>1, LowestIsOne
  <2> QED BY <1>2, <2>2 DEF OrElse
<1> QED BY <1>1, <1>2
LEMMA ToldIs ==
    ASSUME NEW event, event \in Told
    PROVE  /\ event.leaf \in Leaves /\ event.rank \in Nat \ {0}
           /\ event.stage \in {"dense", "sparse", "fusion", "rerank"}
           /\ event.stage = "fusion" => event.dense \in Nat \ {0} /\ event.sparse \in Nat \ {0}
BY DEF Told, Finding, Merging, Judging, Methods

(* What one event changes in the row of its leaf. *)
LEMMA NotedIs ==
    ASSUME NEW row, row \in Row, NEW event, event \in Told
    PROVE  LET noted == Noted(row, event)
           IN  /\ noted \in Row /\ noted.leaf = row.leaf
               /\ noted.dense = CASE event.stage = "dense" -> BestRank(row.dense, event.rank)
                                  [] event.stage = "fusion" -> OrElse(event.dense, row.dense)
                                  [] OTHER -> row.dense
               /\ noted.sparse = CASE event.stage = "sparse" -> BestRank(row.sparse, event.rank)
                                   [] event.stage = "fusion" -> OrElse(event.sparse, row.sparse)
                                   [] OTHER -> row.sparse
               /\ noted.fusion = IF event.stage = "fusion" THEN event.rank ELSE row.fusion
               /\ noted.rerank = IF event.stage = "rerank" THEN event.rank ELSE row.rerank
<1> DEFINE noted == Noted(row, event)
<1>1. /\ event.rank \in Nat \ {0}
      /\ event.stage \in {"dense", "sparse", "fusion", "rerank"}
      /\ event.stage = "fusion" => event.dense \in Nat \ {0} /\ event.sparse \in Nat \ {0}
    BY ToldIs
<1>2. /\ row = [leaf |-> row.leaf, dense |-> row.dense, sparse |-> row.sparse,
                fusion |-> row.fusion, rerank |-> row.rerank]
      /\ row.leaf \in Leaves /\ row.dense \in Nat /\ row.sparse \in Nat
      /\ row.fusion \in Nat /\ row.rerank \in Nat
    BY DEF Row
<1>3. CASE event.stage = "dense"
  <2>1. BestRank(row.dense, event.rank) \in Nat
      BY <1>1, <1>2 DEF BestRank
  <2>2. noted = [row EXCEPT !.dense = BestRank(row.dense, event.rank)]
      BY <1>3 DEF Noted
  <2> HIDE DEF noted
  <2>3. /\ noted \in Row /\ noted.leaf = row.leaf
        /\ noted.dense = BestRank(row.dense, event.rank) /\ noted.sparse = row.sparse
        /\ noted.fusion = row.fusion /\ noted.rerank = row.rerank
      BY <1>2, <2>1, <2>2 DEF Row
  <2> QED BY <1>3, <2>3 DEF noted
<1>4. CASE event.stage = "sparse"
  <2>1. BestRank(row.sparse, event.rank) \in Nat
      BY <1>1, <1>2 DEF BestRank
  <2>2. noted = [row EXCEPT !.sparse = BestRank(row.sparse, event.rank)]
      BY <1>4 DEF Noted
  <2> HIDE DEF noted
  <2>3. /\ noted \in Row /\ noted.leaf = row.leaf
        /\ noted.sparse = BestRank(row.sparse, event.rank) /\ noted.dense = row.dense
        /\ noted.fusion = row.fusion /\ noted.rerank = row.rerank
      BY <1>2, <2>1, <2>2 DEF Row
  <2> QED BY <1>4, <2>3 DEF noted
<1>5. CASE event.stage = "fusion"
  <2>1. OrElse(event.dense, row.dense) \in Nat /\ OrElse(event.sparse, row.sparse) \in Nat
      BY <1>1, <1>2, <1>5 DEF OrElse
  <2>2. noted = [row EXCEPT !.fusion = event.rank,
                            !.dense = OrElse(event.dense, row.dense),
                            !.sparse = OrElse(event.sparse, row.sparse)]
      BY <1>5 DEF Noted
  <2> HIDE DEF noted
  <2>3. /\ noted \in Row /\ noted.leaf = row.leaf
        /\ noted.sparse = OrElse(event.sparse, row.sparse)
        /\ noted.dense = OrElse(event.dense, row.dense)
        /\ noted.fusion = event.rank /\ noted.rerank = row.rerank
      BY <1>1, <1>2, <2>1, <2>2 DEF Row
  <2> QED BY <1>5, <2>3 DEF noted
<1>6. CASE event.stage = "rerank"
  <2>1. noted = [row EXCEPT !.rerank = event.rank]
      BY <1>6 DEF Noted
  <2> HIDE DEF noted
  <2>2. /\ noted \in Row /\ noted.leaf = row.leaf
        /\ noted.sparse = row.sparse /\ noted.dense = row.dense
        /\ noted.fusion = row.fusion /\ noted.rerank = event.rank
      BY <1>1, <1>2, <2>1 DEF Row
  <2> QED BY <1>6, <2>2 DEF noted
<1> QED BY <1>1, <1>3, <1>4, <1>5, <1>6

(* A row that is told one event more knows it. *)
LEMMA NotedKnows ==
    ASSUME NEW events \in Seq(Told), NEW n \in 0 .. Len(events) - 1,
           NEW row \in Row, Knows(row, events, n), row.leaf = events[n + 1].leaf,
           Consistent(events, n)
    PROVE  Knows(Noted(row, events[n + 1]), events, n + 1)
<1> DEFINE event == events[n + 1]
           noted == Noted(row, event)
           leaf == row.leaf
<1>1. /\ event \in Told /\ n \in Nat /\ n \in 0 .. Len(events)
      /\ row.dense \in Nat /\ row.sparse \in Nat
  <2>1. n + 1 \in DOMAIN events /\ n \in Nat /\ n \in 0 .. Len(events)
      OBVIOUS
  <2>2. \A m \in DOMAIN events : events[m] \in Told
      BY PlacesOf
  <2> QED BY <2>1, <2>2 DEF Row
<1>2. /\ event.stage \in {"dense", "sparse", "fusion", "rerank"}
      /\ event.stage = "fusion" => event.dense \in Nat \ {0} /\ event.sparse \in Nat \ {0}
    BY <1>1, ToldIs
<1>3. /\ noted.leaf = leaf
      /\ noted.dense = CASE event.stage = "dense" -> BestRank(row.dense, event.rank)
                         [] event.stage = "fusion" -> OrElse(event.dense, row.dense)
                         [] OTHER -> row.dense
      /\ noted.sparse = CASE event.stage = "sparse" -> BestRank(row.sparse, event.rank)
                          [] event.stage = "fusion" -> OrElse(event.sparse, row.sparse)
                          [] OTHER -> row.sparse
      /\ noted.fusion = IF event.stage = "fusion" THEN event.rank ELSE row.fusion
      /\ noted.rerank = IF event.stage = "rerank" THEN event.rank ELSE row.rerank
    BY <1>1, NotedIs
<1>4. /\ Lowest(row.dense, events, n, leaf, "dense")
      /\ Lowest(row.sparse, events, n, leaf, "sparse")
      /\ Noticed(row.fusion, events, n, leaf, "fusion")
      /\ Noticed(row.rerank, events, n, leaf, "rerank")
    BY DEF Knows
<1>5. \A about : event.stage = about <=> Tells(event, leaf, about)
    BY DEF Tells
<1> HIDE DEF noted, leaf
<1>6. Lowest(noted.dense, events, n + 1, leaf, "dense")
  <2>1. CASE event.stage = "dense"
    <3>1. Tells(events[n + 1], leaf, "dense")
        BY <1>5, <2>1
    <3>2. Lowest(BestRank(row.dense, events[n + 1].rank), events, n + 1, leaf, "dense")
        BY <1>1, <1>4, <3>1, TellsLower
    <3> QED BY <1>3, <2>1, <3>2
  <2>2. CASE event.stage # "dense"
    <3>1. ~Tells(events[n + 1], leaf, "dense")
        BY <1>5, <2>2
    <3>2. Lowest(row.dense, events, n + 1, leaf, "dense")
        BY <1>1, <1>4, <3>1, TellsNothing
    <3>3. event.stage = "fusion" => OrElse(event.dense, row.dense) = row.dense
      <4>1. event.stage = "fusion" => Repeats(event.dense, events, n, leaf, "dense")
          BY DEF Consistent, leaf
      <4> HIDE DEF event
      <4> QED BY <1>1, <1>2, <1>4, <4>1, RepeatedStays
    <3> QED BY <1>2, <1>3, <2>2, <3>2, <3>3
  <2> QED BY <2>1, <2>2
<1>7. Lowest(noted.sparse, events, n + 1, leaf, "sparse")
  <2>1. CASE event.stage = "sparse"
    <3>1. Tells(events[n + 1], leaf, "sparse")
        BY <1>5, <2>1
    <3>2. Lowest(BestRank(row.sparse, events[n + 1].rank), events, n + 1, leaf, "sparse")
        BY <1>1, <1>4, <3>1, TellsLower
    <3> QED BY <1>3, <2>1, <3>2
  <2>2. CASE event.stage # "sparse"
    <3>1. ~Tells(events[n + 1], leaf, "sparse")
        BY <1>5, <2>2
    <3>2. Lowest(row.sparse, events, n + 1, leaf, "sparse")
        BY <1>1, <1>4, <3>1, TellsNothing
    <3>3. event.stage = "fusion" => OrElse(event.sparse, row.sparse) = row.sparse
      <4>1. event.stage = "fusion" => Repeats(event.sparse, events, n, leaf, "sparse")
          BY DEF Consistent, leaf
      <4> HIDE DEF event
      <4> QED BY <1>1, <1>2, <1>4, <4>1, RepeatedStays
    <3> QED BY <1>2, <1>3, <2>2, <3>2, <3>3
  <2> QED BY <2>1, <2>2
<1>8. Noticed(noted.fusion, events, n + 1, leaf, "fusion")
    BY <1>1, <1>3, <1>4, <1>5, TellsNothing, TellsNext
<1>9. Noticed(noted.rerank, events, n + 1, leaf, "rerank")
    BY <1>1, <1>3, <1>4, <1>5, TellsNothing, TellsNext
<1> QED BY <1>3, <1>6, <1>7, <1>8, <1>9 DEF Knows, noted

LEMMA KnowsStill ==
    ASSUME NEW events, NEW n \in Nat, NEW row, Knows(row, events, n),
           row.leaf # events[n + 1].leaf
    PROVE  Knows(row, events, n + 1)
<1>1. \A about : ~Tells(events[n + 1], row.leaf, about)
    BY DEF Tells
<1> QED BY <1>1, TellsNothing DEF Knows

LEMMA EntryKnows ==
    ASSUME NEW events, NEW n \in Nat, NEW leaf \in Leaves,
           \A m \in 1 .. n : events[m].leaf # leaf
    PROVE  Entry(leaf) \in Row /\ Entry(leaf).leaf = leaf /\ Knows(Entry(leaf), events, n)
<1>1. /\ Entry(leaf) \in Row /\ Entry(leaf).leaf = leaf
      /\ Entry(leaf).dense = None /\ Entry(leaf).sparse = None
      /\ Entry(leaf).fusion = None /\ Entry(leaf).rerank = None
    BY DEF Entry, Row, None
<1>2. \A about : Noticed(None, events, n, leaf, about) /\ Lowest(None, events, n, leaf, about)
    BY DEF Noticed, Lowest, Tells
<1> QED BY <1>1, <1>2 DEF Knows

(* The rows know the events so far: one row for each leaf they are of. *)
TellsRows(rows, events, n) ==
    /\ rows \in Seq(Row) /\ Distinct(rows)
    /\ \A j \in DOMAIN rows : Knows(rows[j], events, n)
    /\ \A j \in DOMAIN rows : \E m \in 1 .. n : events[m].leaf = rows[j].leaf
    /\ \A m \in 1 .. n : \E j \in DOMAIN rows : rows[j].leaf = events[m].leaf

LEMMA CandidateTells ==
    ASSUME NEW events \in Seq(Told), NEW n \in 0 .. Len(events) - 1,
           NEW rows, TellsRows(rows, events, n), Consistent(events, n)
    PROVE  TellsRows(Candidate(rows, events[n + 1]), events, n + 1)
<1> DEFINE event == events[n + 1]
           known == {i \in DOMAIN rows : rows[i].leaf = event.leaf}
           k == Len(rows)
<1>1. /\ event \in Told /\ event.leaf \in Leaves /\ n \in Nat
      /\ \A m \in 1 .. n + 1 : m \in 1 .. n \/ m = n + 1
      /\ \A m \in 1 .. n : m \in 1 .. n + 1
      /\ n + 1 \in 1 .. n + 1
  <2>1. n + 1 \in DOMAIN events /\ n \in Nat
      OBVIOUS
  <2>2. \A m \in DOMAIN events : events[m] \in Told
      BY PlacesOf
  <2>3. event \in Told
      BY <2>1, <2>2
  <2>4. event.leaf \in Leaves
      BY <2>3, ToldIs
  <2> QED BY <2>1, <2>3, <2>4
<1>2. /\ rows \in Seq(Row) /\ k \in Nat /\ DOMAIN rows = 1 .. k
      /\ \A i \in DOMAIN rows : rows[i] \in Row
    BY DEF TellsRows
<1>3. /\ Distinct(rows) /\ \A j \in DOMAIN rows : Knows(rows[j], events, n)
      /\ \A j \in DOMAIN rows : \E m \in 1 .. n : events[m].leaf = rows[j].leaf
      /\ \A m \in 1 .. n : \E j \in DOMAIN rows : rows[j].leaf = events[m].leaf
    BY DEF TellsRows
<1>4. \A row \in Row : Knows(row, events, n) /\ row.leaf = event.leaf =>
          /\ Knows(Noted(row, event), events, n + 1)
          /\ Noted(row, event) \in Row /\ Noted(row, event).leaf = event.leaf
  <2> SUFFICES ASSUME NEW row \in Row, Knows(row, events, n), row.leaf = event.leaf
               PROVE  /\ Knows(Noted(row, event), events, n + 1)
                      /\ Noted(row, event) \in Row /\ Noted(row, event).leaf = event.leaf
      OBVIOUS
  <2>1. Knows(Noted(row, event), events, n + 1)
      BY NotedKnows
  <2>2. Noted(row, event) \in Row /\ Noted(row, event).leaf = row.leaf
      BY <1>1, NotedIs
  <2> QED BY <2>1, <2>2
<1>5. \A j \in DOMAIN rows : rows[j].leaf # event.leaf => Knows(rows[j], events, n + 1)
    BY <1>1, <1>3, KnowsStill
<1>6. CASE known = {}
  <2> DEFINE entry == Noted(Entry(event.leaf), event)
             more == Append(rows, entry)
  <2>1. \A j \in DOMAIN rows : rows[j].leaf # event.leaf
      BY <1>6
  <2>2. \A m \in 1 .. n : events[m].leaf # event.leaf
    <3> SUFFICES ASSUME NEW m \in 1 .. n  PROVE events[m].leaf # event.leaf
        OBVIOUS
    <3>1. PICK j \in DOMAIN rows : rows[j].leaf = events[m].leaf
        BY <1>3
    <3> QED BY <2>1, <3>1
  <2>3. /\ Entry(event.leaf) \in Row /\ Entry(event.leaf).leaf = event.leaf
        /\ Knows(Entry(event.leaf), events, n)
    <3> HIDE DEF event
    <3> QED BY <1>1, <2>2, EntryKnows
  <2>4. entry \in Row /\ entry.leaf = event.leaf /\ Knows(entry, events, n + 1)
      BY <1>4, <2>3
  <2>5. Candidate(rows, event) = more
      BY <1>6 DEF Candidate
  <2> HIDE DEF entry, event, known
  <2>6. /\ more \in Seq(Row) /\ DOMAIN more = 1 .. k + 1 /\ more[k + 1] = entry
        /\ \A j \in DOMAIN rows : more[j] = rows[j]
      BY <1>2, <2>4
  <2>7. /\ \A j \in DOMAIN more : j \in DOMAIN rows \/ j = k + 1
        /\ k + 1 \in DOMAIN more /\ \A j \in DOMAIN rows : j \in DOMAIN more
      BY <1>2, <2>6
  <2> HIDE DEF more, k
  <2>8. Distinct(more)
      BY <1>3, <2>1, <2>4, <2>6, <2>7 DEF Distinct
  <2>9. \A j \in DOMAIN more : Knows(more[j], events, n + 1)
      BY <1>5, <2>1, <2>4, <2>6, <2>7
  <2>10. \A j \in DOMAIN more : \E m \in 1 .. n + 1 : events[m].leaf = more[j].leaf
    <3> SUFFICES ASSUME NEW j \in DOMAIN more
                 PROVE  \E m \in 1 .. n + 1 : events[m].leaf = more[j].leaf
        OBVIOUS
    <3>1. CASE j = k + 1
        BY <1>1, <2>4, <2>6, <3>1 DEF event
    <3>2. CASE j \in DOMAIN rows
        BY <1>1, <1>3, <2>6, <3>2
    <3> QED BY <2>7, <3>1, <3>2
  <2>11. \A m \in 1 .. n + 1 : \E j \in DOMAIN more : more[j].leaf = events[m].leaf
    <3> SUFFICES ASSUME NEW m \in 1 .. n + 1
                 PROVE  \E j \in DOMAIN more : more[j].leaf = events[m].leaf
        OBVIOUS
    <3>1. CASE m = n + 1
        BY <2>4, <2>6, <2>7, <3>1 DEF event
    <3>2. CASE m \in 1 .. n
        BY <1>3, <2>6, <2>7, <3>2
    <3> QED BY <1>1, <3>1, <3>2
  <2> QED BY <2>5, <2>6, <2>8, <2>9, <2>10, <2>11 DEF TellsRows, event
<1>7. CASE known # {}
  <2> DEFINE more == [i \in DOMAIN rows |->
                         IF i \in known THEN Noted(rows[i], event) ELSE rows[i]]
  <2>1. Candidate(rows, event) = more
      BY <1>7 DEF Candidate
  <2>2. DOMAIN more = DOMAIN rows
      OBVIOUS
  <2>3. \A i \in DOMAIN rows :
            /\ more[i] \in Row /\ more[i].leaf = rows[i].leaf
            /\ Knows(more[i], events, n + 1)
    <3> SUFFICES ASSUME NEW i \in DOMAIN rows
                 PROVE  /\ more[i] \in Row /\ more[i].leaf = rows[i].leaf
                        /\ Knows(more[i], events, n + 1)
        OBVIOUS
    <3>1. CASE i \in known
        BY <1>2, <1>3, <1>4, <3>1
    <3>2. CASE i \notin known
        BY <1>2, <1>5, <3>2
    <3> QED BY <3>1, <3>2
  <2>4. PICK i \in DOMAIN rows : rows[i].leaf = event.leaf
      BY <1>7
  <2>5. more \in Seq(Row)
    <3>1. more \in [1 .. k -> Row]
        BY <1>2, <2>3
    <3> HIDE DEF more, k
    <3> QED BY <1>2, <3>1
  <2> HIDE DEF more, known, k
  <2>6. Distinct(more)
      BY <1>3, <2>2, <2>3 DEF Distinct
  <2>7. \A j \in DOMAIN more : \E m \in 1 .. n + 1 : events[m].leaf = more[j].leaf
    <3> SUFFICES ASSUME NEW j \in DOMAIN more
                 PROVE  \E m \in 1 .. n + 1 : events[m].leaf = more[j].leaf
        OBVIOUS
    <3>1. PICK m \in 1 .. n : events[m].leaf = rows[j].leaf
        BY <1>3, <2>2
    <3> QED BY <1>1, <2>2, <2>3, <3>1
  <2>8. \A m \in 1 .. n + 1 : \E j \in DOMAIN more : more[j].leaf = events[m].leaf
    <3> SUFFICES ASSUME NEW m \in 1 .. n + 1
                 PROVE  \E j \in DOMAIN more : more[j].leaf = events[m].leaf
        OBVIOUS
    <3>1. CASE m = n + 1
        BY <2>2, <2>3, <2>4, <3>1
    <3>2. CASE m \in 1 .. n
        BY <1>3, <2>2, <2>3, <3>2
    <3> QED BY <1>1, <3>1, <3>2
  <2> QED BY <2>1, <2>2, <2>3, <2>5, <2>6, <2>7, <2>8 DEF TellsRows
<1> QED BY <1>6, <1>7

(* A row for each leaf of which an event tells. *)
RowsOf(events) == FoldLeft(Candidate, <<>>, events)

LEMMA RowsTellEvents ==
    ASSUME NEW events \in Seq(Told), \A n \in 0 .. Len(events) - 1 : Consistent(events, n)
    PROVE  TellsRows(RowsOf(events), events, Len(events))
<1> DEFINE
      S == DOMAIN events
      B == Seq(Row)
      base == <<>>
      next == [p \in B \X Told |-> Candidate(p[1], p[2])]
      F(f) == f = [s \in SUBSET S |-> IF s = {} THEN base
                                      ELSE Candidate(f[s \ {Max(s)}], events[Max(s)])]
      g == CHOOSE f : F(f)
<1>1. RowsOf(events) = g[S]
    BY DEF RowsOf, FoldLeft, MapThenFoldSet
<1>2. base \in B
    OBVIOUS
<1> HIDE DEF S, F, g
<1>3. ASSUME NEW rows \in B, NEW event \in Told  PROVE Candidate(rows, event) \in B
  <2> DEFINE known == {i \in DOMAIN rows : rows[i].leaf = event.leaf}
             k == Len(rows)
  <2>1. k \in Nat /\ DOMAIN rows = 1 .. k /\ \A i \in DOMAIN rows : rows[i] \in Row
      OBVIOUS
  <2>2. \A row \in Row : Noted(row, event) \in Row
      BY NotedIs
  <2>3. CASE known = {}
    <3>1. Entry(event.leaf) \in Row
        BY ToldIs DEF Entry, Row, None
    <3>2. Candidate(rows, event) = Append(rows, Noted(Entry(event.leaf), event))
        BY <2>3 DEF Candidate
    <3>3. Noted(Entry(event.leaf), event) \in Row
        BY <2>2, <3>1
    <3> QED BY <3>2, <3>3
  <2>4. CASE known # {}
    <3> DEFINE more == [i \in DOMAIN rows |->
                           IF i \in known THEN Noted(rows[i], event) ELSE rows[i]]
    <3>1. Candidate(rows, event) = more
        BY <2>4 DEF Candidate
    <3>2. more \in [1 .. k -> Row]
        BY <2>1, <2>2
    <3> HIDE DEF more, k
    <3> QED BY <2>1, <3>1, <3>2
  <2> QED BY <2>3, <2>4
<1>4. \A a \in B, x \in Told :
          next[<<a, x>>] = Candidate(a, x) /\ Candidate(a, x) \in B
    BY <1>3
<1> HIDE DEF B, next, base
<1>5. Closed(B, Told, next)
    BY <1>4 DEF Closed
<1>6. PICK f : /\ Nesting(events, base, next, f)
               /\ \A s \in SUBSET DOMAIN events :
                     s # {} => f[s \ {Max(s)}] \in B /\ events[Max(s)] \in Told
    BY <1>2, <1>5, NestingExists
<1>7. F(f)
  <2>1. \A s \in SUBSET S : s # {} =>
            next[<<f[s \ {Max(s)}], events[Max(s)]>>]
                = Candidate(f[s \ {Max(s)}], events[Max(s)])
      BY <1>4, <1>6 DEF S
  <2> QED BY <1>6, <2>1 DEF Nesting, F, S
<1>8. F(g)
    BY <1>7 DEF g
<1>9. Nested(events, Told, B, base, next, g)
    BY <1>4, <1>8 DEF Nested, F, S
<1>10. PICK sofar : /\ Taking(events, B, base, next, sofar)
                    /\ g[DOMAIN events] = sofar[Len(events)]
    BY <1>2, <1>5, <1>9, NestingTakes
<1> DEFINE k == Len(events)
           T == {n \in Nat : n \in 0 .. k => TellsRows(sofar[n], events, n)}
<1>11. k \in Nat /\ \A i \in 1 .. k : events[i] \in Told
    OBVIOUS
<1>12. /\ sofar[0] = base
       /\ \A n \in 0 .. k : sofar[n] \in B
       /\ \A n \in 0 .. k - 1 : sofar[n + 1] = next[<<sofar[n], events[n + 1]>>]
    BY <1>10 DEF Taking
<1>13. 0 \in T
  <2>1. base \in Seq(Row) /\ DOMAIN base = {} /\ 1 .. 0 = {}
      BY DEF base
  <2>2. TellsRows(base, events, 0)
      BY <2>1 DEF TellsRows, Distinct
  <2> QED BY <1>12, <2>2
<1>14. ASSUME NEW n \in Nat, n \in T  PROVE n + 1 \in T
  <2> SUFFICES ASSUME n + 1 \in 0 .. k  PROVE TellsRows(sofar[n + 1], events, n + 1)
      OBVIOUS
  <2>1. n \in 0 .. k - 1 /\ n \in 0 .. k /\ n + 1 \in 1 .. k
      BY <1>11
  <2>2. TellsRows(sofar[n], events, n) /\ sofar[n] \in B
      BY <1>12, <1>14, <2>1
  <2>3. sofar[n + 1] = Candidate(sofar[n], events[n + 1])
      BY <1>4, <1>11, <1>12, <2>1, <2>2
  <2>4. Consistent(events, n) /\ n \in 0 .. Len(events) - 1
      BY <2>1
  <2> HIDE DEF T, k
  <2> QED BY <2>2, <2>3, <2>4, CandidateTells
<1>15. Nat \subseteq T
  <2> HIDE DEF T
  <2> QED BY <1>13, <1>14, NumberInduction
<1>16. TellsRows(sofar[k], events, k)
    BY <1>11, <1>15
<1> QED BY <1>1, <1>10, <1>16 DEF S

-----------------------------------------------------------------------------
(* What a concatenation of sequences holds. *)
Joined(X, list, seqs, n) ==
    /\ list \in Seq(X)
    /\ \A i \in 1 .. n : \A p \in DOMAIN seqs[i] : \E m \in DOMAIN list : list[m] = seqs[i][p]
    /\ \A m \in DOMAIN list : \E i \in 1 .. n : \E p \in DOMAIN seqs[i] : list[m] = seqs[i][p]

(* A concatenation holds what its parts hold. *)
Concatenated(X, both, a, b) ==
    /\ both \in Seq(X) /\ DOMAIN both = 1 .. Len(a) + Len(b)
    /\ \A i \in DOMAIN a : i \in DOMAIN both /\ both[i] = a[i]
    /\ \A i \in DOMAIN b : Len(a) + i \in DOMAIN both /\ both[Len(a) + i] = b[i]
    /\ \A m \in DOMAIN both : m \notin DOMAIN a => \E i \in DOMAIN b : m = Len(a) + i

LEMMA BothHeld ==
    ASSUME NEW X, NEW a, a \in Seq(X), NEW b, b \in Seq(X)
    PROVE  Concatenated(X, a \o b, a, b)
<1> DEFINE both == a \o b
<1>1. /\ both \in Seq(X) /\ DOMAIN both = 1 .. Len(a) + Len(b)
      /\ \A i \in DOMAIN a : i \in DOMAIN both /\ both[i] = a[i]
      /\ \A i \in DOMAIN b : Len(a) + i \in DOMAIN both /\ both[Len(a) + i] = b[i]
    OBVIOUS
<1>2. ASSUME NEW m \in DOMAIN both, m \notin DOMAIN a
      PROVE  m - Len(a) \in DOMAIN b /\ m = Len(a) + (m - Len(a))
    BY <1>1, <1>2
<1> QED BY <1>1, <1>2 DEF Concatenated

LEMMA JoinsNext ==
    ASSUME NEW X, NEW seqs \in Seq(Seq(X)), NEW n \in 0 .. Len(seqs) - 1, NEW list,
           Joined(X, list, seqs, n)
    PROVE  Joined(X, list \o seqs[n + 1], seqs, n + 1)
<1> DEFINE more == list \o seqs[n + 1]
<1>1. /\ n \in Nat /\ n + 1 \in 1 .. n + 1
      /\ \A i \in 1 .. n + 1 : i \in 1 .. n \/ i = n + 1
      /\ \A i \in 1 .. n : i \in 1 .. n + 1
    OBVIOUS
<1>2. list \in Seq(X) /\ seqs[n + 1] \in Seq(X)
  <2>1. n + 1 \in DOMAIN seqs
      OBVIOUS
  <2>2. \A i \in DOMAIN seqs : seqs[i] \in Seq(X)
      BY PlacesOf
  <2> QED BY <2>1, <2>2 DEF Joined
<1> DEFINE last == seqs[n + 1]
<1> HIDE DEF last
<1>3. /\ more \in Seq(X)
      /\ \A i \in DOMAIN list : i \in DOMAIN more /\ more[i] = list[i]
      /\ \A i \in DOMAIN last : Len(list) + i \in DOMAIN more /\ more[Len(list) + i] = last[i]
      /\ \A m \in DOMAIN more : m \notin DOMAIN list =>
             \E i \in DOMAIN last : m = Len(list) + i
  <2>1. list \in Seq(X) /\ last \in Seq(X) /\ more = list \o last
      BY <1>2 DEF last
  <2>2. Concatenated(X, list \o last, list, last)
    <3> HIDE DEF more
    <3> QED BY <2>1, BothHeld
  <2> HIDE DEF more
  <2>3. Concatenated(X, more, list, last)
      BY <2>1, <2>2
  <2> QED BY <2>3 DEF Concatenated
<1> HIDE DEF more
<1>4. \A i \in 1 .. n + 1 : \A p \in DOMAIN seqs[i] : \E m \in DOMAIN more : more[m] = seqs[i][p]
  <2> SUFFICES ASSUME NEW i \in 1 .. n + 1, NEW p \in DOMAIN seqs[i]
               PROVE  \E m \in DOMAIN more : more[m] = seqs[i][p]
      OBVIOUS
  <2>1. CASE i = n + 1
      BY <1>3, <2>1 DEF last
  <2>2. CASE i \in 1 .. n
    <3>1. PICK m \in DOMAIN list : list[m] = seqs[i][p]
        BY <2>2 DEF Joined
    <3> QED BY <1>3, <3>1
  <2> QED BY <1>1, <2>1, <2>2
<1>5. \A m \in DOMAIN more : \E i \in 1 .. n + 1 : \E p \in DOMAIN seqs[i] : more[m] = seqs[i][p]
  <2> SUFFICES ASSUME NEW m \in DOMAIN more
               PROVE  \E i \in 1 .. n + 1 : \E p \in DOMAIN seqs[i] : more[m] = seqs[i][p]
      OBVIOUS
  <2>1. CASE m \in DOMAIN list
    <3>1. PICK i \in 1 .. n : \E p \in DOMAIN seqs[i] : list[m] = seqs[i][p]
        BY <2>1 DEF Joined
    <3> QED BY <1>1, <1>3, <2>1, <3>1
  <2>2. CASE m \notin DOMAIN list
    <3>1. PICK p \in DOMAIN last : m = Len(list) + p
        BY <1>3, <2>2
    <3>2. more[m] = last[p]
        BY <1>3, <3>1
    <3> QED BY <1>1, <3>1, <3>2 DEF last
  <2> QED BY <2>1, <2>2
<1> QED BY <1>3, <1>4, <1>5 DEF Joined, more

Flattening(seqs, f) ==
    f = [i \in 1 .. Len(seqs) |-> IF i = 1 THEN seqs[i] ELSE f[i - 1] \o seqs[i]]

LEMMA FlatteningExists ==
    ASSUME NEW X, NEW seqs \in Seq(Seq(X))
    PROVE  \E f : Flattening(seqs, f)
<1> DEFINE B == Seq(X)
           base == <<>>
           next == [p \in B \X B |-> p[1] \o p[2]]
           k == Len(seqs)
<1>1. base \in B
    OBVIOUS
<1>0. \A a \in B, x \in B : next[<<a, x>>] = a \o x /\ a \o x \in B
  <2>1. \A a \in B, x \in B : a \o x \in B
      OBVIOUS
  <2>2. \A a \in B, x \in B : next[<<a, x>>] = a \o x
    <3> HIDE DEF B
    <3> QED OBVIOUS
  <2> QED BY <2>1, <2>2
<1>2. \A a \in B : base \o a = a
    OBVIOUS
<1>3. seqs \in Seq(B) /\ k \in Nat
    OBVIOUS
<1>4. \A i \in 1 .. k : seqs[i] \in B
    BY <1>3
<1> HIDE DEF B, base, next, k
<1>5. Closed(B, B, next)
    BY <1>0 DEF Closed
<1>6. PICK g : /\ Nesting(seqs, base, next, g)
               /\ \A s \in SUBSET DOMAIN seqs :
                     s # {} => g[s \ {Max(s)}] \in B /\ seqs[Max(s)] \in B
    BY <1>1, <1>3, <1>5, NestingExists
<1>7. Nested(seqs, B, B, base, next, g)
    BY <1>6 DEF Nesting, Nested
<1>8. PICK sofar : Taking(seqs, B, base, next, sofar)
    BY <1>1, <1>3, <1>5, <1>7, NestingTakes
<1>9. /\ sofar[0] = base
      /\ \A n \in 0 .. k : sofar[n] \in B
      /\ \A n \in 0 .. k - 1 : sofar[n + 1] = next[<<sofar[n], seqs[n + 1]>>]
    BY <1>8 DEF Taking, k
<1> DEFINE f == [i \in 1 .. k |-> sofar[i]]
<1> HIDE DEF k
<1>10. ASSUME NEW i \in 1 .. k
       PROVE  f[i] = IF i = 1 THEN seqs[i] ELSE f[i - 1] \o seqs[i]
  <2>1. i - 1 \in 0 .. k - 1 /\ (i - 1) + 1 = i /\ i - 1 \in 0 .. k
      BY <1>3
  <2>2. sofar[i] = next[<<sofar[i - 1], seqs[i]>>]
      BY <1>9, <2>1
  <2>3. sofar[i] = sofar[i - 1] \o seqs[i]
      BY <1>0, <1>4, <1>9, <2>1, <2>2
  <2>4. CASE i = 1
    <3>1. i - 1 = 0 /\ sofar[i - 1] = base
        BY <1>9, <2>4
    <3>2. sofar[i] = seqs[i]
        BY <1>2, <1>4, <2>3, <3>1
    <3> QED BY <2>4, <3>2
  <2>5. CASE i # 1
    <3>1. i - 1 \in 1 .. k
        BY <1>3, <2>5
    <3> QED BY <2>3, <2>5, <3>1
  <2> QED BY <2>4, <2>5
<1>11. Flattening(seqs, f)
    BY <1>10 DEF Flattening, k
<1> QED BY <1>11

LEMMA FlattenJoins ==
    ASSUME NEW X, NEW seqs \in Seq(Seq(X))
    PROVE  Joined(X, FlattenSeq(seqs), seqs, Len(seqs))
<1> DEFINE k == Len(seqs)
           f == CHOOSE g : Flattening(seqs, g)
<1>1. CASE k = 0
  <2>1. FlattenSeq(seqs) = seqs /\ seqs = <<>> /\ 1 .. 0 = {}
      BY <1>1 DEF FlattenSeq
  <2>2. Joined(X, <<>>, seqs, 0)
      BY <2>1 DEF Joined
  <2> QED BY <1>1, <2>1, <2>2
<1>2. CASE k # 0
  <2>1. FlattenSeq(seqs) = f[k]
      BY <1>2 DEF FlattenSeq, Flattening
  <2>2. Flattening(seqs, f)
      BY FlatteningExists
  <2> HIDE DEF f
  <2>3. /\ k \in Nat \ {0}
        /\ \A i \in 1 .. k : f[i] = IF i = 1 THEN seqs[i] ELSE f[i - 1] \o seqs[i]
    <3>1. f = [i \in 1 .. k |-> IF i = 1 THEN seqs[i] ELSE f[i - 1] \o seqs[i]]
        BY <2>2 DEF Flattening
    <3>2. k \in Nat \ {0}
        BY <1>2
    <3> HIDE DEF k
    <3> QED BY <3>1, <3>2
  <2> DEFINE T == {n \in Nat : n + 1 \in 1 .. k => Joined(X, f[n + 1], seqs, n + 1)}
  <2> HIDE DEF k
  <2>4. 0 \in T
    <3>1. 1 \in 1 .. k /\ f[1] = seqs[1] /\ 0 + 1 = 1
        BY <2>3
    <3>2. seqs[1] \in Seq(X)
        BY <2>3 DEF k
    <3>3. \A i \in 1 .. 1 : i = 1
        OBVIOUS
    <3>4. 1 \in 1 .. 1
        OBVIOUS
    <3>5. Joined(X, seqs[1], seqs, 1)
        BY <3>2, <3>3, <3>4 DEF Joined
    <3> QED BY <3>1, <3>5
  <2>5. ASSUME NEW n \in Nat, n \in T  PROVE n + 1 \in T
    <3> SUFFICES ASSUME (n + 1) + 1 \in 1 .. k
                 PROVE  Joined(X, f[(n + 1) + 1], seqs, (n + 1) + 1)
        OBVIOUS
    <3> DEFINE m == n + 1
    <3>1. m \in 1 .. k /\ m \in 0 .. Len(seqs) - 1 /\ m + 1 \in 1 .. k /\ m + 1 # 1
          /\ (m + 1) - 1 = m
        BY <2>3 DEF k
    <3>2. Joined(X, f[m], seqs, m)
        BY <2>5, <3>1
    <3> HIDE DEF m, T
    <3>3. f[m + 1] = f[m] \o seqs[m + 1]
        BY <2>3, <3>1
    <3>4. Joined(X, f[m + 1], seqs, m + 1)
        BY <3>1, <3>2, <3>3, JoinsNext
    <3> QED BY <3>4 DEF m
  <2>6. Nat \subseteq T
    <3> HIDE DEF T
    <3> QED BY <2>4, <2>5, NumberInduction
  <2>7. k - 1 \in T /\ (k - 1) + 1 = k /\ k \in 1 .. k
      BY <2>3, <2>6
  <2> QED BY <2>1, <2>7 DEF k
<1> QED BY <1>1, <1>2

-----------------------------------------------------------------------------
(* Every rank comes before Unranked. *)
LEMMA SearchIsRanked ==
    /\ SearchTopK \in Nat /\ SearchTopK < Unranked /\ Unranked \in Nat
    /\ FusedTopK \in Nat /\ FusedTopK < Unranked
    /\ SelectedLeafK \in Nat /\ SelectedLeafK < Unranked
<1>1. /\ SearchTopK \in 1 .. Unranked - 1 /\ FusedTopK \in 1 .. Unranked - 1
      /\ SelectedLeafK \in 1 .. Unranked - 1
    BY RanksAssumption
<1> QED BY <1>1 DEF Unranked

(* The best rank a method gave a leaf, if it found it. *)
LEMMA MethodRankIs ==
    ASSUME NEW list \in Seq(Branch), NEW method, NEW leaf
    PROVE  LET r == MethodRank(list, method, leaf)
               places == {k \in BranchesOf(list, leaf) : list[k].method = method}
           IN  /\ r \in Nat \ {0}
               /\ \A i \in places : r <= Position(list[i].hits, leaf)
               /\ \/ r = Unranked /\ places = {}
                  \/ r < Unranked /\ \E i \in places : r = Position(list[i].hits, leaf)
<1> DEFINE r == MethodRank(list, method, leaf)
           places == {k \in BranchesOf(list, leaf) : list[k].method = method}
           at == [i \in places |-> Position(list[i].hits, leaf)]
           T == {at[i] : i \in places} \cup {Unranked}
<1>1. \A i \in places : at[i] \in 1 .. SearchTopK
    BY BranchesFound
<1>2. SearchTopK \in Nat /\ SearchTopK < Unranked /\ Unranked \in Nat
    BY SearchIsRanked
<1>3. r = Min(T)
    BY DEF MethodRank
<1> HIDE DEF places
<1>4. T \in SUBSET Nat /\ T # {}
    BY <1>1, <1>2
<1>5. \E n \in T : \A m \in T : n <= m
  <2> HIDE DEF T
  <2> QED BY <1>4, LeastExists
<1>6. r \in T /\ \A m \in T : r <= m
  <2> HIDE DEF T
  <2> QED BY <1>3, <1>5 DEF Min
<1> HIDE DEF r
<1>7. r \in Nat \ {0}
    BY <1>1, <1>2, <1>6 DEF Unranked
<1>8. \A i \in places : r <= at[i]
    BY <1>6
<1>9. \/ r = Unranked /\ places = {}
      \/ r < Unranked /\ \E i \in places : r = at[i]
  <2>1. CASE \E i \in places : r = at[i]
      BY <1>1, <1>2, <2>1
  <2>2. CASE r = Unranked /\ \A i \in places : r # at[i]
    <3>1. ASSUME NEW i \in places  PROVE FALSE
        BY <1>1, <1>2, <1>8, <2>2
    <3> QED BY <2>2, <3>1
  <2> QED BY <1>6, <2>1, <2>2
<1> QED BY <1>7, <1>8, <1>9 DEF r, places

(* The events of a retrieval: those of the searches, then of the fusion,   *)
(* then of the reranking.                                                  *)
Telling(events, list, fused, leaves, a, b) ==
    /\ events \in Seq(Told)
    /\ a \in Nat /\ b = a + Len(fused) /\ Len(events) = b + Len(leaves)
    /\ \A i \in DOMAIN list : \A p \in DOMAIN list[i].hits : \E m \in 1 .. a :
           events[m] = [stage |-> list[i].method, leaf |-> list[i].hits[p], rank |-> p]
    /\ \A m \in 1 .. a : \E i \in DOMAIN list : \E p \in DOMAIN list[i].hits :
           events[m] = [stage |-> list[i].method, leaf |-> list[i].hits[p], rank |-> p]
    /\ \A n \in 1 .. Len(fused) : events[a + n] = FusionEvents(list, fused)[n]
    /\ \A n \in 1 .. Len(leaves) : events[b + n] = RerankEvents(leaves)[n]

LEMMA EventsTell ==
    ASSUME NEW list, list \in Seq(Branch), NEW fused, fused \in Seq(Hit),
           NEW leaves, leaves \in Seq(Leaves)
    PROVE  \E a, b : Telling(EventsOf(list, fused, leaves), list, fused, leaves, a, b)
<1> DEFINE seqs == [i \in DOMAIN list |-> RetrievalEvents(list[i])]
           fl == FlattenSeq(seqs)
           fe == FusionEvents(list, fused)
           re == RerankEvents(leaves)
           events == EventsOf(list, fused, leaves)
           a == Len(fl)
           b == a + Len(fused)
<1>1. /\ Len(list) \in Nat /\ DOMAIN list = 1 .. Len(list)
      /\ \A i \in DOMAIN list : list[i].method \in Methods /\ list[i].hits \in Rankings(Leaves)
  <2>1. \A i \in DOMAIN list : list[i] \in Branch
      BY PlacesOf
  <2> QED BY <2>1 DEF Branch
<1>2. ASSUME NEW i \in DOMAIN list
      PROVE  /\ RetrievalEvents(list[i]) \in Seq(Told)
             /\ DOMAIN RetrievalEvents(list[i]) = DOMAIN list[i].hits
             /\ \A p \in DOMAIN list[i].hits :
                    RetrievalEvents(list[i])[p]
                        = [stage |-> list[i].method, leaf |-> list[i].hits[p], rank |-> p]
  <2> DEFINE ranking == list[i].hits
             about == list[i].method
             told == RetrievalEvents(list[i])
  <2>1. told = [p \in DOMAIN ranking |-> [stage |-> about, leaf |-> ranking[p], rank |-> p]]
      BY DEF RetrievalEvents
  <2>2. ranking \in Seq(Leaves) /\ about \in Methods
      BY <1>1, RankingIsOnce
  <2> HIDE DEF ranking, about, told
  <2>3. DOMAIN ranking = 1 .. Len(ranking) /\ Len(ranking) \in Nat
      BY <2>2
  <2>4. ASSUME NEW p \in DOMAIN ranking
        PROVE  [stage |-> about, leaf |-> ranking[p], rank |-> p] \in Told
    <3>1. ranking[p] \in Leaves /\ p \in Nat \ {0}
        BY <2>2, <2>3
    <3> QED BY <2>2, <3>1 DEF Told, Finding
  <2>5. told \in [1 .. Len(ranking) -> Told]
      BY <2>1, <2>3, <2>4
  <2>6. told \in Seq(Told)
      BY <2>3, <2>5
  <2> QED BY <2>1, <2>6 DEF told, ranking, about
<1>3. seqs \in Seq(Seq(Told)) /\ Len(seqs) = Len(list)
  <2> DEFINE k == Len(list)
  <2>1. k \in Nat /\ DOMAIN list = 1 .. k
      BY <1>1
  <2> HIDE DEF k
  <2>2. seqs \in [1 .. k -> Seq(Told)]
      BY <1>2, <2>1
  <2> HIDE DEF seqs
  <2>3. seqs \in Seq(Seq(Told)) /\ Len(seqs) = k
      BY <2>1, <2>2
  <2> QED BY <2>3 DEF k
<1>4. \A i \in DOMAIN list : seqs[i] = RetrievalEvents(list[i])
    OBVIOUS
<1>8. events = (fl \o fe) \o re
    BY DEF EventsOf
<1> HIDE DEF seqs
<1>5. Joined(Told, fl, seqs, Len(seqs))
    BY <1>3, FlattenJoins
<1>6. fe \in Seq(Told) /\ Len(fe) = Len(fused)
  <2> DEFINE k == Len(fused)
  <2>1. k \in Nat /\ DOMAIN fused = 1 .. k
      OBVIOUS
  <2>2. ASSUME NEW n \in 1 .. k
        PROVE  [stage |-> "fusion", leaf |-> fused[n].leaf, rank |-> n,
                dense |-> MethodRank(list, "dense", fused[n].leaf),
                sparse |-> MethodRank(list, "sparse", fused[n].leaf)] \in Told
    <3>1. fused[n].leaf \in Leaves /\ n \in Nat \ {0}
      <4>1. fused[n] \in Hit
          OBVIOUS
      <4> QED BY <4>1 DEF Hit
    <3>2. /\ MethodRank(list, "dense", fused[n].leaf) \in Nat \ {0}
          /\ MethodRank(list, "sparse", fused[n].leaf) \in Nat \ {0}
        BY MethodRankIs
    <3> QED BY <3>1, <3>2 DEF Told, Merging
  <2>3. fe \in [1 .. k -> Told]
    <3> HIDE DEF k
    <3> QED BY <2>1, <2>2 DEF FusionEvents
  <2> HIDE DEF fe
  <2> QED BY <2>1, <2>3
<1>7. re \in Seq(Told) /\ Len(re) = Len(leaves)
  <2> DEFINE k == Len(leaves)
  <2>1. k \in Nat /\ DOMAIN leaves = 1 .. k
      OBVIOUS
  <2>2. ASSUME NEW n \in 1 .. k
        PROVE  [stage |-> "rerank", leaf |-> leaves[n], rank |-> n] \in Told
    <3>1. leaves[n] \in Leaves /\ n \in Nat \ {0}
        OBVIOUS
    <3> QED BY <3>1 DEF Told, Judging
  <2>3. re \in [1 .. k -> Told]
    <3> HIDE DEF k
    <3> QED BY <2>1, <2>2 DEF RerankEvents
  <2> HIDE DEF re
  <2> QED BY <2>1, <2>3
<1>9. fl \in Seq(Told) /\ a \in Nat
    BY <1>5 DEF Joined
<1> HIDE DEF fl, fe, re, events
<1> DEFINE part == fl \o fe
           k == Len(fused)
           l == Len(leaves)
<1>10. /\ k \in Nat /\ l \in Nat /\ b = a + k /\ b \in Nat
       /\ DOMAIN fl = 1 .. a /\ DOMAIN fe = 1 .. k /\ DOMAIN re = 1 .. l
    BY <1>6, <1>7, <1>9
<1>11. /\ part \in Seq(Told) /\ DOMAIN part = 1 .. b /\ Len(part) = b
       /\ \A m \in 1 .. a : m \in 1 .. b /\ part[m] = fl[m]
       /\ \A n \in 1 .. k : a + n \in 1 .. b /\ part[a + n] = fe[n]
  <2>1. /\ part \in Seq(Told) /\ DOMAIN part = 1 .. a + Len(fe)
        /\ \A m \in DOMAIN fl : m \in DOMAIN part /\ part[m] = fl[m]
        /\ \A n \in DOMAIN fe : a + n \in DOMAIN part /\ part[a + n] = fe[n]
    <3>1. Concatenated(Told, fl \o fe, fl, fe)
        BY <1>6, <1>9, BothHeld
    <3> QED BY <3>1 DEF Concatenated
  <2> HIDE DEF part, a, b, k
  <2>2. DOMAIN part = 1 .. b
      BY <1>6, <1>10, <2>1 DEF k
  <2>3. Len(part) = b
      BY <1>10, <2>1, <2>2
  <2> QED BY <1>10, <2>1, <2>2, <2>3
<1>12. /\ events \in Seq(Told) /\ Len(events) = b + l
       /\ \A m \in 1 .. b : events[m] = part[m]
       /\ \A n \in 1 .. l : events[b + n] = re[n]
  <2> DEFINE c == Len(part)
  <2>0. events = part \o re
      BY <1>8
  <2>1. /\ events \in Seq(Told) /\ DOMAIN events = 1 .. c + Len(re)
        /\ \A m \in DOMAIN part : m \in DOMAIN events /\ events[m] = part[m]
        /\ \A n \in DOMAIN re : c + n \in DOMAIN events /\ events[c + n] = re[n]
    <3> HIDE DEF part
    <3>1. Concatenated(Told, part \o re, part, re)
        BY <1>7, <1>11, BothHeld
    <3>2. Concatenated(Told, events, part, re)
        BY <2>0, <3>1
    <3> QED BY <3>2 DEF Concatenated
  <2>2. c = b /\ Len(re) = l
      BY <1>7, <1>11
  <2> HIDE DEF a, b, c, l
  <2>3. Len(events) = b + l
      BY <1>10, <2>1, <2>2
  <2> QED BY <1>10, <1>11, <2>1, <2>2, <2>3
<1> HIDE DEF part, a, b, k, l
<1>13. \A m \in 1 .. a : events[m] = fl[m]
    BY <1>11, <1>12
<1>14. \A n \in 1 .. k : events[a + n] = fe[n]
    BY <1>11, <1>12
<1>15. \A i \in DOMAIN list : \A p \in DOMAIN list[i].hits : \E m \in 1 .. a :
           events[m] = [stage |-> list[i].method, leaf |-> list[i].hits[p], rank |-> p]
  <2> SUFFICES ASSUME NEW i \in DOMAIN list, NEW p \in DOMAIN list[i].hits
               PROVE  \E m \in 1 .. a : events[m]
                          = [stage |-> list[i].method, leaf |-> list[i].hits[p], rank |-> p]
      OBVIOUS
  <2>1. i \in 1 .. Len(seqs) /\ p \in DOMAIN seqs[i]
      BY <1>1, <1>2, <1>3, <1>4
  <2>2. PICK m \in DOMAIN fl : fl[m] = seqs[i][p]
      BY <1>5, <2>1 DEF Joined
  <2>3. m \in 1 .. a /\ events[m] = fl[m]
      BY <1>10, <1>13
  <2>4. seqs[i][p] = [stage |-> list[i].method, leaf |-> list[i].hits[p], rank |-> p]
      BY <1>2, <1>4
  <2> QED BY <2>2, <2>3, <2>4
<1>16. \A m \in 1 .. a : \E i \in DOMAIN list : \E p \in DOMAIN list[i].hits :
           events[m] = [stage |-> list[i].method, leaf |-> list[i].hits[p], rank |-> p]
  <2> SUFFICES ASSUME NEW m \in 1 .. a
               PROVE  \E i \in DOMAIN list : \E p \in DOMAIN list[i].hits : events[m]
                          = [stage |-> list[i].method, leaf |-> list[i].hits[p], rank |-> p]
      OBVIOUS
  <2>1. m \in DOMAIN fl
      BY <1>10
  <2>2. PICK i \in 1 .. Len(seqs) : \E p \in DOMAIN seqs[i] : fl[m] = seqs[i][p]
      BY <1>5, <2>1 DEF Joined
  <2>3. PICK p \in DOMAIN seqs[i] : fl[m] = seqs[i][p]
      BY <2>2
  <2>4. i \in DOMAIN list
      BY <1>1, <1>3
  <2>5. p \in DOMAIN list[i].hits
        /\ seqs[i][p] = [stage |-> list[i].method, leaf |-> list[i].hits[p], rank |-> p]
      BY <1>2, <1>4, <2>4
  <2>6. events[m] = [stage |-> list[i].method, leaf |-> list[i].hits[p], rank |-> p]
      BY <1>13, <2>3, <2>5
  <2> QED BY <2>4, <2>5, <2>6
<1>17. /\ \A n \in 1 .. Len(fused) : events[a + n] = FusionEvents(list, fused)[n]
       /\ \A n \in 1 .. Len(leaves) : events[b + n] = RerankEvents(leaves)[n]
    BY <1>12, <1>14 DEF k, l, fe, re
<1>18. Telling(events, list, fused, leaves, a, b)
    BY <1>9, <1>10, <1>12, <1>15, <1>16, <1>17 DEF Telling, k, l
<1> QED BY <1>18 DEF events

LEMMA PositionIsPlace ==
    ASSUME NEW ranking, ranking \in Rankings(Leaves), NEW p, p \in DOMAIN ranking
    PROVE  /\ Position(ranking, ranking[p]) = p /\ ranking[p] \in ToSet(ranking)
           /\ ranking[p] \in Leaves
<1>1. IsInjective(ranking)
    BY DEF Rankings
<1>2. ranking[p] \in ToSet(ranking)
    BY DEF ToSet
<1>3. \A i \in DOMAIN ranking : ranking[i] = ranking[p] => i = p
    BY <1>1 DEF IsInjective
<1>4. Position(ranking, ranking[p]) = p
    BY <1>3 DEF Position
<1>5. ranking \in Seq(Leaves)
    BY RankingIsOnce
<1> QED BY <1>2, <1>4, <1>5

(* Every event is of a search, of the fusion or of the reranking. *)
Placed(events, fused, leaves, a, b) ==
    \A m \in 1 .. Len(events) : \/ m \in 1 .. a
                                \/ \E n \in DOMAIN fused : m = a + n
                                \/ \E n \in DOMAIN leaves : m = b + n

(* What the events at each place are. *)
Measured(events, fused, leaves, a, b) ==
    /\ a \in Nat /\ b \in Nat /\ a <= b /\ b <= Len(events) /\ Len(events) \in Nat
    /\ b = a + Len(fused) /\ Len(events) = b + Len(leaves)

SearchTold(events, a) == \A m \in 1 .. a : events[m].stage \in Methods

FusionTold(events, list, fused, a, b) ==
    \A n \in DOMAIN fused :
        /\ a + n \in a + 1 .. b
        /\ events[a + n].stage = "fusion" /\ events[a + n].leaf = fused[n].leaf
        /\ events[a + n].rank = n
        /\ events[a + n].dense = MethodRank(list, "dense", fused[n].leaf)
        /\ events[a + n].sparse = MethodRank(list, "sparse", fused[n].leaf)

RerankTold(events, leaves, b) ==
    \A n \in DOMAIN leaves :
        /\ b + n \in b + 1 .. Len(events)
        /\ events[b + n].stage = "rerank" /\ events[b + n].leaf = leaves[n]
        /\ events[b + n].rank = n

LEMMA TellingIs ==
    ASSUME NEW events, NEW list, list \in Seq(Branch), NEW fused, fused \in Seq(Hit),
           NEW leaves, leaves \in Seq(Leaves),
           NEW a, NEW b, Telling(events, list, fused, leaves, a, b)
    PROVE  /\ Measured(events, fused, leaves, a, b) /\ Placed(events, fused, leaves, a, b)
           /\ SearchTold(events, a) /\ FusionTold(events, list, fused, a, b)
           /\ RerankTold(events, leaves, b)
<1> DEFINE k == Len(fused)
           l == Len(leaves)
<1>1. /\ k \in Nat /\ DOMAIN fused = 1 .. k /\ l \in Nat /\ DOMAIN leaves = 1 .. l
    OBVIOUS
<1>2. /\ a \in Nat /\ b = a + k /\ Len(events) = b + l
    BY DEF Telling
<1>3. \A m \in 1 .. a : events[m].stage \in Methods
  <2> SUFFICES ASSUME NEW m \in 1 .. a  PROVE events[m].stage \in Methods
      OBVIOUS
  <2>1. PICK i \in DOMAIN list : \E p \in DOMAIN list[i].hits : events[m]
            = [stage |-> list[i].method, leaf |-> list[i].hits[p], rank |-> p]
      BY DEF Telling
  <2>2. list[i] \in Branch
      BY PlacesOf
  <2>3. list[i].method \in Methods
      BY <2>2 DEF Branch
  <2> QED BY <2>1, <2>3
<1>4. \A n \in 1 .. k : events[a + n] = FusionEvents(list, fused)[n]
    BY DEF Telling
<1>5. \A n \in 1 .. l : events[b + n] = RerankEvents(leaves)[n]
    BY DEF Telling
<1>6. \A n \in DOMAIN fused : FusionEvents(list, fused)[n]
          = [stage |-> "fusion", leaf |-> fused[n].leaf, rank |-> n,
             dense |-> MethodRank(list, "dense", fused[n].leaf),
             sparse |-> MethodRank(list, "sparse", fused[n].leaf)]
    BY DEF FusionEvents
<1>7. \A n \in DOMAIN leaves : RerankEvents(leaves)[n]
          = [stage |-> "rerank", leaf |-> leaves[n], rank |-> n]
    BY DEF RerankEvents
<1> HIDE DEF k, l
<1>8. \A n \in DOMAIN fused : a + n \in a + 1 .. b
    BY <1>1, <1>2
<1>9. \A n \in DOMAIN leaves : b + n \in b + 1 .. Len(events)
    BY <1>1, <1>2
<1>10. ASSUME NEW m \in 1 .. Len(events)
       PROVE  \/ m \in 1 .. a
              \/ \E n \in DOMAIN fused : m = a + n
              \/ \E n \in DOMAIN leaves : m = b + n
  <2>1. CASE m <= a
      BY <1>2, <2>1
  <2>2. CASE a < m /\ m <= b
    <3>1. m - a \in DOMAIN fused /\ m = a + (m - a)
        BY <1>1, <1>2, <2>2
    <3> QED BY <3>1
  <2>3. CASE b < m
    <3>1. m - b \in DOMAIN leaves /\ m = b + (m - b)
        BY <1>1, <1>2, <2>3
    <3> QED BY <3>1
  <2> QED BY <1>1, <1>2, <2>1, <2>2, <2>3
<1>11. a <= b /\ b <= Len(events) /\ Len(events) \in Nat /\ b \in Nat
    BY <1>1, <1>2
<1>12. \A n \in DOMAIN fused :
          /\ events[a + n].stage = "fusion" /\ events[a + n].leaf = fused[n].leaf
          /\ events[a + n].rank = n
          /\ events[a + n].dense = MethodRank(list, "dense", fused[n].leaf)
          /\ events[a + n].sparse = MethodRank(list, "sparse", fused[n].leaf)
  <2> SUFFICES ASSUME NEW n \in DOMAIN fused
               PROVE  /\ events[a + n].stage = "fusion" /\ events[a + n].leaf = fused[n].leaf
                      /\ events[a + n].rank = n
                      /\ events[a + n].dense = MethodRank(list, "dense", fused[n].leaf)
                      /\ events[a + n].sparse = MethodRank(list, "sparse", fused[n].leaf)
      OBVIOUS
  <2>1. events[a + n] = [stage |-> "fusion", leaf |-> fused[n].leaf, rank |-> n,
                         dense |-> MethodRank(list, "dense", fused[n].leaf),
                         sparse |-> MethodRank(list, "sparse", fused[n].leaf)]
      BY <1>1, <1>4, <1>6
  <2> QED BY <2>1
<1>13. \A n \in DOMAIN leaves :
          /\ events[b + n].stage = "rerank" /\ events[b + n].leaf = leaves[n]
          /\ events[b + n].rank = n
  <2> SUFFICES ASSUME NEW n \in DOMAIN leaves
               PROVE  /\ events[b + n].stage = "rerank" /\ events[b + n].leaf = leaves[n]
                      /\ events[b + n].rank = n
      OBVIOUS
  <2>1. events[b + n] = [stage |-> "rerank", leaf |-> leaves[n], rank |-> n]
      BY <1>1, <1>5, <1>7
  <2> QED BY <2>1
<1> QED BY <1>2, <1>3, <1>8, <1>9, <1>10, <1>11, <1>12, <1>13 
   DEF Measured, SearchTold, FusionTold, RerankTold, Placed, k, l

(* The searches' events tell the best rank that each method gave a leaf. *)
LEMMA SearchesRepeat ==
    ASSUME NEW events, NEW list, list \in Seq(Branch), NEW fused, fused \in Seq(Hit),
           NEW leaves, leaves \in Seq(Leaves),
           NEW a, NEW b, Telling(events, list, fused, leaves, a, b),
           NEW n, n \in Nat, a <= n, n <= Len(events), NEW leaf, NEW about, about \in Methods
    PROVE  Repeats(MethodRank(list, about, leaf), events, n, leaf, about)
<1> DEFINE r == MethodRank(list, about, leaf)
           places == {k \in BranchesOf(list, leaf) : list[k].method = about}
<1>1. /\ r \in Nat \ {0}
      /\ \A i \in places : r <= Position(list[i].hits, leaf)
      /\ \/ r = Unranked /\ places = {}
         \/ r < Unranked /\ \E i \in places : r = Position(list[i].hits, leaf)
    BY MethodRankIs
<1>2. \A i \in DOMAIN list : list[i].hits \in Rankings(Leaves)
  <2>1. \A i \in DOMAIN list : list[i] \in Branch
      BY PlacesOf
  <2> QED BY <2>1 DEF Branch
<1>3. /\ a \in Nat /\ Len(events) \in Nat
      /\ \A m \in 1 .. Len(events) : \/ m \in 1 .. a
                                     \/ events[m].stage = "fusion"
                                     \/ events[m].stage = "rerank"
  <2>1. /\ Measured(events, fused, leaves, a, b) /\ Placed(events, fused, leaves, a, b)
        /\ FusionTold(events, list, fused, a, b) /\ RerankTold(events, leaves, b)
      BY TellingIs
  <2>2. \A m \in DOMAIN fused : events[a + m].stage = "fusion"
      BY <2>1 DEF FusionTold
  <2>3. \A m \in DOMAIN leaves : events[b + m].stage = "rerank"
      BY <2>1 DEF RerankTold
  <2> QED BY <2>1, <2>2, <2>3 DEF Measured, Placed
<1>4. ASSUME NEW m \in 1 .. n, Tells(events[m], leaf, about)
      PROVE  \E i \in places : events[m].rank = Position(list[i].hits, leaf)
  <2>1. m \in 1 .. Len(events) /\ events[m].stage = about /\ events[m].leaf = leaf
      BY <1>3, <1>4 DEF Tells
  <2>2. m \in 1 .. a
      BY <1>3, <2>1 DEF Methods
  <2>3. PICK i \in DOMAIN list : \E p \in DOMAIN list[i].hits : events[m]
            = [stage |-> list[i].method, leaf |-> list[i].hits[p], rank |-> p]
      BY <2>2 DEF Telling
  <2>4. PICK p \in DOMAIN list[i].hits : events[m]
            = [stage |-> list[i].method, leaf |-> list[i].hits[p], rank |-> p]
      BY <2>3
  <2>5. list[i].method = about /\ list[i].hits[p] = leaf /\ events[m].rank = p
      BY <2>1, <2>4
  <2>6. Position(list[i].hits, leaf) = p /\ leaf \in ToSet(list[i].hits)
      BY <1>2, <2>5, PositionIsPlace
  <2>7. i \in places
      BY <2>5, <2>6 DEF BranchesOf
  <2> QED BY <2>5, <2>6, <2>7
<1>5. ASSUME NEW i \in places
      PROVE  \E m \in 1 .. n : /\ Tells(events[m], leaf, about)
                               /\ events[m].rank = Position(list[i].hits, leaf)
  <2>1. i \in DOMAIN list /\ leaf \in ToSet(list[i].hits) /\ list[i].method = about
      BY DEF BranchesOf
  <2>2. PICK p \in DOMAIN list[i].hits : list[i].hits[p] = leaf
      BY <2>1 DEF ToSet
  <2>3. Position(list[i].hits, leaf) = p
      BY <1>2, <2>1, <2>2, PositionIsPlace
  <2>4. PICK m \in 1 .. a : events[m]
            = [stage |-> list[i].method, leaf |-> list[i].hits[p], rank |-> p]
      BY <2>1 DEF Telling
  <2>5. m \in 1 .. n
      BY <1>3
  <2> QED BY <2>1, <2>2, <2>3, <2>4, <2>5 DEF Tells
<1> HIDE DEF r, places
<1>6. CASE r = Unranked /\ places = {}
    BY <1>4, <1>6 DEF Repeats, r
<1>7. CASE r < Unranked /\ \E i \in places : r = Position(list[i].hits, leaf)
  <2>1. PICK i \in places : r = Position(list[i].hits, leaf)
      BY <1>7
  <2>2. Noticed(r, events, n, leaf, about)
      BY <1>5, <2>1 DEF Noticed
  <2>3. Lowest(r, events, n, leaf, about)
      BY <1>1, <1>4, <2>2 DEF Lowest
  <2> QED BY <1>1, <1>7, <2>3 DEF Repeats, r, None
<1> QED BY <1>1, <1>6, <1>7

(* The fusion repeats what the searches told. *)
LEMMA TellingAgrees ==
    ASSUME NEW events, NEW list, list \in Seq(Branch), NEW fused, fused \in Seq(Hit),
           NEW leaves, leaves \in Seq(Leaves),
           NEW a, NEW b, Telling(events, list, fused, leaves, a, b)
    PROVE  \A n \in 0 .. Len(events) - 1 : Consistent(events, n)
<1>1. /\ Measured(events, fused, leaves, a, b) /\ Placed(events, fused, leaves, a, b)
      /\ SearchTold(events, a) /\ FusionTold(events, list, fused, a, b)
      /\ RerankTold(events, leaves, b)
    BY TellingIs
<1> SUFFICES ASSUME NEW n \in 0 .. Len(events) - 1, events[n + 1].stage = "fusion"
             PROVE  /\ Repeats(events[n + 1].dense, events, n, events[n + 1].leaf, "dense")
                    /\ Repeats(events[n + 1].sparse, events, n, events[n + 1].leaf, "sparse")
    BY DEF Consistent
<1>2. a \in Nat /\ n + 1 \in 1 .. Len(events) /\ n \in Nat /\ n <= Len(events)
    BY <1>1 DEF Measured
<1>3. PICK k \in DOMAIN fused : n + 1 = a + k
  <2>1. n + 1 \notin 1 .. a
      BY <1>1 DEF SearchTold, Methods
  <2>2. \A m \in DOMAIN leaves : n + 1 # b + m
      BY <1>1 DEF RerankTold
  <2> QED BY <1>1, <1>2, <2>1, <2>2 DEF Placed
<1>4. /\ events[n + 1].leaf = fused[k].leaf
      /\ events[n + 1].dense = MethodRank(list, "dense", fused[k].leaf)
      /\ events[n + 1].sparse = MethodRank(list, "sparse", fused[k].leaf)
    BY <1>1, <1>3, Zenon DEF FusionTold
<1>5. a <= n
  <2>1. k \in Nat \ {0}
      OBVIOUS
  <2> QED BY <1>2, <1>3, <2>1
<1>6. Repeats(MethodRank(list, "dense", fused[k].leaf), events, n, fused[k].leaf, "dense")
    BY <1>2, <1>5, SearchesRepeat DEF Methods
<1>7. Repeats(MethodRank(list, "sparse", fused[k].leaf), events, n, fused[k].leaf, "sparse")
    BY <1>2, <1>5, SearchesRepeat DEF Methods
<1> QED BY <1>4, <1>6, <1>7

(* What a funnel keeps: fused hits that were found, and of these some      *)
(* reranked leaves.                                                        *)
Funnel(list, fused, leaves) ==
    /\ list \in Seq(Branch) /\ fused \in Seq(Hit) /\ leaves \in Seq(Leaves)
    /\ Distinct(fused) /\ Len(fused) <= FusedTopK
    /\ IsInjective(leaves) /\ Len(leaves) <= SelectedLeafK
    /\ \A n \in DOMAIN fused : fused[n].leaf \in FoundBy(list)
    /\ \A n \in DOMAIN leaves : \E i \in DOMAIN fused : leaves[n] = fused[i].leaf

(* A rank is the place of the leaf, or there is none. *)
PlaceOf(rank, leaf, all) ==
    \/ rank = None /\ \A n \in DOMAIN all : all[n] # leaf
    \/ rank \in DOMAIN all /\ all[rank] = leaf

LeavesAt(hitsOf) == [n \in DOMAIN hitsOf |-> hitsOf[n].leaf]

(* What a row tells of its leaf is true. *)
RowTells(row, list, fused, leaves) ==
    /\ row.leaf \in FoundBy(list)
    /\ OrElse(row.dense, Unranked) = MethodRank(list, "dense", row.leaf)
    /\ OrElse(row.sparse, Unranked) = MethodRank(list, "sparse", row.leaf)
    /\ PlaceOf(row.fusion, row.leaf, LeavesAt(fused))
    /\ PlaceOf(row.rerank, row.leaf, leaves)

RowsTell(rows, list, fused, leaves) ==
    /\ rows \in Seq(Row) /\ Distinct(rows)
    /\ \A leaf \in FoundBy(list) : \E j \in DOMAIN rows : rows[j].leaf = leaf
    /\ \A j \in DOMAIN rows : RowTells(rows[j], list, fused, leaves)

LEMMA BestRankIsTold ==
    ASSUME NEW events \in Seq(Told), NEW leaf, NEW about, NEW rank \in Nat,
           Lowest(rank, events, Len(events), leaf, about),
           NEW best \in Nat \ {0}, Repeats(best, events, Len(events), leaf, about)
    PROVE  OrElse(rank, Unranked) = best
<1> DEFINE n == Len(events)
<1>1. n \in 0 .. Len(events)
    OBVIOUS
<1>2. CASE best = Unranked /\ \A m \in 1 .. n : ~Tells(events[m], leaf, about)
  <2>1. rank = None
      BY <1>2 DEF Lowest, Noticed
  <2> QED BY <1>2, <2>1 DEF OrElse
<1>3. CASE best < Unranked /\ best # None /\ Lowest(best, events, n, leaf, about)
  <2> HIDE DEF n
  <2>1. rank = best
      BY <1>1, <1>3, LowestIsOne DEF n
  <2>2. Unranked \in Nat
      BY SearchIsRanked
  <2>3. best # Unranked
      BY <1>3, <2>2
  <2> QED BY <1>3, <2>1, <2>3 DEF OrElse
<1> QED BY <1>2, <1>3 DEF Repeats

(* The rows tell the funnel. *)
LEMMA RowsTellFunnel ==
    ASSUME NEW list, NEW fused, NEW leaves, Funnel(list, fused, leaves)
    PROVE  RowsTell(RowsOf(EventsOf(list, fused, leaves)), list, fused, leaves)
<1> DEFINE events == EventsOf(list, fused, leaves)
           rows == RowsOf(events)
           n == Len(events)
<1>1. list \in Seq(Branch) /\ fused \in Seq(Hit) /\ leaves \in Seq(Leaves)
    BY DEF Funnel
<1>2. PICK a, b : Telling(events, list, fused, leaves, a, b)
    BY <1>1, EventsTell
<1> HIDE DEF events
<1>3. events \in Seq(Told)
    BY <1>2 DEF Telling
<1>4. \A k \in 0 .. Len(events) - 1 : Consistent(events, k)
    BY <1>1, <1>2, TellingAgrees
<1>5. TellsRows(rows, events, n)
    BY <1>3, <1>4, RowsTellEvents
<1>6. /\ Measured(events, fused, leaves, a, b) /\ Placed(events, fused, leaves, a, b)
      /\ SearchTold(events, a) /\ FusionTold(events, list, fused, a, b)
      /\ RerankTold(events, leaves, b)
    BY <1>1, <1>2, TellingIs
<1>7. /\ n \in Nat /\ a \in Nat /\ b \in Nat /\ a <= n /\ b <= n /\ a <= b
    BY <1>6 DEF Measured
<1> HIDE DEF rows, n
<1>8. \A leaf, about : about \in Methods => Repeats(MethodRank(list, about, leaf), events, n, leaf, about)
    BY <1>1, <1>2, <1>7, SearchesRepeat DEF n
<1>9. \A leaf \in FoundBy(list) : \E j \in DOMAIN rows : rows[j].leaf = leaf
  <2> SUFFICES ASSUME NEW leaf \in FoundBy(list)
               PROVE  \E j \in DOMAIN rows : rows[j].leaf = leaf
      OBVIOUS
  <2>1. PICK i \in DOMAIN list : leaf \in ToSet(list[i].hits)
      BY DEF FoundBy
  <2>2. PICK p \in DOMAIN list[i].hits : list[i].hits[p] = leaf
      BY <2>1 DEF ToSet
  <2>3. PICK m \in 1 .. a : events[m]
            = [stage |-> list[i].method, leaf |-> list[i].hits[p], rank |-> p]
      BY <1>2 DEF Telling
  <2>4. m \in 1 .. n /\ events[m].leaf = leaf
      BY <1>7, <2>2, <2>3
  <2> QED BY <1>5, <2>4 DEF TellsRows
<1>10. ASSUME NEW j \in DOMAIN rows  PROVE RowTells(rows[j], list, fused, leaves)
  <2> DEFINE row == rows[j]
             leaf == rows[j].leaf
  <2>1. row \in Row /\ Knows(row, events, n)
    <3>1. rows \in Seq(Row) /\ \A k \in DOMAIN rows : Knows(rows[k], events, n)
        BY <1>5 DEF TellsRows
    <3> QED BY <3>1, PlacesOf
  <2>2. /\ row.dense \in Nat /\ row.sparse \in Nat
        /\ Lowest(row.dense, events, n, leaf, "dense")
        /\ Lowest(row.sparse, events, n, leaf, "sparse")
        /\ Noticed(row.fusion, events, n, leaf, "fusion")
        /\ Noticed(row.rerank, events, n, leaf, "rerank")
      BY <2>1 DEF Knows, Row
  <2>3. PICK m \in 1 .. n : events[m].leaf = leaf
      BY <1>5 DEF TellsRows
  <2> HIDE DEF row, leaf
  <2>4. leaf \in FoundBy(list)
    <3>1. CASE m \in 1 .. a
      <4>1. PICK i \in DOMAIN list : \E p \in DOMAIN list[i].hits : events[m]
                = [stage |-> list[i].method, leaf |-> list[i].hits[p], rank |-> p]
          BY <1>2, <3>1 DEF Telling
      <4>2. leaf \in ToSet(list[i].hits)
          BY <2>3, <4>1 DEF ToSet
      <4> QED BY <4>2 DEF FoundBy
    <3>2. CASE \E k \in DOMAIN fused : m = a + k
        BY <1>6, <2>3, <3>2 DEF FusionTold, Funnel
    <3>3. CASE \E k \in DOMAIN leaves : m = b + k
        BY <1>6, <2>3, <3>3 DEF RerankTold, Funnel
    <3> QED BY <1>6, <3>1, <3>2, <3>3 DEF Placed, n
  <2>5. OrElse(row.dense, Unranked) = MethodRank(list, "dense", leaf)
    <3>1. MethodRank(list, "dense", leaf) \in Nat \ {0}
        BY <1>1, MethodRankIs
    <3>2. Repeats(MethodRank(list, "dense", leaf), events, n, leaf, "dense")
        BY <1>8 DEF Methods
    <3> QED BY <1>3, <2>2, <3>1, <3>2, BestRankIsTold DEF n
  <2>6. OrElse(row.sparse, Unranked) = MethodRank(list, "sparse", leaf)
    <3>1. MethodRank(list, "sparse", leaf) \in Nat \ {0}
        BY <1>1, MethodRankIs
    <3>2. Repeats(MethodRank(list, "sparse", leaf), events, n, leaf, "sparse")
        BY <1>8 DEF Methods
    <3> QED BY <1>3, <2>2, <3>1, <3>2, BestRankIsTold DEF n
  <2>7. ASSUME NEW k \in 1 .. n, events[k].stage = "fusion"
        PROVE  \E i \in DOMAIN fused : k = a + i
    <3>1. k \notin 1 .. a
        BY <1>6, <2>7 DEF SearchTold, Methods
    <3>2. \A i \in DOMAIN leaves : k # b + i
        BY <1>6, <2>7 DEF RerankTold
    <3> QED BY <1>6, <3>1, <3>2 DEF Placed, n
  <2>8. ASSUME NEW k \in 1 .. n, events[k].stage = "rerank"
        PROVE  \E i \in DOMAIN leaves : k = b + i
    <3>1. k \notin 1 .. a
        BY <1>6, <2>8 DEF SearchTold, Methods
    <3>2. \A i \in DOMAIN fused : k # a + i
        BY <1>6, <2>8 DEF FusionTold
    <3> QED BY <1>6, <3>1, <3>2 DEF Placed, n
  <2>9. \A i \in DOMAIN fused : a + i \in 1 .. n
    <3>1. \A i \in DOMAIN fused : a + i \in a + 1 .. b
        BY <1>6 DEF FusionTold
    <3> QED BY <1>7, <3>1
  <2>10. \A i \in DOMAIN leaves : b + i \in 1 .. n
    <3>1. \A i \in DOMAIN leaves : b + i \in b + 1 .. n
        BY <1>6 DEF RerankTold, n
    <3> QED BY <1>7, <3>1
  <2>11. PlaceOf(row.fusion, leaf, LeavesAt(fused))
    <3>1. CASE row.fusion = None /\ \A k \in 1 .. n : ~Tells(events[k], leaf, "fusion")
      <4>1. \A i \in DOMAIN fused : fused[i].leaf # leaf
          BY <1>6, <2>9, <3>1 DEF FusionTold, Tells
      <4> QED BY <3>1, <4>1 DEF PlaceOf, LeavesAt
    <3>2. CASE \E k \in 1 .. n : Tells(events[k], leaf, "fusion") /\ row.fusion = events[k].rank
      <4>1. PICK k \in 1 .. n : Tells(events[k], leaf, "fusion") /\ row.fusion = events[k].rank
          BY <3>2
      <4>2. PICK i \in DOMAIN fused : k = a + i
          BY <2>7, <4>1 DEF Tells
      <4>3. row.fusion = i /\ fused[i].leaf = leaf
          BY <1>6, <4>1, <4>2 DEF FusionTold, Tells
      <4> QED BY <4>3 DEF PlaceOf, LeavesAt
    <3> QED BY <2>2, <3>1, <3>2 DEF Noticed
  <2>12. PlaceOf(row.rerank, leaf, leaves)
    <3>1. CASE row.rerank = None /\ \A k \in 1 .. n : ~Tells(events[k], leaf, "rerank")
      <4>1. \A i \in DOMAIN leaves : leaves[i] # leaf
          BY <1>6, <2>10, <3>1 DEF RerankTold, Tells
      <4> QED BY <3>1, <4>1 DEF PlaceOf
    <3>2. CASE \E k \in 1 .. n : Tells(events[k], leaf, "rerank") /\ row.rerank = events[k].rank
      <4>1. PICK k \in 1 .. n : Tells(events[k], leaf, "rerank") /\ row.rerank = events[k].rank
          BY <3>2
      <4>2. PICK i \in DOMAIN leaves : k = b + i
          BY <2>8, <4>1 DEF Tells
      <4>3. row.rerank = i /\ leaves[i] = leaf
          BY <1>6, <4>1, <4>2 DEF RerankTold, Tells
      <4> QED BY <4>3 DEF PlaceOf
    <3> QED BY <2>2, <3>1, <3>2 DEF Noticed
  <2> QED BY <2>4, <2>5, <2>6, <2>11, <2>12 DEF RowTells, row, leaf
<1> QED BY <1>5, <1>9, <1>10 DEF TellsRows, RowsTell, rows, events

-----------------------------------------------------------------------------
(* What the rows are ordered by. *)
RankIn(row) == OrElse(row.rerank, Unranked)
FusionIn(row) == OrElse(row.fusion, Unranked)

(* The order of the ranking table. *)
Arranged(rows, order) ==
    /\ order \in [1 .. Len(rows) -> DOMAIN rows]
    /\ \A j \in DOMAIN rows : \E n \in 1 .. Len(rows) : order[n] = j
    /\ \A m, n \in 1 .. Len(rows) : m < n <=> Earlier(rows, order[m], order[n])

LEMMA RowsInOrder ==
    ASSUME NEW rows \in Seq(Row)
    PROVE  \E order : /\ InOrder(DOMAIN rows, LAMBDA i, j : Earlier(rows, i, j)) = order
                      /\ Arranged(rows, order)
<1> DEFINE S == DOMAIN rows
           R == {p \in S \X S : Earlier(rows, p[1], p[2])}
           k == Len(rows)
           order == Listing(S, R)
<1>1. /\ k \in Nat /\ S = 1 .. k /\ S \subseteq Nat /\ IsFiniteSet(S)
      /\ \A i \in S : rows[i] \in Row
    BY PlacesOf
<1>2. Cardinality(S) = k
    BY <1>1, FS_Interval
<1>3. \A i \in S : RankIn(rows[i]) \in Nat /\ FusionIn(rows[i]) \in Nat
    BY <1>1, SearchIsRanked DEF RankIn, FusionIn, OrElse, Row
<1>4. \A i, j \in S : Earlier(rows, i, j) <=>
          \/ RankIn(rows[i]) < RankIn(rows[j])
          \/ /\ RankIn(rows[i]) = RankIn(rows[j])
             /\ \/ FusionIn(rows[i]) < FusionIn(rows[j])
                \/ FusionIn(rows[i]) = FusionIn(rows[j]) /\ i < j
    BY DEF Earlier, RankIn, FusionIn
<1>5. \A x, y \in S : <<x, y>> \in R <=> Earlier(rows, x, y)
    OBVIOUS
<1> HIDE DEF S, R, k
<1>6. Ordering(S, R)
  <2>1. \A x \in S : ~Earlier(rows, x, x)
      BY <1>1, <1>3, <1>4
  <2>2. \A x, y \in S : x # y => Earlier(rows, x, y) \/ Earlier(rows, y, x)
      BY <1>1, <1>3, <1>4
  <2>3. ASSUME NEW x \in S, NEW y \in S, NEW z \in S,
               Earlier(rows, x, y), Earlier(rows, y, z)
        PROVE  Earlier(rows, x, z)
    <3> DEFINE a == RankIn(rows[x])
               b == RankIn(rows[y])
               c == RankIn(rows[z])
               e == FusionIn(rows[x])
               f == FusionIn(rows[y])
               g == FusionIn(rows[z])
    <3>1. /\ a \in Nat /\ b \in Nat /\ c \in Nat /\ e \in Nat /\ f \in Nat /\ g \in Nat
          /\ x \in Nat /\ y \in Nat /\ z \in Nat
        BY <1>1, <1>3
    <3>2. a < b \/ (a = b /\ (e < f \/ (e = f /\ x < y)))
        BY <1>4, <2>3
    <3>3. b < c \/ (b = c /\ (f < g \/ (f = g /\ y < z)))
        BY <1>4, <2>3
    <3>4. a < c \/ (a = c /\ (e < g \/ (e = g /\ x < z))) => Earlier(rows, x, z)
        BY <1>4
    <3> HIDE DEF a, b, c, e, f, g
    <3> QED BY <3>1, <3>2, <3>3, <3>4
  <2> QED BY <1>5, <2>1, <2>2, <2>3 DEF Ordering
<1>7. /\ order \in [1 .. k -> S]
      /\ \A x \in S : \E n \in 1 .. k : order[n] = x
      /\ \A m, n \in 1 .. k : m < n <=> <<order[m], order[n]>> \in R
  <2>0. IsFiniteSet(S)
      BY <1>1
  <2>1. /\ order \in [1 .. Cardinality(S) -> S]
        /\ \A x \in S : \E n \in 1 .. Cardinality(S) : order[n] = x
        /\ \A m, n \in 1 .. Cardinality(S) : m < n <=> <<order[m], order[n]>> \in R
      BY <1>6, <2>0, ListingInOrder
  <2> HIDE DEF order
  <2> QED BY <1>2, <2>1
<1>8. \A x \in S : Lower(S, R, x) = {y \in S : Earlier(rows, y, x)}
    BY <1>5 DEF Lower
<1>9. InOrder(S, LAMBDA i, j : Earlier(rows, i, j)) = order
  <2>1. InOrder(S, LAMBDA i, j : Earlier(rows, i, j))
            = [n \in 1 .. Cardinality(S) |->
                  CHOOSE x \in S : Cardinality({y \in S : Earlier(rows, y, x)}) = n - 1]
      BY Zenon DEF InOrder
  <2>2. \A n : \A x \in S :
            Cardinality({y \in S : Earlier(rows, y, x)}) = n - 1
                <=> Cardinality(Lower(S, R, x)) = n - 1
      BY <1>8
  <2>3. \A n : (CHOOSE x \in S : Cardinality({y \in S : Earlier(rows, y, x)}) = n - 1)
                = (CHOOSE x \in S : Cardinality(Lower(S, R, x)) = n - 1)
      BY <2>2
  <2> QED BY <2>1, <2>3 DEF Listing
<1> HIDE DEF order
<1>10. \A m, n \in 1 .. k : m < n <=> Earlier(rows, order[m], order[n])
    BY <1>5, <1>7
<1>11. Arranged(rows, order)
    BY <1>7, <1>10 DEF Arranged, S, k
<1> QED BY <1>9, <1>11 DEF S

(* The places of an increasing sequence that leaves none out. *)
Climbing(pos, k, l) ==
    /\ pos \in [1 .. k -> 1 .. l]
    /\ \A m, n \in 1 .. k : m < n => pos[m] < pos[n]
    /\ \A n \in 1 .. k : \A q \in 1 .. l : q < pos[n] => \E m \in 1 .. k : pos[m] = q

LEMMA PrefixOfOrder ==
    ASSUME NEW k, k \in Nat, NEW l, l \in Nat, NEW pos, Climbing(pos, k, l)
    PROVE  \A n \in 1 .. k : pos[n] = n
<1>0. /\ pos \in [1 .. k -> 1 .. l]
      /\ \A m, n \in 1 .. k : m < n => pos[m] < pos[n]
      /\ \A n \in 1 .. k : \A q \in 1 .. l : q < pos[n] => \E m \in 1 .. k : pos[m] = q
    BY DEF Climbing
<1> DEFINE T == {n \in Nat : \A m \in 1 .. n : m <= k => pos[m] = m}
<1>1. 0 \in T
    OBVIOUS
<1>2. ASSUME NEW n \in Nat, n \in T  PROVE n + 1 \in T
  <2>1. ASSUME n + 1 <= k  PROVE pos[n + 1] = n + 1
    <3> DEFINE q == n + 1
    <3>1. q \in 1 .. k /\ pos[q] \in 1 .. l /\ \A m \in 1 .. n : m \in 1 .. k /\ pos[m] = m /\ m < q
        BY <1>0, <1>2, <2>1
    <3>2. pos[q] >= q
      <4>1. CASE n = 0
          BY <3>1, <4>1
      <4>2. CASE n # 0
        <5>1. n \in 1 .. n
            BY <4>2
        <5>2. pos[n] < pos[q] /\ pos[n] = n
            BY <1>0, <3>1, <5>1
        <5> QED BY <3>1, <5>2
      <4> QED BY <4>1, <4>2
    <3>3. ASSUME q < pos[q]  PROVE FALSE
      <4>1. q \in 1 .. l
          BY <3>1, <3>3
      <4>2. PICK m \in 1 .. k : pos[m] = q
          BY <1>0, <3>1, <3>3, <4>1
      <4>3. CASE m <= n
        <5>1. m \in 1 .. n
            BY <4>3
        <5> QED BY <3>1, <4>2, <5>1
      <4>4. CASE m = q
          BY <3>1, <3>3, <4>2, <4>4
      <4>5. CASE q < m
        <5>1. pos[q] < pos[m]
            BY <1>0, <3>1, <4>5
        <5> QED BY <3>1, <3>3, <4>2, <5>1
      <4> QED BY <4>3, <4>4, <4>5
    <3> QED BY <3>1, <3>2, <3>3
  <2>2. \A m \in 1 .. n + 1 : m \in 1 .. n \/ m = n + 1
      OBVIOUS
  <2> QED BY <1>2, <2>1, <2>2
<1>3. Nat \subseteq T
  <2> HIDE DEF T
  <2> QED BY <1>1, <1>2, NumberInduction
<1>4. k \in T
    BY <1>3
<1> QED BY <1>4

(* The rank by which a row is ordered is its place, or comes after all.    *)
Ranks(rank, leaf, all) ==
    \/ rank = Unranked /\ \A n \in DOMAIN all : all[n] # leaf
    \/ rank \in DOMAIN all /\ rank < Unranked /\ all[rank] = leaf

LEMMA PlaceRanks ==
    ASSUME NEW all \in Seq(Leaves), Len(all) < Unranked, NEW leaf,
           NEW rank, PlaceOf(rank, leaf, all)
    PROVE  Ranks(OrElse(rank, Unranked), leaf, all)
<1>1. CASE rank = None /\ \A n \in DOMAIN all : all[n] # leaf
    BY <1>1 DEF OrElse, Ranks
<1>2. CASE rank \in DOMAIN all /\ all[rank] = leaf
  <2>1. rank < Unranked /\ rank # Unranked /\ rank # None
      BY <1>2, SearchIsRanked DEF None
  <2> QED BY <1>2, <2>1 DEF OrElse, Ranks
<1> QED BY <1>1, <1>2 DEF PlaceOf

(* The fused hits that were not reranked. *)
Leaving(fused, leaves) == {i \in DOMAIN fused : fused[i].leaf \notin ToSet(leaves)}
Table(rows, order) == [n \in 1 .. Len(rows) |-> rows[order[n]]]

(* What orders the ranking table: no row is twice in it. *)
LEMMA TableInOrder ==
    ASSUME NEW list, NEW fused, NEW leaves, Funnel(list, fused, leaves),
           NEW rows, RowsTell(rows, list, fused, leaves), NEW order, Arranged(rows, order),
           NEW table, table = Table(rows, order)
    PROVE  /\ table \in Seq(Row) /\ DOMAIN table = 1 .. Len(rows) /\ Len(rows) \in Nat
           /\ Len(table) = Len(rows)
           /\ \A q \in DOMAIN table : RowTells(table[q], list, fused, leaves)
           /\ \A leaf \in FoundBy(list) : \E q \in DOMAIN table : table[q].leaf = leaf
           /\ Distinct(table)
           /\ \A q, r \in DOMAIN table : q < r =>
                  \/ RankIn(table[q]) < RankIn(table[r])
                  \/ RankIn(table[q]) = RankIn(table[r])
                     /\ FusionIn(table[q]) <= FusionIn(table[r])
           /\ \A q, r \in DOMAIN table :
                  \/ RankIn(table[q]) < RankIn(table[r])
                  \/ RankIn(table[q]) = RankIn(table[r])
                     /\ FusionIn(table[q]) < FusionIn(table[r])
                  => q < r
<1> DEFINE k == Len(rows)
<1>1. rows \in Seq(Row)
    BY DEF RowsTell
<1>2. DOMAIN rows = 1 .. k /\ k \in Nat /\ \A j \in DOMAIN rows : rows[j] \in Row
    BY <1>1, PlacesOf
<1>3. /\ \A n \in 1 .. k : order[n] \in DOMAIN rows /\ order[n] \in Nat
      /\ \A j \in DOMAIN rows : \E n \in 1 .. k : order[n] = j
      /\ \A m, n \in 1 .. k : m < n <=> Earlier(rows, order[m], order[n])
    BY <1>2 DEF Arranged
<1>4. DOMAIN table = 1 .. k /\ \A n \in 1 .. k : table[n] = rows[order[n]]
    BY DEF Table
<1> HIDE DEF k
<1>5. table \in [1 .. k -> Row]
    BY <1>2, <1>3, <1>4 DEF Table, k
<1>6. table \in Seq(Row) /\ Len(table) = k
    BY <1>2, <1>4, <1>5
<1>7. \A q \in DOMAIN table : RowTells(table[q], list, fused, leaves)
    BY <1>3, <1>4 DEF RowsTell
<1>8. \A leaf \in FoundBy(list) : \E q \in DOMAIN table : table[q].leaf = leaf
    BY <1>3, <1>4 DEF RowsTell
<1>9. \A q \in 1 .. k : RankIn(table[q]) \in Nat /\ FusionIn(table[q]) \in Nat
    BY <1>2, <1>3, <1>4, SearchIsRanked DEF RankIn, FusionIn, OrElse, Row
<1>10. \A q, r \in 1 .. k : q < r <=>
          \/ RankIn(table[q]) < RankIn(table[r])
          \/ /\ RankIn(table[q]) = RankIn(table[r])
             /\ \/ FusionIn(table[q]) < FusionIn(table[r])
                \/ FusionIn(table[q]) = FusionIn(table[r]) /\ order[q] < order[r]
    BY <1>3, <1>4 DEF Earlier, RankIn, FusionIn
<1>11. Distinct(table)
  <2> SUFFICES ASSUME NEW q \in 1 .. k, NEW r \in 1 .. k, table[q].leaf = table[r].leaf
               PROVE  q = r
      BY <1>4 DEF Distinct
  <2>0. rows[order[q]].leaf = rows[order[r]].leaf
      BY <1>4
  <2>1. order[q] = order[r] /\ table[q] = table[r]
    <3>1. order[q] = order[r]
        BY <1>3, <2>0 DEF RowsTell, Distinct
    <3> QED BY <1>4, <3>1
  <2>2. ~(q < r) /\ ~(r < q)
      BY <1>3, <1>9, <1>10, <2>1
  <2> QED BY <1>2, <2>2
<1>12. \A q, r \in 1 .. k : q < r =>
           \/ RankIn(table[q]) < RankIn(table[r])
           \/ RankIn(table[q]) = RankIn(table[r])
              /\ FusionIn(table[q]) <= FusionIn(table[r])
    BY <1>9, <1>10
<1> QED BY <1>2, <1>4, <1>6, <1>7, <1>8, <1>10, <1>11, <1>12 DEF k

(* The table begins with the reranked leaves, then the other fused ones.   *)
LEMMA TableBegins ==
    ASSUME NEW list, NEW fused, NEW leaves, Funnel(list, fused, leaves),
           NEW rows, RowsTell(rows, list, fused, leaves), NEW order, Arranged(rows, order),
           NEW table, table = Table(rows, order),
           NEW rest, rest \in Seq(Hit),
           NEW at, Sublist(rest, fused, at, Leaving(fused, leaves))
    PROVE  IsPrefix(leaves \o LeavesAt(rest), LeavesAt(table))
<1> DEFINE pre == leaves \o LeavesAt(rest)
           told == LeavesAt(table)
           l == Len(leaves)
           k == l + Len(rest)
           t == Len(table)
<1>1. /\ leaves \in Seq(Leaves) /\ fused \in Seq(Hit) /\ Distinct(fused) /\ IsInjective(leaves)
      /\ DOMAIN leaves = 1 .. l /\ l \in Nat /\ l < Unranked /\ Len(fused) < Unranked
      /\ Unranked \in Nat
  <2>1. /\ leaves \in Seq(Leaves) /\ fused \in Seq(Hit)
        /\ Distinct(fused) /\ IsInjective(leaves)
        /\ l <= SelectedLeafK /\ Len(fused) <= FusedTopK
      BY DEF Funnel
  <2>2. /\ l \in Nat /\ DOMAIN leaves = 1 .. l /\ Len(fused) \in Nat
      BY <2>1
  <2> HIDE DEF l
  <2> QED BY <2>1, <2>2, SearchIsRanked
<1>2. /\ table \in Seq(Row) /\ DOMAIN table = 1 .. t /\ t \in Nat
      /\ \A q \in DOMAIN table : RowTells(table[q], list, fused, leaves)
      /\ \A leaf \in FoundBy(list) : \E q \in DOMAIN table : table[q].leaf = leaf
      /\ Distinct(table)
    BY TableInOrder
<1>3. /\ \A q, r \in 1 .. t : q < r =>
             \/ RankIn(table[q]) < RankIn(table[r])
             \/ RankIn(table[q]) = RankIn(table[r])
                /\ FusionIn(table[q]) <= FusionIn(table[r])
      /\ \A q, r \in 1 .. t :
             \/ RankIn(table[q]) < RankIn(table[r])
             \/ RankIn(table[q]) = RankIn(table[r])
                /\ FusionIn(table[q]) < FusionIn(table[r])
             => q < r
    BY <1>2, TableInOrder
<1>4. /\ told \in Seq(Leaves) /\ DOMAIN told = 1 .. t /\ Len(told) = t
      /\ \A q \in 1 .. t : told[q] = table[q].leaf
      /\ \A q, r \in 1 .. t : told[q] = told[r] => q = r
  <2>1. \A q \in 1 .. t : table[q].leaf \in Leaves
    <3>1. \A q \in DOMAIN table : table[q] \in Row
        BY <1>2, PlacesOf
    <3> QED BY <1>2, <3>1 DEF Row
  <2> HIDE DEF t
  <2>2. DOMAIN told = 1 .. t /\ \A q \in 1 .. t : told[q] = table[q].leaf
      BY <1>2 DEF LeavesAt
  <2>3. told \in [1 .. t -> Leaves]
      BY <1>2, <2>1 DEF LeavesAt
  <2> HIDE DEF told
  <2>4. told \in Seq(Leaves) /\ Len(told) = t
      BY <1>2, <2>3
  <2> QED BY <1>2, <2>2, <2>4 DEF Distinct
<1>5. /\ Len(rest) \in Nat /\ DOMAIN rest = 1 .. Len(rest)
      /\ \A n \in DOMAIN rest : /\ at[n] \in DOMAIN fused /\ at[n] \in Nat
                                /\ rest[n] = fused[at[n]]
                                /\ fused[at[n]].leaf \notin ToSet(leaves)
      /\ \A m, n \in DOMAIN rest : m < n <=> at[m] < at[n]
      /\ \A i \in Leaving(fused, leaves) : \E n \in DOMAIN rest : at[n] = i
  <2>1. \A n \in DOMAIN rest : at[n] \in Leaving(fused, leaves) /\ rest[n] = fused[at[n]]
      BY DEF Sublist
  <2>2. \A i \in DOMAIN fused : i \in Nat
      BY <1>1
  <2>3. /\ \A m, n \in DOMAIN rest : m < n <=> at[m] < at[n]
        /\ \A i \in Leaving(fused, leaves) : \E n \in DOMAIN rest : at[n] = i
      BY DEF Sublist
  <2>4. Len(rest) \in Nat /\ DOMAIN rest = 1 .. Len(rest)
      OBVIOUS
  <2> QED BY <2>1, <2>2, <2>3, <2>4 DEF Leaving
<1>6. /\ pre \in Seq(Leaves) /\ DOMAIN pre = 1 .. k /\ k \in Nat /\ Len(pre) = k
      /\ \A n \in 1 .. l : n \in 1 .. k /\ pre[n] = leaves[n]
      /\ \A n \in DOMAIN rest : l + n \in 1 .. k /\ pre[l + n] = rest[n].leaf
      /\ \A m \in 1 .. k : m \in 1 .. l \/ \E n \in DOMAIN rest : m = l + n
  <2> DEFINE others == LeavesAt(rest)
             o == Len(rest)
  <2>1. \A n \in DOMAIN rest : rest[n].leaf \in Leaves
    <3>1. \A n \in DOMAIN rest : rest[n] \in Hit
        BY PlacesOf
    <3> QED BY <3>1 DEF Hit
  <2>2. /\ others \in Seq(Leaves) /\ DOMAIN others = 1 .. o /\ Len(others) = o
        /\ \A n \in DOMAIN rest : others[n] = rest[n].leaf
    <3> HIDE DEF o
    <3>1. others \in [1 .. o -> Leaves]
        BY <1>5, <2>1 DEF LeavesAt, o
    <3>2. \A n \in DOMAIN rest : others[n] = rest[n].leaf
        BY DEF LeavesAt
    <3> HIDE DEF others
    <3>3. others \in Seq(Leaves) /\ Len(others) = o
        BY <1>5, <3>1 DEF o
    <3> QED BY <3>1, <3>2, <3>3
  <2>3. pre = leaves \o others
      OBVIOUS
  <2> HIDE DEF others, pre
  <2>4. Concatenated(Leaves, leaves \o others, leaves, others)
      BY <1>1, <2>2, BothHeld
  <2>5. Concatenated(Leaves, pre, leaves, others)
      BY <2>3, <2>4
  <2>6. /\ pre \in Seq(Leaves) /\ DOMAIN pre = 1 .. l + o
        /\ \A i \in DOMAIN leaves : i \in DOMAIN pre /\ pre[i] = leaves[i]
        /\ \A i \in DOMAIN others : l + i \in DOMAIN pre /\ pre[l + i] = others[i]
        /\ \A m \in DOMAIN pre : m \notin DOMAIN leaves => \E i \in DOMAIN others : m = l + i
      BY <2>2, <2>5 DEF Concatenated
  <2>7. k \in Nat /\ k = l + o
      BY <1>1, <1>5
  <2> HIDE DEF k, l
  <2>8. DOMAIN pre = 1 .. k /\ Len(pre) = k
      BY <2>6, <2>7
  <2> QED BY <1>1, <1>5, <2>2, <2>6, <2>7, <2>8
<1> HIDE DEF pre, told, l, k, t
(* Its row tells where a leaf was reranked and fused. *)
<1>7. \A q \in 1 .. t : /\ told[q] \in FoundBy(list)
                        /\ Ranks(RankIn(table[q]), told[q], leaves)
                        /\ Ranks(FusionIn(table[q]), told[q], LeavesAt(fused))
  <2>1. LeavesAt(fused) \in Seq(Leaves) /\ Len(LeavesAt(fused)) = Len(fused)
    <3> DEFINE n == Len(fused)
    <3>1. n \in Nat /\ DOMAIN fused = 1 .. n
        BY <1>1
    <3>2. \A i \in DOMAIN fused : fused[i].leaf \in Leaves
      <4>1. \A i \in DOMAIN fused : fused[i] \in Hit
          BY <1>1, PlacesOf
      <4> QED BY <4>1 DEF Hit
    <3> HIDE DEF n
    <3>3. LeavesAt(fused) \in [1 .. n -> Leaves]
        BY <3>1, <3>2 DEF LeavesAt
    <3> QED BY <3>1, <3>3 DEF n
  <2> SUFFICES ASSUME NEW q \in 1 .. t
               PROVE  /\ told[q] \in FoundBy(list)
                      /\ Ranks(RankIn(table[q]), told[q], leaves)
                      /\ Ranks(FusionIn(table[q]), told[q], LeavesAt(fused))
      OBVIOUS
  <2>2. /\ told[q] \in FoundBy(list)
        /\ PlaceOf(table[q].rerank, told[q], leaves)
        /\ PlaceOf(table[q].fusion, told[q], LeavesAt(fused))
      BY <1>2, <1>4 DEF RowTells
  <2>3. Ranks(RankIn(table[q]), told[q], leaves)
      BY <1>1, <2>2, PlaceRanks DEF RankIn, l
  <2>4. Ranks(FusionIn(table[q]), told[q], LeavesAt(fused))
      BY <1>1, <2>1, <2>2, PlaceRanks DEF FusionIn
  <2> QED BY <2>2, <2>3, <2>4
<1>8. ASSUME NEW q \in 1 .. t, NEW m \in 1 .. l, told[q] = leaves[m]
      PROVE  RankIn(table[q]) = m
    BY <1>1, <1>7, <1>8 DEF Ranks, IsInjective
<1>9. ASSUME NEW q \in 1 .. t, NEW n \in DOMAIN rest, told[q] = rest[n].leaf
      PROVE  RankIn(table[q]) = Unranked /\ FusionIn(table[q]) = at[n]
  <2>1. at[n] \in DOMAIN fused /\ told[q] = fused[at[n]].leaf /\ told[q] \notin ToSet(leaves)
      BY <1>5, <1>9
  <2>2. RankIn(table[q]) = Unranked
      BY <1>7, <2>1 DEF Ranks, ToSet
  <2>3. /\ FusionIn(table[q]) \in DOMAIN fused
        /\ fused[FusionIn(table[q])].leaf = told[q]
      BY <1>7, <2>1 DEF Ranks, LeavesAt
  <2>4. FusionIn(table[q]) = at[n]
      BY <1>1, <2>1, <2>3 DEF Distinct
  <2> QED BY <2>2, <2>4
<1>10. \A m \in 1 .. k : \E q \in 1 .. t : told[q] = pre[m]
  <2>1. \A m \in 1 .. k : pre[m] \in FoundBy(list)
    <3>1. \A n \in DOMAIN leaves : leaves[n] \in FoundBy(list)
        BY DEF Funnel
    <3>2. \A n \in DOMAIN rest : rest[n].leaf \in FoundBy(list)
        BY <1>5 DEF Funnel
    <3> QED BY <1>1, <1>6, <3>1, <3>2
  <2> QED BY <1>2, <1>4, <2>1
<1> DEFINE pos == [m \in 1 .. k |-> CHOOSE q \in 1 .. t : told[q] = pre[m]]
<1>11. \A m \in 1 .. k : pos[m] \in 1 .. t /\ told[pos[m]] = pre[m]
    BY <1>10
<1>12. pos \in [1 .. k -> 1 .. t]
    BY <1>11
<1> HIDE DEF pos
<1>13. ASSUME NEW m \in 1 .. k, NEW n \in 1 .. k, m < n  PROVE pos[m] < pos[n]
  <2>0. pos[m] \in 1 .. t /\ pos[n] \in 1 .. t /\ told[pos[m]] = pre[m] /\ told[pos[n]] = pre[n]
      BY <1>11
  <2>1. CASE n \in 1 .. l
    <3>1. m \in 1 .. l
        BY <1>1, <1>13, <2>1
    <3>2. RankIn(table[pos[m]]) = m /\ RankIn(table[pos[n]]) = n
        BY <1>6, <1>8, <2>0, <2>1, <3>1
    <3> QED BY <1>3, <1>13, <2>0, <3>2
  <2>2. CASE m \in 1 .. l /\ n \notin 1 .. l
    <3>1. RankIn(table[pos[m]]) = m
        BY <1>6, <1>8, <2>0, <2>2
    <3>2. PICK j \in DOMAIN rest : n = l + j
        BY <1>6, <2>2
    <3>3. RankIn(table[pos[n]]) = Unranked
        BY <1>6, <1>9, <2>0, <3>2
    <3>4. m < Unranked
        BY <1>1, <2>2
    <3> QED BY <1>3, <2>0, <3>1, <3>3, <3>4
  <2>3. CASE m \notin 1 .. l /\ n \notin 1 .. l
    <3>1. PICK i \in DOMAIN rest : m = l + i
        BY <1>6, <2>3
    <3>2. PICK j \in DOMAIN rest : n = l + j
        BY <1>6, <2>3
    <3>3. RankIn(table[pos[m]]) = Unranked /\ FusionIn(table[pos[m]]) = at[i]
        BY <1>6, <1>9, <2>0, <3>1
    <3>4. RankIn(table[pos[n]]) = Unranked /\ FusionIn(table[pos[n]]) = at[j]
        BY <1>6, <1>9, <2>0, <3>2
    <3>5. i < j
        BY <1>1, <1>5, <1>13, <3>1, <3>2
    <3>6. at[i] < at[j]
        BY <1>5, <3>5
    <3> QED BY <1>3, <2>0, <3>3, <3>4, <3>6
  <2> QED BY <2>1, <2>2, <2>3
<1>14. ASSUME NEW n \in 1 .. k, NEW q \in 1 .. t, q < pos[n]
       PROVE  \E m \in 1 .. k : pos[m] = q
  <2>0. pos[n] \in 1 .. t /\ told[pos[n]] = pre[n]
      BY <1>11
  <2>1. SUFFICES \E m \in 1 .. k : pre[m] = told[q]
      BY <1>4, <1>11
  <2>2. CASE RankIn(table[q]) # Unranked
    <3>1. RankIn(table[q]) \in 1 .. l /\ leaves[RankIn(table[q])] = told[q]
        BY <1>1, <1>7, <2>2 DEF Ranks
    <3> QED BY <1>6, <3>1
  <2>3. CASE RankIn(table[q]) = Unranked
    <3>1. \A i \in DOMAIN leaves : leaves[i] # told[q]
        BY <1>1, <1>7, <2>3 DEF Ranks
    <3>2. n \notin 1 .. l
      <4>1. SUFFICES ASSUME n \in 1 .. l  PROVE FALSE
          OBVIOUS
      <4>2. RankIn(table[pos[n]]) = n /\ n < Unranked
          BY <1>1, <1>6, <1>8, <2>0, <4>1
      <4> QED BY <1>1, <1>3, <1>14, <2>0, <2>3, <4>2
    <3>3. PICK j \in DOMAIN rest : n = l + j
        BY <1>6, <3>2
    <3>4. RankIn(table[pos[n]]) = Unranked /\ FusionIn(table[pos[n]]) = at[j]
        BY <1>6, <1>9, <2>0, <3>3
    <3>5. FusionIn(table[q]) <= at[j]
        BY <1>1, <1>3, <1>14, <2>0, <2>3, <3>4
    <3>6. at[j] < Unranked
      <4>1. at[j] \in 1 .. Len(fused) /\ Len(fused) \in Nat
          BY <1>1, <1>5
      <4> QED BY <1>1, <4>1
    <3>7. FusionIn(table[q]) # Unranked
        BY <1>1, <1>5, <3>5, <3>6
    <3>8. /\ FusionIn(table[q]) \in DOMAIN fused
          /\ fused[FusionIn(table[q])].leaf = told[q]
        BY <1>7, <3>7 DEF Ranks, LeavesAt
    <3>9. FusionIn(table[q]) \in Leaving(fused, leaves)
        BY <3>1, <3>8 DEF Leaving, ToSet
    <3>10. PICK i \in DOMAIN rest : at[i] = FusionIn(table[q])
        BY <1>5, <3>9
    <3>11. pre[l + i] = told[q] /\ l + i \in 1 .. k
        BY <1>5, <1>6, <3>8, <3>10
    <3> QED BY <3>11
  <2> QED BY <2>2, <2>3
<1>15. \A n \in 1 .. k : pos[n] = n
  <2>1. Climbing(pos, k, t)
      BY <1>12, <1>13, <1>14 DEF Climbing
  <2>2. k \in Nat /\ t \in Nat
      BY <1>2, <1>6
  <2> QED BY <2>1, <2>2, PrefixOfOrder, Zenon
<1>16. \A n \in 1 .. k : n \in 1 .. t /\ told[n] = pre[n]
    BY <1>11, <1>15
<1>17. k <= t
  <2>1. CASE k = 0
      BY <1>2, <2>1
  <2>2. CASE k # 0
    <3>1. k \in 1 .. k
        BY <1>6, <2>2
    <3>2. k \in 1 .. t
        BY <1>16, <3>1
    <3> QED BY <3>2
  <2> QED BY <2>1, <2>2
<1>18. SubSeq(pre, 1, Len(pre)) = SubSeq(told, 1, Len(pre))
  <2>1. SubSeq(pre, 1, k) = [i \in 1 .. k |-> pre[i]]
      BY <1>6
  <2>2. SubSeq(told, 1, k) = [i \in 1 .. k |-> told[i]]
      BY <1>4, <1>6, <1>17
  <2> QED BY <1>6, <1>16, <2>1, <2>2
<1> QED BY <1>4, <1>6, <1>17, <1>18 DEF IsPrefix, pre, told

(* The ranking table arranges the rows of the events. *)
LEMMA TableIs ==
    ASSUME NEW events, RowsOf(events) \in Seq(Row)
    PROVE  \E order : /\ Arranged(RowsOf(events), order)
                      /\ RankChanges(events) = Table(RowsOf(events), order)
<1> DEFINE rows == RowsOf(events)
<1>1. PICK order : /\ InOrder(DOMAIN rows, LAMBDA i, j : Earlier(rows, i, j)) = order
                   /\ Arranged(rows, order)
    BY RowsInOrder
<1>2. RankChanges(events)
          = [n \in DOMAIN InOrder(DOMAIN rows, LAMBDA i, j : Earlier(rows, i, j)) |->
                rows[InOrder(DOMAIN rows, LAMBDA i, j : Earlier(rows, i, j))[n]]]
    BY Zenon DEF RankChanges, RowsOf
<1> HIDE DEF rows
<1>3. RankChanges(events) = [n \in DOMAIN order |-> rows[order[n]]]
    BY <1>1, <1>2
<1>4. DOMAIN order = 1 .. Len(rows)
    BY <1>1 DEF Arranged
<1>5. RankChanges(events) = Table(rows, order)
    BY <1>3, <1>4 DEF Table
<1> QED BY <1>1, <1>5 DEF rows

(* The ranking table tells any funnel. *)
LEMMA FunnelIsTold ==
    ASSUME NEW list, NEW fused, NEW leaves, Funnel(list, fused, leaves),
           NEW table, table = RankChanges(EventsOf(list, fused, leaves))
    PROVE  /\ ToSet(LeavesAt(table)) = FoundBy(list) /\ IsInjective(LeavesAt(table))
           /\ IsPrefix(leaves \o LeavesAt(HitsAt(fused, Leaving(fused, leaves))),
                       LeavesAt(table))
           /\ \A n \in DOMAIN table :
                  /\ OrElse(table[n].dense, Unranked) = MethodRank(list, "dense", table[n].leaf)
                  /\ OrElse(table[n].sparse, Unranked) = MethodRank(list, "sparse", table[n].leaf)
<1> DEFINE rows == RowsOf(EventsOf(list, fused, leaves))
           rest == HitsAt(fused, Leaving(fused, leaves))
<1>1. RowsTell(rows, list, fused, leaves)
    BY RowsTellFunnel
<1>2. rows \in Seq(Row)
    BY <1>1 DEF RowsTell
<1>3. PICK order : Arranged(rows, order) /\ table = Table(rows, order)
    BY <1>2, TableIs
<1> HIDE DEF rows
<1>4. /\ table \in Seq(Row) /\ Distinct(table)
      /\ \A q \in DOMAIN table : RowTells(table[q], list, fused, leaves)
      /\ \A leaf \in FoundBy(list) : \E q \in DOMAIN table : table[q].leaf = leaf
    BY <1>1, <1>3, TableInOrder
<1>5. fused \in Seq(Hit) /\ Leaving(fused, leaves) \in SUBSET DOMAIN fused
    BY DEF Funnel, Leaving
<1>6. PICK at : Sublist(rest, fused, at, Leaving(fused, leaves))
    BY <1>5, HitsInOrder
<1>7. rest \in Seq(Hit)
    BY <1>5, HitsInOrder
<1> HIDE DEF rest
<1>8. IsPrefix(leaves \o LeavesAt(rest), LeavesAt(table))
    BY <1>1, <1>3, <1>6, <1>7, TableBegins
<1>9. ToSet(LeavesAt(table)) = FoundBy(list)
  <2>1. \A n \in DOMAIN table : LeavesAt(table)[n] \in FoundBy(list)
      BY <1>4 DEF LeavesAt, RowTells
  <2>2. \A leaf \in FoundBy(list) : \E n \in DOMAIN table : LeavesAt(table)[n] = leaf
      BY <1>4 DEF LeavesAt
  <2>3. DOMAIN LeavesAt(table) = DOMAIN table
      BY DEF LeavesAt
  <2> QED BY <2>1, <2>2, <2>3 DEF ToSet
<1>10. IsInjective(LeavesAt(table))
    BY <1>4 DEF LeavesAt, IsInjective, Distinct
<1>11. \A n \in DOMAIN table :
           /\ OrElse(table[n].dense, Unranked) = MethodRank(list, "dense", table[n].leaf)
           /\ OrElse(table[n].sparse, Unranked) = MethodRank(list, "sparse", table[n].leaf)
    BY <1>4 DEF RowTells
<1> QED BY <1>8, <1>9, <1>10, <1>11 DEF rest

(* Whatever the reranker selects of the fused hits is a funnel. *)
LEMMA SelectionIsFunnel ==
    ASSUME FunnelInv, stage = "authorize",
           NEW selected \in {{}} \cup kSubset(SelectedLeafK, DOMAIN hits),
           NEW order \in SetToSeqs(selected)
    PROVE  Funnel(branches, hits, [n \in DOMAIN order |-> hits[order[n]].leaf])
<1> DEFINE reranked == [n \in DOMAIN order |-> hits[order[n]].leaf]
           k == Cardinality(selected)
<1>1. branches \in Seq(Branch) /\ hits \in Seq(Hit) /\ Distinct(hits) /\ hits = Fuse(branches, Quota)
    BY DEF FunnelInv, Fused
<1>2. Quota \in Nat \ {0}
    BY <1>1, QuotaIsPositive
<1>3. /\ Len(hits) <= FusedTopK
      /\ \A n \in DOMAIN hits : hits[n].leaf \in FoundBy(branches)
  <2> DEFINE ranked == Ordered(branches)
             quota == Quota
  <2>1. PICK at : Sofar(ranked, quota, Len(ranked), hits, at)
    <3> HIDE DEF quota
    <3>1. \E at : Sofar(ranked, quota, Len(ranked), Fuse(branches, quota), at)
        BY <1>1, <1>2, FuseIsSound DEF quota
    <3> QED BY <1>1, <3>1 DEF quota
  <2>2. Ranked(branches, ranked)
      BY <1>1, OrderedIsRanked
  <2> HIDE DEF ranked, quota
  <2>3. DOMAIN ranked = 1 .. Len(ranked)
      BY <2>2 DEF Ranked
  <2> QED BY <2>1, <2>2, <2>3 DEF Sofar, Ranked
<1>4. selected \subseteq DOMAIN hits /\ k \in Nat /\ k <= SelectedLeafK
  <2>1. CASE selected = {}
      BY <2>1, FS_EmptySet, SearchIsRanked
  <2>2. CASE selected \in kSubset(SelectedLeafK, DOMAIN hits)
      BY <2>2, SearchIsRanked DEF kSubset
  <2> QED BY <2>1, <2>2
<1>5. /\ order \in [1 .. k -> selected]
      /\ \A i, j \in 1 .. k : i # j => order[i] # order[j]
    BY DEF SetToSeqs
<1> HIDE DEF k
<1>6. /\ DOMAIN reranked = 1 .. k
      /\ \A n \in 1 .. k : /\ order[n] \in DOMAIN hits
                           /\ reranked[n] = hits[order[n]].leaf
                           /\ reranked[n] \in Leaves
  <2>1. \A i \in DOMAIN hits : hits[i].leaf \in Leaves
    <3>1. \A i \in DOMAIN hits : hits[i] \in Hit
        BY <1>1, PlacesOf
    <3> QED BY <3>1 DEF Hit
  <2> QED BY <1>4, <1>5, <2>1
<1> HIDE DEF reranked
<1>7. reranked \in Seq(Leaves) /\ Len(reranked) = k
  <2>1. reranked \in [1 .. k -> Leaves]
      BY <1>6 DEF reranked
  <2> QED BY <1>4, <2>1
<1>8. IsInjective(reranked)
    BY <1>1, <1>5, <1>6 DEF IsInjective, Distinct
<1>9. \A n \in DOMAIN reranked : \E i \in DOMAIN hits : reranked[n] = hits[i].leaf
    BY <1>6
<1> QED BY <1>1, <1>3, <1>4, <1>7, <1>8, <1>9 DEF Funnel, reranked

LEMMA RankingsAreTrue ==
    ASSUME FunnelInv
    PROVE  RankingsTellTheFunnel
<1> SUFFICES ASSUME stage = "authorize",
                    NEW selected \in {{}} \cup kSubset(SelectedLeafK, DOMAIN hits),
                    NEW order \in SetToSeqs(selected)
             PROVE  LET reranked == [n \in DOMAIN order |-> hits[order[n]].leaf]
                        table == RankChanges(EventsOf(branches, hits, reranked))
                        told == [n \in DOMAIN table |-> table[n].leaf]
                        rest == HitsAt(hits, {i \in DOMAIN hits : hits[i].leaf \notin ToSet(reranked)})
                    IN  /\ ToSet(told) = FoundBy(branches) /\ IsInjective(told)
                        /\ IsPrefix(reranked \o [n \in DOMAIN rest |-> rest[n].leaf], told)
                        /\ \A n \in DOMAIN table, method \in Methods :
                            OrElse(table[n][method], Unranked)
                                = MethodRank(branches, method, told[n])
    BY DEF RankingsTellTheFunnel
<1> DEFINE reranked == [n \in DOMAIN order |-> hits[order[n]].leaf]
           table == RankChanges(EventsOf(branches, hits, reranked))
           told == [n \in DOMAIN table |-> table[n].leaf]
           rest == HitsAt(hits, {i \in DOMAIN hits : hits[i].leaf \notin ToSet(reranked)})
<1>1. Funnel(branches, hits, reranked)
    BY SelectionIsFunnel
<1>2. told = LeavesAt(table) /\ [n \in DOMAIN rest |-> rest[n].leaf] = LeavesAt(rest)
      /\ rest = HitsAt(hits, Leaving(hits, reranked))
    BY DEF LeavesAt, Leaving
<1>3. \A n \in DOMAIN table : told[n] = table[n].leaf
    OBVIOUS
<1>4. table = RankChanges(EventsOf(branches, hits, reranked))
    OBVIOUS
<1> HIDE DEF reranked, table
<1>5. /\ ToSet(LeavesAt(table)) = FoundBy(branches) /\ IsInjective(LeavesAt(table))
      /\ IsPrefix(reranked \o LeavesAt(HitsAt(hits, Leaving(hits, reranked))), LeavesAt(table))
      /\ \A n \in DOMAIN table :
             /\ OrElse(table[n].dense, Unranked) = MethodRank(branches, "dense", table[n].leaf)
             /\ OrElse(table[n].sparse, Unranked) = MethodRank(branches, "sparse", table[n].leaf)
    BY <1>1, <1>4, FunnelIsTold
<1>6. \A n \in DOMAIN table, method \in Methods :
          OrElse(table[n][method], Unranked) = MethodRank(branches, method, told[n])
    BY <1>3, <1>5 DEF Methods
<1> HIDE DEF told, rest
<1>7. /\ ToSet(told) = FoundBy(branches) /\ IsInjective(told)
      /\ IsPrefix(reranked \o [n \in DOMAIN rest |-> rest[n].leaf], told)
    BY <1>2, <1>5
<1> QED BY <1>6, <1>7 DEF reranked, table, told, rest

(* The trace of a retrieval tells which candidates it had, how many each   *)
(* stage left out and why, and what the budget was used for, whatever was  *)
(* found, scored, selected and withdrawn meanwhile (_rankings and          *)
(* _stage_metrics in query_trace.py, over what fusion.py, reranking.py and *)
(* scope_root.py record).                                                  *)
THEOREM TraceIsTrue == FunnelSpec => []TraceTellsFunnel
<1>1. FunnelInv /\ Traceable => TraceTellsFunnel
    BY RankingsAreTrue, CountersAddUp, BudgetIsShared DEF TraceTellsFunnel, Traceable
<1> QED BY <1>1, FunnelInductive, FunnelTraceable, PTL
=============================================================================
