------------------------ MODULE TextPipeline_proofs -------------------------
(* That the text of a file survives its ingest - loading, cleaning and splitting
   lose nothing of it - and that the reports of evaluation runs are comparable
   and do not contradict themselves.  All of it is about folds over sequences
   of any length: a fold is turned once into a function that takes the elements
   one after the other, and what is computed is proved by induction over it. *)
EXTENDS TextPipeline, Evaluations, FiniteSetTheorems, SequenceTheorems, WellFoundedInduction, TLAPS

-----------------------------------------------------------------------------
(* Folds over sequences. *)

(* A finite set ordered by a transitive, total relation has a greatest element. *)
LEMMA ExtremeExists ==
    ASSUME NEW S, IsFiniteSet(S), S # {}, NEW R,
           \A x, y, z \in S : <<x, y>> \in R /\ <<y, z>> \in R => <<x, z>> \in R,
           \A x, y \in S : x = y \/ <<x, y>> \in R \/ <<y, x>> \in R
    PROVE  \E x \in S : \A y \in S \ {x} : <<y, x>> \in R
<1> DEFINE
      Extreme(s, x) == \A y \in s \ {x} : <<y, x>> \in R
      T == {s \in SUBSET S : s # {} /\ ~ \E x \in s : Extreme(s, x)}
<1>1. SUFFICES ASSUME T # {} PROVE FALSE
  <2>1. S \notin T => \E x \in S : Extreme(S, x)  OBVIOUS
  <2> QED BY <1>1, <2>1
<1>2. T \subseteq FiniteSubsetsOf(S)  BY FS_FiniteSubsetsOfFinite
<1>3. PICK s \in T : \A t \in T : ~ (<<t, s>> \in StrictSubsetOrdering(S))
  <2> HIDE DEF T
  <2> QED BY <1>1, <1>2, FS_StrictSubsetOrderingWellFounded, WFMin
<1>4. PICK x \in s : TRUE  OBVIOUS
<1> DEFINE t == s \ {x}
<1>5. <<t, s>> \in StrictSubsetOrdering(S)
  BY <1>3, <1>4 DEF StrictSubsetOrdering
<1>6. t = {} \/ \E y \in t : Extreme(t, y)  BY <1>3, <1>5
<1>7. CASE t = {}
  <2>1. Extreme(s, x)  BY <1>7
  <2> QED BY <1>3, <1>4, <2>1
<1>8. CASE \E y \in t : Extreme(t, y)
  <2>1. PICK y \in t : Extreme(t, y)  BY <1>8
  <2>2. x \in S /\ y \in S /\ y # x /\ y \in s /\ s \subseteq S
    BY <1>3, <1>4, <2>1
  <2>3. CASE <<x, y>> \in R
    <3>1. Extreme(s, y)  BY <2>1, <2>3
    <3> QED BY <1>3, <2>2, <3>1
  <2>4. CASE <<y, x>> \in R
    <3>1. ASSUME NEW z \in s \ {x} PROVE <<z, x>> \in R
      <4>1. CASE z = y  BY <2>4, <4>1
      <4>2. CASE z # y
        <5>1. <<z, y>> \in R  BY <2>1, <3>1, <4>2
        <5> QED BY <2>2, <2>4, <3>1, <5>1
      <4> QED BY <4>1, <4>2
    <3> QED BY <1>3, <1>4, <3>1
  <2> QED BY <2>2, <2>3, <2>4
<1> QED BY <1>6, <1>7, <1>8

(* Every nonempty set of natural numbers has a least one. *)
LEMMA LeastExists ==
    ASSUME NEW T \in SUBSET Nat, T # {}
    PROVE  \E n \in T : \A m \in T : n <= m
<1>1. \E n \in T : \A m \in T : <<m, n>> \notin OpToRel(<, Nat)
    BY NatLessThanWellFounded, WFMin
<1>2. \A m, n \in T : <<m, n>> \notin OpToRel(<, Nat) => n <= m
    BY DEF OpToRel
<1> QED BY <1>1, <1>2

(* What holds of the empty set, and of every set of S when it holds of the
   set without one of its elements, holds of every finite set. *)
LEMMA SubsetInduction ==
    ASSUME NEW S, IsFiniteSet(S), NEW T, {} \in T,
           \A s \in SUBSET S : s # {} => \E x \in s : s \ {x} \in T => s \in T
    PROVE  SUBSET S \subseteq T
<1> SUFFICES ASSUME NEW u \in SUBSET S, u \notin T  PROVE FALSE  OBVIOUS
<1> DEFINE sizes == {Cardinality(s) : s \in (SUBSET S) \ T}
<1>1. \A s \in SUBSET S : /\ IsFiniteSet(s) /\ Cardinality(s) \in Nat
                          /\ \A x \in s : Cardinality(s \ {x}) = Cardinality(s) - 1
    BY FS_Subset, FS_CardinalityType, FS_RemoveElement
<1>2. sizes \in SUBSET Nat /\ sizes # {}  BY <1>1
<1>3. PICK n \in sizes : \A m \in sizes : n <= m  BY <1>2, LeastExists
<1>4. PICK s \in (SUBSET S) \ T : Cardinality(s) = n  BY <1>3
<1>5. s # {}  BY <1>4
<1>6. PICK x \in s : s \ {x} \in T => s \in T  BY <1>5
<1>7. s \ {x} \in (SUBSET S) \ T  BY <1>4, <1>6
<1>8. Cardinality(s \ {x}) \in sizes /\ Cardinality(s \ {x}) = Cardinality(s) - 1
    BY <1>1, <1>7
<1>9. n \in Nat  BY <1>2
<1> QED BY <1>3, <1>4, <1>8, <1>9

(* What holds of 0, and of n + 1 when of n, holds of every natural number. *)
LEMMA NumberInduction ==
    ASSUME NEW T, 0 \in T, \A n \in Nat : n \in T => n + 1 \in T
    PROVE  Nat \subseteq T
<1> SUFFICES ASSUME Nat \ T # {}  PROVE FALSE  OBVIOUS
<1>1. PICK n \in Nat \ T : \A m \in Nat \ T : n <= m  BY LeastExists
<1>2. n - 1 \in Nat /\ (n - 1) + 1 = n /\ ~(n <= n - 1)  BY <1>1
<1> QED BY <1>1, <1>2

(* A fold over a finite set applies next to what it gives for the rest and
   to the element that is picked from the set. *)
Folding(S, base, next, pick, f) ==
    f = [s \in SUBSET S |->
            IF s = {} THEN base ELSE next[<<f[s \ {pick[s]}], pick[s]>>]]

(* There is one: of the sets of at most n elements, n growing. *)
LEMMA FoldExists ==
    ASSUME NEW S, IsFiniteSet(S), NEW base, NEW next, NEW pick,
           \A s \in SUBSET S : s # {} => pick[s] \in s
    PROVE  \E f : Folding(S, base, next, pick, f)
<1> DEFINE
      Small(n) == {s \in SUBSET S : Cardinality(s) <= n}
      Upto(n, g) == g = [s \in Small(n) |->
                           IF s = {} THEN base ELSE next[<<g[s \ {pick[s]}], pick[s]>>]]
      T == {n \in Nat : \E g : Upto(n, g)}
<1>1. \A s \in SUBSET S :
        /\ Cardinality(s) \in Nat /\ (Cardinality(s) = 0 <=> s = {})
        /\ s # {} => /\ s \ {pick[s]} \in SUBSET S
                     /\ Cardinality(s \ {pick[s]}) = Cardinality(s) - 1
  <2> SUFFICES ASSUME NEW s \in SUBSET S
               PROVE  /\ Cardinality(s) \in Nat /\ (Cardinality(s) = 0 <=> s = {})
                      /\ s # {} => /\ s \ {pick[s]} \in SUBSET S
                                   /\ Cardinality(s \ {pick[s]}) = Cardinality(s) - 1
    OBVIOUS
  <2>1. IsFiniteSet(s)  BY FS_Subset
  <2>2. Cardinality(s) \in Nat /\ (Cardinality(s) = 0 <=> s = {})
    BY <2>1, FS_CardinalityType, FS_EmptySet
  <2>3. ASSUME s # {} PROVE Cardinality(s \ {pick[s]}) = Cardinality(s) - 1
    BY <2>1, <2>3, FS_RemoveElement
  <2> QED BY <2>2, <2>3
<1>2. 0 \in T
  <2> DEFINE g == [s \in Small(0) |-> base]
  <2>1. ASSUME NEW s \in Small(0) PROVE s = {}
    <3>1. s \in SUBSET S /\ Cardinality(s) <= 0  OBVIOUS
    <3>2. Cardinality(s) \in Nat /\ (Cardinality(s) = 0 <=> s = {})
      BY <1>1, <3>1
    <3>3. Cardinality(s) = 0  BY <3>1, <3>2
    <3> QED BY <3>2, <3>3
  <2>2. Upto(0, g)  BY <2>1
  <2> HIDE DEF Upto, g
  <2> QED BY <2>2
<1>3. ASSUME NEW n \in Nat, n \in T PROVE n + 1 \in T
  <2>1. PICK g : Upto(n, g)  BY <1>3
  <2> DEFINE h == [s \in Small(n + 1) |->
                     IF s = {} THEN base ELSE next[<<g[s \ {pick[s]}], pick[s]>>]]
  <2>2. ASSUME NEW s \in Small(n + 1), s # {} PROVE s \ {pick[s]} \in Small(n)
    <3>1. /\ s \ {pick[s]} \in SUBSET S /\ Cardinality(s) \in Nat
          /\ Cardinality(s \ {pick[s]}) = Cardinality(s) - 1
      BY <1>1, <2>2
    <3>2. Cardinality(s) <= n + 1  BY <2>2
    <3>3. Cardinality(s \ {pick[s]}) <= n  BY <3>1, <3>2
    <3> QED BY <3>1, <3>3
  <2>3. ASSUME NEW s \in Small(n) PROVE s \in Small(n + 1) /\ h[s] = g[s]
    <3>1. s \in Small(n + 1)
      <4>1. Cardinality(s) \in Nat /\ Cardinality(s) <= n /\ s \in SUBSET S
        BY <1>1, <2>3
      <4>2. Cardinality(s) <= n + 1  BY <4>1
      <4> QED BY <4>1, <4>2
    <3> HIDE DEF Small
    <3>2. h[s] = IF s = {} THEN base ELSE next[<<g[s \ {pick[s]}], pick[s]>>]
      BY <3>1
    <3>3. g[s] = IF s = {} THEN base ELSE next[<<g[s \ {pick[s]}], pick[s]>>]
      BY <2>1, <2>3
    <3> QED BY <3>1, <3>2, <3>3
  <2>4. Upto(n + 1, h)  BY <2>2, <2>3
  <2> HIDE DEF Upto, h
  <2> QED BY <2>4
<1>4. Nat \subseteq T
  <2> HIDE DEF T
  <2> QED BY <1>2, <1>3, NumberInduction
<1>5. Cardinality(S) \in Nat /\ Small(Cardinality(S)) = SUBSET S
  <2>1. \A s \in SUBSET S : Cardinality(s) <= Cardinality(S)  BY FS_Subset
  <2> QED BY <1>1, <2>1
<1>6. PICK g : Upto(Cardinality(S), g)  BY <1>4, <1>5
<1>7. Folding(S, base, next, pick, g)  BY <1>5, <1>6 DEF Folding
<1> QED BY <1>7

(* Every one stays in a set that next does not leave. *)
LEMMA FoldStays ==
    ASSUME NEW S, IsFiniteSet(S), NEW base, NEW next, NEW pick,
           \A s \in SUBSET S : s # {} => pick[s] \in s,
           NEW f, Folding(S, base, next, pick, f), NEW A, base \in A,
           \A a \in A, x \in S : next[<<a, x>>] \in A
    PROVE  \A s \in SUBSET S : f[s] \in A
<1> DEFINE T == {s \in SUBSET S : f[s] \in A}
<1>1. \A s \in SUBSET S :
          f[s] = IF s = {} THEN base ELSE next[<<f[s \ {pick[s]}], pick[s]>>]
    BY DEF Folding
<1>2. {} \in T  BY <1>1
<1>3. \A s \in SUBSET S : s # {} => \E x \in s : s \ {x} \in T => s \in T
  <2> SUFFICES ASSUME NEW s \in SUBSET S, s # {}
               PROVE  pick[s] \in s /\ (s \ {pick[s]} \in T => s \in T)
      OBVIOUS
  <2> QED BY <1>1
<1>4. SUBSET S \subseteq T
  <2> HIDE DEF T
  <2> QED BY <1>2, <1>3, SubsetInduction
<1> QED BY <1>4

(* The greatest of finitely many numbers. *)
LEMMA GreatestExists ==
    ASSUME NEW S \in SUBSET Int, IsFiniteSet(S), S # {}
    PROVE  Max(S) \in S /\ \A y \in S : Max(S) >= y
<1> DEFINE R == {p \in S \X S : p[1] < p[2]}
<1>1. \A x, y \in S : <<x, y>> \in R <=> x < y  OBVIOUS
<1>2. \A x, y, z \in S : <<x, y>> \in R /\ <<y, z>> \in R => <<x, z>> \in R
    BY <1>1
<1>3. \A x, y \in S : x = y \/ <<x, y>> \in R \/ <<y, x>> \in R
  <2>1. \A x, y \in S : x = y \/ x < y \/ y < x  OBVIOUS
  <2> HIDE DEF R
  <2> QED BY <1>1, <2>1
<1> HIDE DEF R
<1>4. PICK x \in S : \A y \in S \ {x} : <<y, x>> \in R
    BY <1>2, <1>3, ExtremeExists
<1>5. ASSUME NEW y \in S  PROVE x >= y
  <2>1. x \in Int /\ y \in Int  OBVIOUS
  <2>2. y = x \/ y < x  BY <1>1, <1>4
  <2> QED BY <2>1, <2>2
<1> QED BY <1>5 DEF Max

-----------------------------------------------------------------------------
(* The places of a sequence, and the last of some of them. *)
LastPlace(s) == [places \in SUBSET DOMAIN s |-> Max(places)]

(* The places of a sequence, and the greatest of some of them. *)
LEMMA PlacesOf ==
    ASSUME NEW A, NEW s \in Seq(A)
    PROVE  /\ DOMAIN s = 1 .. Len(s) /\ Len(s) \in Nat
           /\ IsFiniteSet(DOMAIN s) /\ DOMAIN s \subseteq Nat
           /\ \A i \in DOMAIN s : s[i] \in A
           /\ \A places \in SUBSET DOMAIN s :
                  places # {} => /\ LastPlace(s)[places] \in places
                                 /\ Max(places) = LastPlace(s)[places]
                                 /\ \A i \in places : i <= Max(places)
<1>1. DOMAIN s = 1 .. Len(s) /\ Len(s) \in Nat /\ \A i \in DOMAIN s : s[i] \in A
    OBVIOUS
<1>2. IsFiniteSet(1 .. Len(s))  BY <1>1, FS_Interval
<1>3. ASSUME NEW places \in SUBSET DOMAIN s, places # {}
      PROVE  Max(places) \in places /\ \A i \in places : i <= Max(places)
  <2>1. IsFiniteSet(places) /\ places \in SUBSET Int  BY <1>1, <1>2, FS_Subset
  <2>2. Max(places) \in places /\ \A i \in places : Max(places) >= i
      BY <1>3, <2>1, GreatestExists
  <2> QED BY <2>1, <2>2
<1> QED BY <1>1, <1>2, <1>3 DEF LastPlace

(* Steps that do not leave a set. *)
Closed(A, X, next) == \A a \in A, x \in X : next[<<a, x>>] \in A

(* A fold over a sequence, as the fold of the library computes it: over
   the places of the sequence, the last of them outermost. *)
Unfolding(list, base, next, g) ==
    g = [s \in SUBSET DOMAIN list |->
            IF s = {} THEN base ELSE next[<<g[s \ {Max(s)}], list[Max(s)]>>]]

(* A function that the equation of a fold determines exists. *)
LEMMA UnfoldingExists ==
    ASSUME NEW X, NEW list \in Seq(X), NEW A, NEW base, base \in A, NEW next, Closed(A, X, next)
    PROVE  \E g : /\ Unfolding(list, base, next, g)
                  /\ \A s \in SUBSET DOMAIN list :
                        s # {} => g[s \ {Max(s)}] \in A /\ list[Max(s)] \in X
<1> DEFINE S == DOMAIN list
           pick == LastPlace(list)
           turn == [p \in A \X S |-> next[<<p[1], list[p[2]]>>]]
<1>1. /\ IsFiniteSet(S)
      /\ \A i \in S : list[i] \in X
      /\ \A s \in SUBSET S : s # {} => pick[s] \in s /\ Max(s) = pick[s]
    BY PlacesOf
<1>2. \A a \in A, i \in S : turn[<<a, i>>] = next[<<a, list[i]>>] /\ turn[<<a, i>>] \in A
    BY <1>1 DEF Closed
<1> HIDE DEF S, pick, turn
<1>3. \A s \in SUBSET S : s # {} => pick[s] \in s  BY <1>1
<1>4. \A a \in A, x \in S : turn[<<a, x>>] \in A  BY <1>2
<1>5. PICK g : Folding(S, base, turn, pick, g)  BY <1>1, <1>3, FoldExists
<1>6. \A s \in SUBSET S : g[s] \in A
  <2>1. IsFiniteSet(S)  BY <1>1
  <2>2. base \in A  OBVIOUS
  <2> QED BY <1>3, <1>4, <1>5, <2>1, <2>2, FoldStays, Zenon
<1>7. ASSUME NEW s \in SUBSET S, s # {}
      PROVE  /\ g[s \ {Max(s)}] \in A /\ list[Max(s)] \in X
             /\ turn[<<g[s \ {pick[s]}], pick[s]>>] = next[<<g[s \ {Max(s)}], list[Max(s)]>>]
  <2>1. g[s \ {Max(s)}] \in A /\ Max(s) \in S /\ Max(s) = pick[s]
      BY <1>1, <1>6, <1>7
  <2>2. list[Max(s)] \in X  BY <1>1, <2>1
  <2>3. turn[<<g[s \ {Max(s)}], Max(s)>>] = next[<<g[s \ {Max(s)}], list[Max(s)]>>]
      BY <1>2, <2>1
  <2> QED BY <2>1, <2>2, <2>3
<1>8. Unfolding(list, base, next, g)  BY <1>5, <1>7 DEF Folding, Unfolding, S
<1> QED BY <1>7, <1>8 DEF S

(* What it gives, taking the elements one after another. *)
Taking(list, A, base, next, sofar) ==
    /\ sofar \in [0 .. Len(list) -> A]
    /\ sofar[0] = base
    /\ \A n \in 0 .. Len(list) - 1 : sofar[n + 1] = next[<<sofar[n], list[n + 1]>>]

(* What the equation of a fold says where its operation is known. *)
Unfolded(list, X, A, base, next, g) ==
    /\ g[{}] = base
    /\ \A s \in SUBSET DOMAIN list :
           s # {} /\ g[s \ {Max(s)}] \in A /\ list[Max(s)] \in X
               => g[s] = next[<<g[s \ {Max(s)}], list[Max(s)]>>]

(* A fold unfolded takes the elements of its sequence one after the other. *)
LEMMA UnfoldingTakes ==
    ASSUME NEW X, NEW list \in Seq(X), NEW A, NEW base, base \in A, NEW next, Closed(A, X, next),
           NEW g, Unfolded(list, X, A, base, next, g)
    PROVE  \E sofar : /\ Taking(list, A, base, next, sofar)
                      /\ g[DOMAIN list] = sofar[Len(list)]
<1> DEFINE k == Len(list)
           S == DOMAIN list
           sofar == [n \in 0 .. k |-> g[1 .. n]]
           T == {n \in Nat : n \in 0 .. k => g[1 .. n] \in A}
<1>1. /\ S = 1 .. k /\ k \in Nat
      /\ \A i \in S : list[i] \in X
      /\ \A s \in SUBSET S : s # {} => Max(s) \in s /\ \A i \in s : i <= Max(s)
    BY PlacesOf
<1>2. ASSUME NEW n \in 0 .. k - 1, g[1 .. n] \in A
      PROVE  g[1 .. n + 1] = next[<<g[1 .. n], list[n + 1]>>] /\ list[n + 1] \in X
  <2> DEFINE s == 1 .. n + 1
  <2> HIDE DEF k, S
  <2>1. s \in SUBSET S /\ s # {} /\ n + 1 \in s /\ n + 1 \in S
    <3>1. S = 1 .. k /\ k \in Nat  BY <1>1
    <3>2. n \in Nat /\ n + 1 <= k  BY <3>1
    <3>3. n + 1 \in s /\ n + 1 \in S  BY <3>1, <3>2
    <3>4. \A i \in s : i \in S  BY <3>1, <3>2
    <3> QED BY <3>3, <3>4
  <2>2. Max(s) = n + 1
    <3>1. Max(s) \in s /\ n + 1 <= Max(s)  BY <1>1, <2>1
    <3> QED BY <1>1, <3>1
  <2>3. s \ {n + 1} = 1 .. n  BY <1>1
  <2>4. list[n + 1] \in X  BY <1>1, <2>1
  <2> HIDE DEF s
  <2>5. g[s] = next[<<g[1 .. n], list[n + 1]>>]
      BY <1>2, <2>1, <2>2, <2>3, <2>4 DEF Unfolded, S
  <2> QED BY <2>4, <2>5 DEF s
<1>3. g[1 .. 0] = base /\ 0 \in T
  <2>1. 1 .. 0 = {}  OBVIOUS
  <2> QED BY <2>1 DEF Unfolded
<1>4. ASSUME NEW n \in Nat, n \in T  PROVE n + 1 \in T
  <2> SUFFICES ASSUME n + 1 \in 0 .. k  PROVE g[1 .. n + 1] \in A  BY <1>4
  <2>1. n \in 0 .. k - 1 /\ g[1 .. n] \in A  BY <1>1, <1>4
  <2> HIDE DEF k, T
  <2>2. g[1 .. n + 1] = next[<<g[1 .. n], list[n + 1]>>] /\ list[n + 1] \in X
      BY <1>2, <2>1
  <2>3. next[<<g[1 .. n], list[n + 1]>>] \in A  BY <2>1, <2>2 DEF Closed
  <2> QED BY <2>2, <2>3
<1>5. Nat \subseteq T
  <2> HIDE DEF T
  <2> QED BY <1>3, <1>4, NumberInduction
<1>6. \A n \in 0 .. k : g[1 .. n] \in A  BY <1>1, <1>5
<1> HIDE DEF k, T
<1>7. sofar \in [0 .. k -> A] /\ sofar[0] = base /\ g[S] = sofar[k]
    BY <1>1, <1>3, <1>6
<1>8. \A n \in 0 .. k - 1 : sofar[n + 1] = next[<<sofar[n], list[n + 1]>>]
    BY <1>1, <1>2, <1>6
<1> HIDE DEF sofar
<1>9. Taking(list, A, base, next, sofar)  BY <1>7, <1>8 DEF Taking, k
<1> QED BY <1>7, <1>9 DEF k, S

(* Any fold of the library is one: it chooses a function that unfolds its
   steps, and there is one. *)
UnfoldingIn(list, X, A, base, next, f) ==
    /\ Unfolding(list, base, next, f)
    /\ \A s \in SUBSET DOMAIN list :
           s # {} => f[s \ {Max(s)}] \in A /\ list[Max(s)] \in X

(* So does the fold the community modules choose, whichever it is. *)
LEMMA FoldTakes ==
    ASSUME NEW X, NEW list \in Seq(X), NEW A, NEW base, base \in A, NEW next, Closed(A, X, next),
           NEW g, \A f : UnfoldingIn(list, X, A, base, next, f) => Unfolded(list, X, A, base, next, g)
    PROVE  \E sofar : Taking(list, A, base, next, sofar) /\ g[DOMAIN list] = sofar[Len(list)]
<1>1. \E f : UnfoldingIn(list, X, A, base, next, f)
    BY UnfoldingExists DEF UnfoldingIn
<1>2. Unfolded(list, X, A, base, next, g)  BY <1>1
<1> QED BY <1>2, UnfoldingTakes

-----------------------------------------------------------------------------
(* Evaluation runs. *)

(* Going through the dataset, the cases of S are kept. *)
Keeping(cases, S, kept) ==
    /\ kept \in [0 .. Len(cases) -> Seq(S)]
    /\ kept[0] = <<>>
    /\ \A n \in 0 .. Len(cases) - 1 :
           kept[n + 1] = IF cases[n + 1] \in S THEN Append(kept[n], cases[n + 1]) ELSE kept[n]

(* CasesAmong goes through the cases one after the other. *)
LEMMA AmongTakes ==
    ASSUME NEW S, NEW list, list \in Seq(Range(list))
    PROVE  \E fold : Keeping(list, S, fold) /\ CasesAmong(list, S) = fold[Len(list)]
<1> DEFINE
      X == Range(list)
      B == Seq(S)
      base == <<>>
      Op(kept, case) == IF case \in S THEN Append(kept, case) ELSE kept
      next == [p \in B \X X |-> Op(p[1], p[2])]
      F(f) == f = [s \in SUBSET DOMAIN list |->
                      IF s = {} THEN base ELSE Op(f[s \ {Max(s)}], list[Max(s)])]
      g == CHOOSE f : F(f)
<1>1. CasesAmong(list, S) = g[DOMAIN list]
    BY DEF CasesAmong, FoldLeft, MapThenFoldSet
<1>2. base \in B /\ list \in Seq(X)  OBVIOUS
<1>3. \A a \in B, x \in X : Op(a, x) \in B  OBVIOUS
<1> HIDE DEF B, X, Op, base
<1>4. \A a \in B, x \in X : next[<<a, x>>] = Op(a, x) /\ Op(a, x) \in B
    BY <1>3
<1> HIDE DEF next
<1>5. Closed(B, X, next)  BY <1>4 DEF Closed
<1>6. ASSUME NEW f, UnfoldingIn(list, X, B, base, next, f)  PROVE Unfolded(list, X, B, base, next, g)
  <2>1. F(f)  BY <1>4, <1>6 DEF UnfoldingIn, Unfolding
  <2> HIDE DEF F
  <2>2. F(g)  BY <2>1
  <2> HIDE DEF g
  <2> QED BY <1>4, <2>2 DEF Unfolded, F
<1> HIDE DEF F, g
<1>7. PICK fold : Taking(list, B, base, next, fold) /\ g[DOMAIN list] = fold[Len(list)]
    BY <1>2, <1>5, <1>6, FoldTakes
<1>8. ASSUME NEW n \in 0 .. Len(list) - 1  PROVE fold[n + 1] = Op(fold[n], list[n + 1])
  <2>1. fold[n] \in B /\ list[n + 1] \in X  BY <1>2, <1>7 DEF Taking
  <2> QED BY <1>4, <1>7, <2>1 DEF Taking
<1>9. Keeping(list, S, fold)  BY <1>7, <1>8 DEF Keeping, Taking, Op, B, base
<1> QED BY <1>1, <1>7, <1>9

(* The first k of a list. *)
LEMMA TopIs ==
    ASSUME NEW A, NEW s \in Seq(A), NEW k \in Nat
    PROVE  /\ Top(s, k) \in Seq(A)
           /\ Len(s) < k => Len(Top(s, k)) = Len(s)
           /\ Len(s) >= k => Len(Top(s, k)) = k
           /\ Len(Top(s, k)) \in Nat
           /\ \A i \in 1 .. Len(Top(s, k)) : Top(s, k)[i] = s[i]
<1> DEFINE n == IF Len(s) < k THEN Len(s) ELSE k
<1>1. Len(s) \in Nat /\ n \in Nat /\ n <= Len(s) /\ \A i \in 1 .. n : s[i] \in A
    OBVIOUS
<1>2. Top(s, k) = SubSeq(s, 1, n)  BY DEF Top
<1>3. /\ SubSeq(s, 1, n) \in Seq(A)
      /\ Len(SubSeq(s, 1, n)) = IF 1 <= n THEN n - 1 + 1 ELSE 0
      /\ \A i \in 1 .. n - 1 + 1 : SubSeq(s, 1, n)[i] = s[1 + i - 1]
  <2> HIDE DEF n
  <2> QED BY <1>1, SubSeqProperties
<1>4. Len(SubSeq(s, 1, n)) = n  BY <1>1, <1>3
<1>5. \A i \in 1 .. n : SubSeq(s, 1, n)[i] = s[i]
  <2> TAKE i \in 1 .. n
  <2>1. i \in 1 .. n - 1 + 1 /\ 1 + i - 1 = i  BY <1>1
  <2> QED BY <1>3, <2>1
<1> QED BY <1>1, <1>2, <1>3, <1>4, <1>5

(* No case is in the list twice. *)
Single(cases) ==
    /\ cases \in Seq(Range(cases))
    /\ \A i, j \in DOMAIN cases : cases[i].id = cases[j].id => i = j

(* What was kept of the first n cases begins all that is kept; and a case
   kept is one of those, the next case is not. *)
KeptOf(cases, S, all, kept, n) ==
    /\ Len(kept) \in Nat /\ Len(kept) <= Len(all)
    /\ \A i \in 1 .. Len(kept) : /\ kept[i] = all[i]
                                 /\ kept[i] \in S
                                 /\ \E j \in 1 .. n : kept[i] = cases[j]

(* What is kept of the first n cases stays kept, and no case is kept twice. *)
LEMMA KeepingExtends ==
    ASSUME NEW cases, Single(cases), NEW S, NEW kept, Keeping(cases, S, kept)
    PROVE  \A n \in 0 .. Len(cases) : KeptOf(cases, S, kept[Len(cases)], kept[n], n)
<1> DEFINE k == Len(cases)
           Sound(n) == /\ Len(kept[n]) \in Nat
                       /\ \A i \in 1 .. Len(kept[n]) :
                              kept[n][i] \in S /\ \E j \in 1 .. n : kept[n][i] = cases[j]
           Begins(m, n) == /\ Len(kept[m]) <= Len(kept[n])
                           /\ \A i \in 1 .. Len(kept[m]) : kept[m][i] = kept[n][i]
           T == {n \in Nat : n \in 0 .. k => Sound(n) /\ \A m \in 0 .. n : Begins(m, n)}
<1>1. k \in Nat  BY DEF Single
<1>2. /\ kept[0] = <<>>
      /\ \A n \in 0 .. k : kept[n] \in Seq(S)
      /\ \A n \in 0 .. k - 1 :
             kept[n + 1] = IF cases[n + 1] \in S THEN Append(kept[n], cases[n + 1]) ELSE kept[n]
    BY DEF Keeping
<1>3. 0 \in T
  <2>1. Sound(0) /\ Begins(0, 0)  BY <1>1, <1>2
  <2>2. \A m \in 0 .. 0 : m = 0  OBVIOUS
  <2> HIDE DEF Sound, Begins
  <2> QED BY <2>1, <2>2
<1>4. ASSUME NEW n \in Nat, n \in T  PROVE n + 1 \in T
  <2> SUFFICES ASSUME n + 1 \in 0 .. k
               PROVE  Sound(n + 1) /\ \A m \in 0 .. n + 1 : Begins(m, n + 1)
      OBVIOUS
  <2>1. n \in 0 .. k - 1 /\ n \in 0 .. k  BY <1>1
  <2>2. Sound(n) /\ \A m \in 0 .. n : Begins(m, n)  BY <1>4, <2>1
  <2>3. kept[n] \in Seq(S) /\ kept[n + 1] \in Seq(S)  BY <1>2
  <2>4. Sound(n + 1) /\ Begins(n, n + 1)
    <3>1. CASE cases[n + 1] \in S
      <4>1. kept[n + 1] = Append(kept[n], cases[n + 1])  BY <1>2, <2>1, <3>1
      <4>2. /\ Len(kept[n + 1]) = Len(kept[n]) + 1
            /\ \A i \in 1 .. Len(kept[n]) : kept[n + 1][i] = kept[n][i]
            /\ kept[n + 1][Len(kept[n]) + 1] = cases[n + 1]
          BY <2>3, <3>1, <4>1
      <4>3. Begins(n, n + 1)  BY <2>2, <4>2
      <4>4. ASSUME NEW i \in 1 .. Len(kept[n + 1])
            PROVE  kept[n + 1][i] \in S /\ \E j \in 1 .. n + 1 : kept[n + 1][i] = cases[j]
        <5>1. CASE i = Len(kept[n]) + 1  BY <3>1, <4>2, <5>1
        <5>2. CASE i # Len(kept[n]) + 1
          <6>1. i \in 1 .. Len(kept[n])  BY <2>2, <4>2, <5>2
          <6>2. PICK j \in 1 .. n : kept[n][i] = cases[j]  BY <2>2, <6>1
          <6>3. j \in 1 .. n + 1 /\ kept[n + 1][i] = cases[j]
              BY <4>2, <6>1, <6>2
          <6> QED BY <2>2, <4>2, <6>1, <6>3
        <5> QED BY <5>1, <5>2
      <4> QED BY <2>2, <4>2, <4>3, <4>4
    <3>2. CASE cases[n + 1] \notin S
      <4>1. kept[n + 1] = kept[n]  BY <1>2, <2>1, <3>2
      <4>2. \A j \in 1 .. n : j \in 1 .. n + 1  OBVIOUS
      <4> QED BY <2>2, <4>1, <4>2
    <3> QED BY <3>1, <3>2
  <2>5. ASSUME NEW m \in 0 .. n + 1  PROVE Begins(m, n + 1)
    <3>1. CASE m = n + 1
      <4>1. Len(kept[n + 1]) \in Nat  BY <2>3
      <4> QED BY <3>1, <4>1
    <3>2. CASE m # n + 1
      <4>1. m \in 0 .. n /\ m \in 0 .. k  BY <1>1, <2>1, <3>2
      <4>2. Begins(m, n)  BY <2>2, <4>1
      <4>3. Len(kept[m]) \in Nat /\ Len(kept[n]) \in Nat /\ Len(kept[n + 1]) \in Nat
          BY <1>2, <2>3, <4>1
      <4>4. Len(kept[m]) <= Len(kept[n + 1])  BY <2>4, <4>2, <4>3
      <4>5. ASSUME NEW i \in 1 .. Len(kept[m])  PROVE kept[m][i] = kept[n + 1][i]
        <5>1. i \in 1 .. Len(kept[n])  BY <4>2, <4>3
        <5> QED BY <2>4, <4>2, <5>1
      <4> QED BY <4>4, <4>5
    <3> QED BY <3>1, <3>2
  <2> QED BY <2>4, <2>5
<1>5. Nat \subseteq T
  <2> HIDE DEF T
  <2> QED BY <1>3, <1>4, NumberInduction
<1>6. k \in T /\ \A n \in 0 .. k : n \in T  BY <1>1, <1>5
<1>7. \A n \in 0 .. k : Sound(n) /\ Begins(n, k)
  <2> HIDE DEF Sound, Begins
  <2> QED BY <1>1, <1>6
<1> QED BY <1>7 DEF KeptOf

(* Choosing the first cases of a mode and executing the cases with their
   ids is the same: ids are of one case each. *)
WithIds(cases, ids) == {c \in Range(cases) : c.id \in Range(ids)}

(* The cases with the ids of the chosen cases are the chosen cases. *)
LEMMA ChosenAreExecuted ==
    ASSUME NEW cases, Single(cases), NEW S, NEW limit \in Nat, NEW ids,
           ids = Ids(Top(CasesAmong(cases, S), limit))
    PROVE  CasesAmong(cases, WithIds(cases, ids)) = Top(CasesAmong(cases, S), limit)
<1> DEFINE k == Len(cases)
           R == WithIds(cases, ids)
<1>1. cases \in Seq(Range(cases)) /\ k \in Nat /\ DOMAIN cases = 1 .. k
    BY DEF Single
<1>2. PICK kept : Keeping(cases, S, kept) /\ CasesAmong(cases, S) = kept[k]
    BY <1>1, AmongTakes
<1>3. PICK again : Keeping(cases, R, again) /\ CasesAmong(cases, R) = again[k]
  <2> HIDE DEF R
  <2> QED BY <1>1, AmongTakes
<1> DEFINE all == kept[k]
           top == Top(all, limit)
           T == {n \in Nat : n \in 0 .. k => again[n] = Top(kept[n], limit)}
<1>4. /\ \A n \in 0 .. k : KeptOf(cases, S, all, kept[n], n)
      /\ \A n \in 0 .. k : kept[n] \in Seq(S)
      /\ kept[0] = <<>>
      /\ \A n \in 0 .. k - 1 :
             kept[n + 1] = IF cases[n + 1] \in S THEN Append(kept[n], cases[n + 1]) ELSE kept[n]
    BY <1>2, KeepingExtends DEF Keeping
<1>5. /\ again[0] = <<>>
      /\ \A n \in 0 .. k : again[n] \in Seq(R)
      /\ \A n \in 0 .. k - 1 :
             again[n + 1] = IF cases[n + 1] \in R THEN Append(again[n], cases[n + 1]) ELSE again[n]
    BY <1>3 DEF Keeping
<1>6. /\ top \in Seq(S) /\ Len(top) \in Nat
      /\ Len(all) < limit => Len(top) = Len(all)
      /\ Len(all) >= limit => Len(top) = limit
      /\ \A i \in 1 .. Len(top) : top[i] = all[i]
  <2>1. all \in Seq(S)  BY <1>1, <1>4
  <2> HIDE DEF all
  <2> QED BY <2>1, TopIs
<1>7. \A i \in 1 .. k : cases[i] \in R <=> \E j \in 1 .. Len(top) : cases[i].id = top[j].id
  <2>1. ids = Ids(top)  BY <1>2
  <2>2. DOMAIN top = 1 .. Len(top)  BY <1>6
  <2>3. Range(ids) = {top[j].id : j \in 1 .. Len(top)}
    <3> HIDE DEF top
    <3> QED BY <2>1, <2>2 DEF Ids, Range
  <2>4. \A i \in 1 .. k : cases[i] \in Range(cases)  BY <1>1 DEF Range
  <2> HIDE DEF top
  <2> QED BY <2>3, <2>4 DEF WithIds
<1>8. \A i, j \in 1 .. k : cases[i].id = cases[j].id => i = j
    BY <1>1 DEF Single
<1>9. KeptOf(cases, S, all, all, k)  BY <1>1, <1>4
<1> HIDE DEF R, top, all
<1>10. \A i \in 1 .. Len(all) : all[i] \in S /\ \E j \in 1 .. k : all[i] = cases[j]
    BY <1>9 DEF KeptOf
<1>11. 0 \in T
  <2>1. Top(<<>>, limit) = <<>>
    <3>1. <<>> \in Seq(S)  OBVIOUS
    <3>2. /\ Top(<<>>, limit) \in Seq(S)
          /\ Len(<<>>) < limit => Len(Top(<<>>, limit)) = Len(<<>>)
          /\ Len(<<>>) >= limit => Len(Top(<<>>, limit)) = limit
        BY <3>1, TopIs
    <3>3. Len(<<>>) = 0 /\ limit \in Nat  OBVIOUS
    <3>4. Len(Top(<<>>, limit)) = 0  BY <3>2, <3>3
    <3> QED BY <3>2, <3>4
  <2> QED BY <1>4, <1>5, <2>1
<1>12. ASSUME NEW n \in Nat, n \in T  PROVE n + 1 \in T
  <2> SUFFICES ASSUME n + 1 \in 0 .. k  PROVE again[n + 1] = Top(kept[n + 1], limit)
      OBVIOUS
  <2> DEFINE x == cases[n + 1]
             l == Len(kept[n])
  <2>1. n \in 0 .. k - 1 /\ n \in 0 .. k /\ n + 1 \in 1 .. k  BY <1>1
  <2>2. again[n] = Top(kept[n], limit)  BY <1>12, <2>1
  <2>3. /\ kept[n] \in Seq(S) /\ kept[n + 1] \in Seq(S) /\ l \in Nat
        /\ Len(all) \in Nat /\ l <= Len(all)
        /\ \A i \in 1 .. l : kept[n][i] = all[i] /\ \E j \in 1 .. n : kept[n][i] = cases[j]
        /\ \A i \in 1 .. Len(kept[n + 1]) : kept[n + 1][i] = all[i]
        /\ Len(kept[n + 1]) <= Len(all)
    <3>1. KeptOf(cases, S, all, kept[n], n) /\ KeptOf(cases, S, all, kept[n + 1], n + 1)
        BY <1>4, <2>1
    <3>2. Len(all) \in Nat  BY <1>9 DEF KeptOf
    <3> QED BY <1>4, <2>1, <3>1, <3>2 DEF KeptOf
  <2>4. again[n + 1] = IF x \in R THEN Append(again[n], x) ELSE again[n]
      BY <1>5, <2>1
  <2>5. kept[n + 1] = IF x \in S THEN Append(kept[n], x) ELSE kept[n]
      BY <1>4, <2>1
  <2>6. x \in R <=> \E j \in 1 .. Len(top) : x.id = top[j].id  BY <1>7, <2>1
  <2> HIDE DEF T
  <2>7. CASE x \in S /\ l < limit
    <3>1. kept[n + 1] = Append(kept[n], x) /\ Len(kept[n + 1]) = l + 1
          /\ kept[n + 1][l + 1] = x
        BY <2>3, <2>5, <2>7
    <3>2. all[l + 1] = x /\ l + 1 <= Len(all)  BY <2>3, <3>1
    <3>3. l + 1 \in 1 .. Len(top) /\ top[l + 1] = x  BY <1>6, <2>3, <2>7, <3>2
    <3>4. x \in R  BY <2>6, <3>3
    <3>5. again[n + 1] = Append(Top(kept[n], limit), x)  BY <2>2, <2>4, <3>4
    <3>6. Top(kept[n], limit) = kept[n]
      <4>1. /\ Top(kept[n], limit) \in Seq(S) /\ Len(Top(kept[n], limit)) = l
            /\ \A i \in 1 .. l : Top(kept[n], limit)[i] = kept[n][i]
          BY <2>3, <2>7, TopIs
      <4> QED BY <2>3, <4>1, SeqEqual
    <3>7. Top(kept[n + 1], limit) = kept[n + 1]
      <4>1. /\ Top(kept[n + 1], limit) \in Seq(S) 
            /\ Len(kept[n + 1]) < limit => Len(Top(kept[n + 1], limit)) = Len(kept[n + 1])
            /\ Len(kept[n + 1]) >= limit => Len(Top(kept[n + 1], limit)) = limit
            /\ \A i \in 1 .. Len(Top(kept[n + 1], limit)) :
                   Top(kept[n + 1], limit)[i] = kept[n + 1][i]
          BY <2>3, TopIs
      <4>2. Len(Top(kept[n + 1], limit)) = Len(kept[n + 1])
          BY <2>3, <2>7, <3>1, <4>1
      <4> QED BY <2>3, <4>1, <4>2, SeqEqual
    <3> QED BY <3>1, <3>5, <3>6, <3>7
  <2>8. CASE x \in S /\ ~(l < limit)
    <3>1. kept[n + 1] = Append(kept[n], x) /\ Len(kept[n + 1]) = l + 1
          /\ \A i \in 1 .. l : kept[n + 1][i] = kept[n][i]
        BY <2>3, <2>5, <2>8
    <3>2. x \notin R
      <4> SUFFICES ASSUME NEW j \in 1 .. Len(top), x.id = top[j].id  PROVE FALSE
          BY <2>6
      <4>1. Len(top) = limit /\ limit <= l  BY <1>6, <2>3, <2>8
      <4>2. j \in 1 .. l /\ top[j] = kept[n][j]  BY <1>6, <2>3, <4>1
      <4>3. PICK i \in 1 .. n : kept[n][j] = cases[i]  BY <2>3, <4>2
      <4>4. i \in 1 .. k /\ cases[i].id = cases[n + 1].id
          BY <1>1, <2>1, <4>2, <4>3
      <4>5. i = n + 1  BY <1>8, <2>1, <4>4
      <4> QED BY <4>5
    <3>3. Top(kept[n + 1], limit) = Top(kept[n], limit)
      <4>1. /\ Top(kept[n], limit) \in Seq(S) /\ Len(Top(kept[n], limit)) = limit
            /\ \A i \in 1 .. limit : Top(kept[n], limit)[i] = kept[n][i]
        <5>1. Len(kept[n]) >= limit  BY <2>3, <2>8
        <5> QED BY <2>3, <5>1, TopIs
      <4>2. /\ Top(kept[n + 1], limit) \in Seq(S) /\ Len(Top(kept[n + 1], limit)) = limit
            /\ \A i \in 1 .. limit : Top(kept[n + 1], limit)[i] = kept[n + 1][i]
        <5>1. Len(kept[n + 1]) >= limit  BY <2>3, <2>8, <3>1
        <5> QED BY <2>3, <5>1, TopIs
      <4>3. \A i \in 1 .. limit : Top(kept[n + 1], limit)[i] = Top(kept[n], limit)[i]
        <5>1. \A i \in 1 .. limit : i \in 1 .. l  BY <2>3, <2>8
        <5> QED BY <3>1, <4>1, <4>2, <5>1
      <4> QED BY <4>1, <4>2, <4>3, SeqEqual
    <3> QED BY <2>2, <2>4, <3>2, <3>3
  <2>9. CASE x \notin S
    <3>1. x \notin R
      <4> SUFFICES ASSUME NEW j \in 1 .. Len(top), x.id = top[j].id  PROVE FALSE
          BY <2>6
      <4>1. j \in 1 .. Len(all) /\ top[j] = all[j]  BY <1>6, <2>3
      <4>2. PICK i \in 1 .. k : all[j] = cases[i]  BY <1>10, <4>1
      <4>3. i = n + 1  BY <1>8, <2>1, <4>1, <4>2
      <4> QED BY <1>10, <2>9, <4>1, <4>2, <4>3
    <3> QED BY <2>2, <2>4, <2>5, <2>9, <3>1
  <2> QED BY <2>7, <2>8, <2>9
<1>13. Nat \subseteq T
  <2> HIDE DEF T
  <2> QED BY <1>11, <1>12, NumberInduction
<1>14. again[k] = Top(kept[k], limit)  BY <1>1, <1>13
<1> QED BY <1>2, <1>3, <1>14 DEF R

(* The cases of all datasets, and their ids. *)
GoldenCases == UNION {Range(GoldenSets[g]) : g \in DOMAIN GoldenSets}
CaseIds == {case.id : case \in GoldenCases}

(* The results a task can have. *)
ScoresOf(case) ==
    {[id |-> case.id, metrics |-> Metrics(case, Observed(case, ranked))] :
        ranked \in RankingsOf(case)}

(* The results a run can have. *)
Scored == UNION {ScoresOf(case) : case \in GoldenCases}

(* The records of runs and of their tasks. *)
RunRecord ==
    [status : {"queued", "running", "succeeded", "failed"}, mode : Modes,
     dataset : DOMAIN GoldenSets, cases : Seq(CaseIds), completed : Nat, report : Seq(Scored)]
TaskRecord == [step : {"none", "fetch", "score", "failing"}, results : Seq(Scored)]

(* The type of the runs and of their tasks. *)
RunsTyped ==
    /\ golden \in DOMAIN GoldenSets
    /\ runs \in Seq(RunRecord)
    /\ tasks \in Seq(TaskRecord)
    /\ Len(tasks) = Len(runs)

(* A task works on the cases its run was created with, in their order. *)
WorksOnItsCases ==
    \A r \in RunIds :
        Step(r) \in {"fetch", "score"} =>
            /\ Ids(Executed(r)) = runs[r].cases
            /\ \A n \in DOMAIN tasks[r].results :
                   /\ n \in DOMAIN runs[r].cases
                   /\ tasks[r].results[n].id = runs[r].cases[n]

(* The inductive invariant of the runs. *)
RunsInv == RunsTyped /\ WorksOnItsCases /\ SucceededIsWhole

-----------------------------------------------------------------------------

(* The ids of a list of cases. *)
LEMMA IdsOf ==
    ASSUME NEW A, NEW cases \in Seq(A)
    PROVE  /\ Ids(cases) \in Seq({case.id : case \in A})
           /\ Len(Ids(cases)) = Len(cases)
           /\ DOMAIN Ids(cases) = DOMAIN cases
           /\ \A n \in DOMAIN cases : Ids(cases)[n] = cases[n].id
BY DEF Ids

(* No two cases of a dataset have one id. *)
LEMMA GoldenSingle == \A g \in DOMAIN GoldenSets : Single(GoldenSets[g])
BY GoldenAssumption DEF Single

(* What is selected of a dataset are cases of it. *)
LEMMA AmongGolden ==
    ASSUME NEW g \in DOMAIN GoldenSets, NEW S, S \subseteq Range(GoldenSets[g])
    PROVE  CasesAmong(GoldenSets[g], S) \in Seq(GoldenCases)
<1> DEFINE list == GoldenSets[g]
<1>1. list \in Seq(Range(list)) /\ Range(list) \subseteq GoldenCases
    BY GoldenSingle DEF Single, GoldenCases
<1> HIDE DEF list
<1>2. PICK kept : Keeping(list, S, kept) /\ CasesAmong(list, S) = kept[Len(list)]
    BY <1>1, AmongTakes
<1>3. Len(list) \in 0 .. Len(list)  BY <1>1
<1>4. CasesAmong(list, S) \in Seq(S)  BY <1>2, <1>3 DEF Keeping
<1>5. S \subseteq GoldenCases  BY <1>1 DEF list
<1> QED BY <1>4, <1>5 DEF list

(* A run is created with cases of the dataset that it will be executed on. *)
LEMMA ChosenTyped ==
    ASSUME RunsTyped, NEW mode \in Modes, NEW limit \in 1 .. CaseLimit
    PROVE  /\ Chosen(mode, limit) \in Seq(GoldenCases)
           /\ Ids(Chosen(mode, limit)) \in Seq(CaseIds)
           /\ CasesAmong(Golden, WithIds(Golden, Ids(Chosen(mode, limit)))) = Chosen(mode, limit)
<1> DEFINE S == {c \in Range(Golden) : mode = "all" \/ c.mode = mode}
<1>1. golden \in DOMAIN GoldenSets /\ limit \in Nat
    BY BoundsAssumption DEF RunsTyped
<1>2. CasesAmong(Golden, S) \in Seq(GoldenCases)
    BY <1>1, AmongGolden DEF Golden
<1>3. Chosen(mode, limit) = Top(CasesAmong(Golden, S), limit)  BY DEF Chosen
<1>4. Single(Golden)  BY <1>1, GoldenSingle DEF Golden
<1> HIDE DEF S
<1>5. Chosen(mode, limit) \in Seq(GoldenCases)  BY <1>1, <1>2, <1>3, TopIs
<1>6. CasesAmong(Golden, WithIds(Golden, Ids(Chosen(mode, limit)))) = Chosen(mode, limit)
  <2>1. ASSUME NEW list, Single(list), NEW T, NEW top, top = Top(CasesAmong(list, T), limit)
        PROVE  CasesAmong(list, WithIds(list, Ids(top))) = top
      BY <1>1, <2>1, ChosenAreExecuted
  <2> QED BY <1>3, <1>4, <2>1
<1> QED BY <1>5, <1>6, IdsOf DEF CaseIds

(* A run executes cases of the dataset. *)
LEMMA ExecutedTyped ==
    ASSUME RunsTyped, NEW r
    PROVE  Executed(r) \in Seq(GoldenCases)
BY AmongGolden DEF RunsTyped, Executed, Golden

(* The invariant of the runs holds at first. *)
LEMMA InitRuns == EvaluationInit => RunsInv
<1> SUFFICES ASSUME EvaluationInit  PROVE RunsInv  OBVIOUS
<1>1. runs = <<>> /\ tasks = <<>> /\ golden \in DOMAIN GoldenSets
    BY DEF EvaluationInit
<1>2. RunsTyped /\ RunIds = {}  BY <1>1 DEF RunsTyped, RunIds
<1> QED BY <1>2 DEF RunsInv, WorksOnItsCases, SucceededIsWhole

(* A run that is created works on the cases chosen for it. *)
LEMMA CreateKeepsRuns ==
    ASSUME RunsInv, NEW mode \in Modes, NEW limit \in 1 .. CaseLimit, Create(mode, limit)
    PROVE  RunsInv'
<1> DEFINE cases == Chosen(mode, limit)
           run == [status |-> "queued", mode |-> mode, dataset |-> golden,
                   cases |-> Ids(cases), completed |-> 0, report |-> NoReport]
           new == Len(runs) + 1
<1>0. PICK step \in {"fetch", "none"} :
          tasks' = Append(tasks, [step |-> step, results |-> <<>>])
    BY DEF Create
<1> DEFINE task == [step |-> step, results |-> <<>>]
<1>1. /\ runs' = Append(runs, run) /\ tasks' = Append(tasks, task) /\ golden' = golden
      /\ RunsTyped /\ WorksOnItsCases /\ SucceededIsWhole
    BY <1>0 DEF Create, RunsInv
<1>2. /\ runs \in Seq(RunRecord) /\ tasks \in Seq(TaskRecord) /\ Len(tasks) = Len(runs)
      /\ golden \in DOMAIN GoldenSets
    BY <1>1 DEF RunsTyped
<1>3. Ids(cases) \in Seq(CaseIds) /\ CasesAmong(Golden, WithIds(Golden, Ids(cases))) = cases
    BY <1>1, ChosenTyped
<1>4. run \in RunRecord /\ task \in TaskRecord
    BY <1>2, <1>3 DEF RunRecord, TaskRecord, NoReport
<1>5. /\ run.cases = Ids(cases) /\ run.status = "queued" /\ run.report = NoReport
      /\ task.results = <<>>
    OBVIOUS
<1> HIDE DEF run, task, cases
<1>6. /\ RunsTyped' /\ RunIds' = 1 .. new /\ Len(runs) \in Nat
      /\ \A r \in RunIds : runs'[r] = runs[r] /\ tasks'[r] = tasks[r]
      /\ runs'[new] = run /\ tasks'[new] = task
    BY <1>1, <1>2, <1>4 DEF RunsTyped, RunIds
<1>7. \A r \in RunIds' : r = new \/ r \in RunIds  BY <1>6 DEF RunIds
<1>8. ASSUME NEW r \in RunIds', Step(r)' \in {"fetch", "score"}
      PROVE  (/\ Ids(Executed(r)) = runs[r].cases
              /\ \A n \in DOMAIN tasks[r].results :
                     /\ n \in DOMAIN runs[r].cases
                     /\ tasks[r].results[n].id = runs[r].cases[n])'
  <2>1. CASE r \in RunIds
    <3>1. Executed(r)' = Executed(r) /\ Step(r)' = Step(r)
        BY <1>1, <1>6, <2>1 DEF Executed, Golden, Step
    <3> QED BY <1>1, <1>6, <1>8, <2>1, <3>1 DEF WorksOnItsCases, Ids
  <2>2. CASE r = new
    <3>1. Executed(r)' = CasesAmong(Golden, WithIds(Golden, Ids(cases)))
        BY <1>1, <1>5, <1>6, <2>2 DEF Executed, Golden, WithIds
    <3>2. Ids(Executed(r)') = runs'[r].cases  BY <1>3, <1>5, <1>6, <2>2, <3>1
    <3>3. DOMAIN tasks'[r].results = {}  BY <1>5, <1>6, <2>2
    <3> QED BY <3>2, <3>3 DEF Ids
  <2> QED BY <1>7, <2>1, <2>2
<1>9. SucceededIsWhole'
  <2>1. ASSUME NEW r \in RunIds'
        PROVE  IF runs'[r].status = "succeeded"
               THEN runs'[r].completed = Len(runs'[r].cases) /\ Ids(runs'[r].report) = runs'[r].cases
               ELSE runs'[r].report = NoReport
      BY <1>1, <1>5, <1>6, <1>7 DEF SucceededIsWhole
  <2> QED BY <2>1 DEF SucceededIsWhole, Ids
<1> QED BY <1>6, <1>8, <1>9 DEF RunsInv, WorksOnItsCases

(* What a task does is about its own run. *)
WholeWhenSucceeded(run) ==
    IF run.status = "succeeded"
    THEN run.completed = Len(run.cases) /\ Ids(run.report) = run.cases
    ELSE run.report = NoReport

(* The results so far are those of the first cases. *)
ResultsAreOf(results, cases) ==
    \A n \in DOMAIN results : n \in DOMAIN cases /\ results[n].id = cases[n]

(* What a step of one task has to keep for the invariant to be kept. *)
LEMMA TaskKeepsRuns ==
    ASSUME RunsInv, NEW r \in RunIds, golden' = golden,
           runs' \in Seq(RunRecord), tasks' \in Seq(TaskRecord),
           Len(runs') = Len(runs), Len(tasks') = Len(tasks),
           \A q \in RunIds \ {r} : runs'[q] = runs[q] /\ tasks'[q] = tasks[q],
           runs'[r].cases = runs[r].cases,
           WholeWhenSucceeded(runs'[r]),
           tasks'[r].step \in {"fetch", "score"} =>
               /\ Step(r) \in {"fetch", "score"}
               /\ ResultsAreOf(tasks'[r].results, runs[r].cases)
    PROVE  RunsInv'
<1>1. RunsTyped /\ WorksOnItsCases /\ SucceededIsWhole  BY DEF RunsInv
<1>2. RunsTyped'  BY <1>1 DEF RunsTyped
<1>3. RunIds' = RunIds  BY DEF RunIds
<1>4. ASSUME NEW q \in RunIds
      PROVE  WholeWhenSucceeded(runs'[q])
    BY <1>1 DEF SucceededIsWhole, WholeWhenSucceeded
<1>5. SucceededIsWhole'
    BY <1>3, <1>4 DEF SucceededIsWhole, WholeWhenSucceeded, Ids
<1>6. \A q \in RunIds : Executed(q)' = Executed(q)  BY DEF Executed, Golden
<1>7. ASSUME NEW q \in RunIds, tasks'[q].step \in {"fetch", "score"}
      PROVE  Ids(Executed(q)') = runs'[q].cases /\ ResultsAreOf(tasks'[q].results, runs'[q].cases)
  <2>1. Step(q) \in {"fetch", "score"}  BY <1>7 DEF Step
  <2>2. Ids(Executed(q)) = runs[q].cases /\ ResultsAreOf(tasks[q].results, runs[q].cases)
      BY <1>1, <2>1 DEF WorksOnItsCases, ResultsAreOf
  <2> QED BY <1>6, <1>7, <2>2
<1>8. WorksOnItsCases'
    BY <1>3, <1>7 DEF WorksOnItsCases, ResultsAreOf, Step, Ids
<1> QED BY <1>2, <1>5, <1>8 DEF RunsInv

(* What is known of the run of a task. *)
LEMMA RunKnown ==
    ASSUME RunsInv, NEW r \in RunIds
    PROVE  /\ runs \in Seq(RunRecord) /\ tasks \in Seq(TaskRecord)
           /\ Len(tasks) = Len(runs) /\ DOMAIN runs = RunIds /\ DOMAIN tasks = RunIds
           /\ runs[r] \in RunRecord /\ tasks[r] \in TaskRecord
           /\ WholeWhenSucceeded(runs[r])
           /\ Step(r) \in {"fetch", "score"} =>
                  Ids(Executed(r)) = runs[r].cases /\ ResultsAreOf(tasks[r].results, runs[r].cases)
           /\ Executed(r) \in Seq(GoldenCases)
<1>1. RunsTyped /\ WorksOnItsCases /\ SucceededIsWhole  BY DEF RunsInv
<1>2. /\ runs \in Seq(RunRecord) /\ tasks \in Seq(TaskRecord) /\ Len(tasks) = Len(runs)
      /\ DOMAIN runs = RunIds /\ DOMAIN tasks = RunIds
    BY <1>1 DEF RunsTyped, RunIds
<1> QED BY <1>1, <1>2, ExecutedTyped
        DEF SucceededIsWhole, WholeWhenSucceeded, WorksOnItsCases, ResultsAreOf

(* A sequence with one element replaced. *)
LEMMA OneReplaced ==
    ASSUME NEW A, NEW s \in Seq(A), NEW r \in DOMAIN s, NEW a \in A
    PROVE  LET t == [s EXCEPT ![r] = a] IN
           /\ t \in Seq(A) /\ Len(t) = Len(s)
           /\ \A q \in DOMAIN s \ {r} : t[q] = s[q]
           /\ t[r] = a
OBVIOUS

(* A run that starts keeps the invariant. *)
LEMMA MarkKeepsRuns ==
    ASSUME RunsInv, NEW r \in RunIds, MarkRunning(r)
    PROVE  RunsInv'
<1>1. /\ runs \in Seq(RunRecord) /\ tasks \in Seq(TaskRecord)
      /\ DOMAIN runs = RunIds /\ DOMAIN tasks = RunIds
      /\ runs[r] \in RunRecord /\ tasks[r] \in TaskRecord /\ WholeWhenSucceeded(runs[r])
      /\ golden' = golden /\ Step(r) = "fetch" /\ ResultsAreOf(tasks[r].results, runs[r].cases)
    BY RunKnown DEF MarkRunning
<1>2. PICK step \in {"score", "failing"} : tasks' = [tasks EXCEPT ![r].step = step]
    BY DEF MarkRunning
<1>3. \/ runs' = runs
      \/ runs[r].status = "queued" /\ runs' = [runs EXCEPT ![r].status = "running"]
    BY DEF MarkRunning
<1>4. /\ tasks' \in Seq(TaskRecord) /\ Len(tasks') = Len(tasks)
      /\ \A q \in RunIds \ {r} : tasks'[q] = tasks[q]
      /\ tasks'[r].results = tasks[r].results
  <2> DEFINE task == [tasks[r] EXCEPT !.step = step]
  <2>1. tasks' = [tasks EXCEPT ![r] = task]  BY <1>1, <1>2
  <2>2. task \in TaskRecord /\ task.results = tasks[r].results
      BY <1>1, <1>2 DEF TaskRecord
  <2> HIDE DEF task
  <2> QED BY <1>1, <2>1, <2>2, OneReplaced
<1>5. /\ runs' \in Seq(RunRecord) /\ Len(runs') = Len(runs)
      /\ \A q \in RunIds \ {r} : runs'[q] = runs[q]
      /\ runs'[r].cases = runs[r].cases
      /\ WholeWhenSucceeded(runs'[r])
  <2>1. CASE runs' = runs  BY <1>1, <2>1
  <2>2. CASE runs[r].status = "queued" /\ runs' = [runs EXCEPT ![r].status = "running"]
    <3> DEFINE run == [runs[r] EXCEPT !.status = "running"]
    <3>1. runs' = [runs EXCEPT ![r] = run]  BY <1>1, <2>2
    <3>2. run \in RunRecord /\ run.cases = runs[r].cases /\ WholeWhenSucceeded(run)
        BY <1>1, <2>2 DEF RunRecord, WholeWhenSucceeded
    <3> HIDE DEF run
    <3> QED BY <1>1, <3>1, <3>2, OneReplaced
  <2> QED BY <1>3, <2>1, <2>2
<1> QED BY <1>1, <1>4, <1>5, TaskKeepsRuns

(* A result that is added is that of the next case of the run. *)
LEMMA ScoreKeepsRuns ==
    ASSUME RunsInv, NEW r \in RunIds, ScoreCase(r)
    PROVE  RunsInv'
<1> DEFINE next == Len(tasks[r].results) + 1
           case == Executed(r)[next]
<1>1. /\ runs \in Seq(RunRecord) /\ tasks \in Seq(TaskRecord)
      /\ DOMAIN runs = RunIds /\ DOMAIN tasks = RunIds
      /\ runs[r] \in RunRecord /\ tasks[r] \in TaskRecord /\ WholeWhenSucceeded(runs[r])
      /\ golden' = golden /\ Step(r) = "score"
      /\ ResultsAreOf(tasks[r].results, runs[r].cases)
      /\ Ids(Executed(r)) = runs[r].cases /\ Executed(r) \in Seq(GoldenCases)
      /\ next <= Len(Executed(r))
    BY RunKnown DEF ScoreCase
<1>2. PICK ranked \in RankingsOf(case) :
          tasks' = [tasks EXCEPT ![r].results =
              Append(@, [id |-> case.id, metrics |-> Metrics(case, Observed(case, ranked))])]
    BY DEF ScoreCase
<1> DEFINE result == [id |-> case.id, metrics |-> Metrics(case, Observed(case, ranked))]
           results == tasks[r].results
<1>3. /\ results \in Seq(Scored) /\ next \in Nat /\ next = Len(results) + 1
      /\ next \in DOMAIN Executed(r) /\ case \in GoldenCases
    BY <1>1 DEF TaskRecord
<1>4. result \in Scored /\ result.id = runs[r].cases[next] /\ next \in DOMAIN runs[r].cases
  <2>1. result \in Scored  BY <1>3 DEF Scored, ScoresOf
  <2>2. result.id = case.id  OBVIOUS
  <2> HIDE DEF case, result
  <2> QED BY <1>1, <1>3, <2>1, <2>2, IdsOf DEF case
<1>5. tasks' = [tasks EXCEPT ![r].results = Append(results, result)]  BY <1>2
<1> HIDE DEF result, case, results, next
<1>6. /\ Append(results, result) \in Seq(Scored)
      /\ ResultsAreOf(Append(results, result), runs[r].cases)
  <2>1. ASSUME NEW n \in DOMAIN Append(results, result)
        PROVE  n \in DOMAIN runs[r].cases /\ Append(results, result)[n].id = runs[r].cases[n]
    <3>1. CASE n = next  BY <1>3, <1>4, <3>1
    <3>2. CASE n # next
      <4>1. n \in DOMAIN results /\ Append(results, result)[n] = results[n]
          BY <1>3, <3>2
      <4> QED BY <1>1, <4>1 DEF ResultsAreOf, results
    <3> QED BY <3>1, <3>2
  <2> QED BY <1>3, <1>4, <2>1 DEF ResultsAreOf
<1>7. /\ tasks' \in Seq(TaskRecord) /\ Len(tasks') = Len(tasks)
      /\ \A q \in RunIds \ {r} : tasks'[q] = tasks[q]
      /\ tasks'[r].results = Append(results, result)
  <2> DEFINE task == [tasks[r] EXCEPT !.results = Append(results, result)]
  <2>1. tasks' = [tasks EXCEPT ![r] = task]  BY <1>1, <1>5
  <2>2. task \in TaskRecord /\ task.results = Append(results, result)
      BY <1>1, <1>6 DEF TaskRecord
  <2> HIDE DEF task
  <2> QED BY <1>1, <2>1, <2>2, OneReplaced
<1>8. PICK completed \in Nat : /\ runs' = [runs EXCEPT ![r].completed = completed]
                               /\ runs[r].status # "running" => completed = runs[r].completed
    BY <1>1, <1>3 DEF ScoreCase, RunRecord, next
<1>9. /\ runs' \in Seq(RunRecord) /\ Len(runs') = Len(runs)
      /\ \A q \in RunIds \ {r} : runs'[q] = runs[q]
      /\ runs'[r].cases = runs[r].cases
      /\ WholeWhenSucceeded(runs'[r])
  <2> DEFINE run == [runs[r] EXCEPT !.completed = completed]
  <2>1. runs' = [runs EXCEPT ![r] = run]  BY <1>1, <1>8
  <2>2. run \in RunRecord /\ run.cases = runs[r].cases /\ WholeWhenSucceeded(run)
      BY <1>1, <1>8 DEF RunRecord, WholeWhenSucceeded
  <2> HIDE DEF run
  <2> QED BY <1>1, <2>1, <2>2, OneReplaced
<1> QED BY <1>1, <1>6, <1>7, <1>9, TaskKeepsRuns

(* A run that succeeds has a result for each of its cases. *)
LEMMA SucceedKeepsRuns ==
    ASSUME RunsInv, NEW r \in RunIds, Succeed(r)
    PROVE  RunsInv'
<1> DEFINE results == tasks[r].results
<1>1. /\ runs \in Seq(RunRecord) /\ tasks \in Seq(TaskRecord)
      /\ DOMAIN runs = RunIds /\ DOMAIN tasks = RunIds
      /\ runs[r] \in RunRecord /\ tasks[r] \in TaskRecord /\ WholeWhenSucceeded(runs[r])
      /\ golden' = golden /\ Step(r) = "score"
      /\ ResultsAreOf(results, runs[r].cases)
      /\ Ids(Executed(r)) = runs[r].cases /\ Executed(r) \in Seq(GoldenCases)
      /\ Len(results) = Len(Executed(r))
    BY RunKnown DEF Succeed
<1>2. results \in Seq(Scored) /\ Len(runs[r].cases) = Len(results) /\ runs[r].cases \in Seq(CaseIds)
    BY <1>1, IdsOf DEF TaskRecord, RunRecord
<1>3. Ids(results) = runs[r].cases
  <2>1. Ids(results) = [n \in DOMAIN results |-> results[n].id]  BY DEF Ids
  <2>2. ResultsAreOf(results, runs[r].cases)  BY <1>1
  <2> HIDE DEF results
  <2>3. DOMAIN results = DOMAIN runs[r].cases  BY <1>2
  <2>4. Ids(results) = [n \in DOMAIN runs[r].cases |-> runs[r].cases[n]]
      BY <2>1, <2>2, <2>3 DEF ResultsAreOf
  <2> QED BY <1>2, <2>4
<1>4. /\ tasks' \in Seq(TaskRecord) /\ Len(tasks') = Len(tasks)
      /\ \A q \in RunIds \ {r} : tasks'[q] = tasks[q]
      /\ tasks'[r].step = "none"
  <2>1. [step |-> "none", results |-> <<>>] \in TaskRecord  BY DEF TaskRecord
  <2>2. tasks' = [tasks EXCEPT ![r] = [step |-> "none", results |-> <<>>]]
      BY DEF Succeed
  <2> QED BY <1>1, <2>1, <2>2, OneReplaced
<1>5. \/ runs' = runs
      \/ runs' = [runs EXCEPT ![r].status = "succeeded", ![r].completed = Len(runs[r].cases),
                              ![r].report = results]
    BY DEF Succeed
<1> HIDE DEF results
<1>6. /\ runs' \in Seq(RunRecord) /\ Len(runs') = Len(runs)
      /\ \A q \in RunIds \ {r} : runs'[q] = runs[q]
      /\ runs'[r].cases = runs[r].cases
      /\ WholeWhenSucceeded(runs'[r])
  <2>1. CASE runs' = runs  BY <1>1, <2>1
  <2>2. CASE runs' # runs
    <3> DEFINE run == [runs[r] EXCEPT !.status = "succeeded", !.completed = Len(runs[r].cases),
                                      !.report = results]
    <3>1. runs' = [runs EXCEPT ![r] = run]  BY <1>1, <1>5, <2>2
    <3>2. /\ run \in RunRecord /\ run.cases = runs[r].cases /\ run.report = results
          /\ run.completed = Len(run.cases) /\ run.status = "succeeded"
        <4>1. /\ runs[r] \in RunRecord /\ results \in Seq(Scored)
            /\ Len(runs[r].cases) \in Nat
          BY <1>1, <1>2
      <4>2. run \in RunRecord  BY <4>1 DEF RunRecord
      <4>3. /\ run.cases = runs[r].cases /\ run.report = results
            /\ run.completed = Len(runs[r].cases) /\ run.status = "succeeded"
          BY <4>1 DEF RunRecord
      <4> QED BY <4>2, <4>3
    <3>3. WholeWhenSucceeded(run)  BY <1>3, <3>2 DEF WholeWhenSucceeded
    <3> HIDE DEF run
    <3> QED BY <1>1, <3>1, <3>2, <3>3, OneReplaced
  <2> QED BY <2>1, <2>2
<1> QED BY <1>1, <1>4, <1>6, TaskKeepsRuns

(* A task that breaks, or whose failure is written or lost, adds nothing. *)
LEMMA FailingKeepsRuns ==
    ASSUME RunsInv, NEW r \in RunIds, BreakTask(r) \/ FailTask(r) \/ FailLost(r)
    PROVE  RunsInv'
<1>1. /\ runs \in Seq(RunRecord) /\ tasks \in Seq(TaskRecord)
      /\ DOMAIN runs = RunIds /\ DOMAIN tasks = RunIds
      /\ runs[r] \in RunRecord /\ tasks[r] \in TaskRecord /\ WholeWhenSucceeded(runs[r])
      /\ golden' = golden
    BY RunKnown DEF BreakTask, FailTask, FailLost
<1>2. \/ tasks' = [tasks EXCEPT ![r].step = "failing"]
      \/ tasks' = [tasks EXCEPT ![r] = [step |-> "none", results |-> <<>>]]
    BY DEF BreakTask, FailTask, FailLost
<1>3. /\ tasks' \in Seq(TaskRecord) /\ Len(tasks') = Len(tasks)
      /\ \A q \in RunIds \ {r} : tasks'[q] = tasks[q]
      /\ tasks'[r].step \in {"none", "failing"}
  <2>1. PICK task \in TaskRecord : /\ tasks' = [tasks EXCEPT ![r] = task]
                                   /\ task.step \in {"none", "failing"}
    <3>1. [tasks[r] EXCEPT !.step = "failing"] \in TaskRecord
        BY <1>1 DEF TaskRecord
    <3>2. [step |-> "none", results |-> <<>>] \in TaskRecord
        BY DEF TaskRecord
    <3>3. [tasks[r] EXCEPT !.step = "failing"].step = "failing"
        BY <1>1 DEF TaskRecord
    <3>4. CASE tasks' = [tasks EXCEPT ![r].step = "failing"]
        BY <1>1, <3>1, <3>3, <3>4
    <3>5. CASE tasks' = [tasks EXCEPT ![r] = [step |-> "none", results |-> <<>>]]
        BY <3>2, <3>5
    <3> QED BY <1>2, <3>4, <3>5
  <2> QED BY <1>1, <2>1, OneReplaced
<1>4. \/ runs' = runs
      \/ runs[r].status \in Active /\ runs' = [runs EXCEPT ![r].status = "failed"]
    BY DEF BreakTask, FailTask, FailLost
<1>5. /\ runs' \in Seq(RunRecord) /\ Len(runs') = Len(runs)
      /\ \A q \in RunIds \ {r} : runs'[q] = runs[q]
      /\ runs'[r].cases = runs[r].cases
      /\ WholeWhenSucceeded(runs'[r])
  <2>1. CASE runs' = runs  BY <1>1, <2>1
  <2>2. CASE runs[r].status \in Active /\ runs' = [runs EXCEPT ![r].status = "failed"]
    <3> DEFINE run == [runs[r] EXCEPT !.status = "failed"]
    <3>1. runs' = [runs EXCEPT ![r] = run]  BY <1>1, <2>2
    <3>2. run \in RunRecord /\ run.cases = runs[r].cases /\ WholeWhenSucceeded(run)
        BY <1>1, <2>2 DEF RunRecord, WholeWhenSucceeded, Active
    <3> HIDE DEF run
    <3> QED BY <1>1, <3>1, <3>2, OneReplaced
  <2> QED BY <1>4, <2>1, <2>2
<1> QED BY <1>1, <1>3, <1>5, TaskKeepsRuns

(* A restart of the process keeps the invariant: no task is left. *)
LEMMA RestartKeepsRuns ==
    ASSUME RunsInv, Restart
    PROVE  RunsInv'
<1>1. /\ RunsTyped /\ WorksOnItsCases /\ SucceededIsWhole
      /\ runs' = runs /\ golden' \in DOMAIN GoldenSets
      /\ tasks' = [r \in DOMAIN tasks |-> [step |-> "none", results |-> <<>>]]
    BY DEF RunsInv, Restart
<1>2. RunsTyped' /\ DOMAIN tasks = RunIds
  <2>1. runs \in Seq(RunRecord) /\ tasks \in Seq(TaskRecord) /\ Len(tasks) = Len(runs)
      BY <1>1 DEF RunsTyped
  <2>2. [step |-> "none", results |-> <<>>] \in TaskRecord  BY DEF TaskRecord
  <2>3. tasks' \in Seq(TaskRecord) /\ Len(tasks') = Len(tasks)
      BY <1>1, <2>1, <2>2
  <2> QED BY <1>1, <2>1, <2>3 DEF RunsTyped, RunIds
<1>3. SucceededIsWhole'  BY <1>1 DEF SucceededIsWhole, RunIds, Ids
<1>4. WorksOnItsCases'  BY <1>1, <1>2 DEF WorksOnItsCases, Step, RunIds
<1> QED BY <1>2, <1>3, <1>4 DEF RunsInv

(* Every step keeps the invariant of the runs. *)
LEMMA StepKeepsRuns == RunsInv /\ [EvaluationNext]_evaluationVars => RunsInv'
<1> SUFFICES ASSUME RunsInv, [EvaluationNext]_evaluationVars  PROVE RunsInv'
    OBVIOUS
<1>1. CASE \E mode \in Modes, limit \in 1 .. CaseLimit : Create(mode, limit)
    BY <1>1, CreateKeepsRuns
<1>2. CASE \E r \in RunIds : Work(r)
    BY <1>2, MarkKeepsRuns, ScoreKeepsRuns, SucceedKeepsRuns, FailingKeepsRuns DEF Work
<1>3. CASE Restart  BY <1>3, RestartKeepsRuns
<1>4. CASE UNCHANGED evaluationVars
    BY <1>4 DEF evaluationVars, RunsInv, RunsTyped, WorksOnItsCases, SucceededIsWhole,
                RunIds, Step, Executed, Golden, Ids
<1> QED BY <1>1, <1>2, <1>3, <1>4 DEF EvaluationNext

(* The invariant of the runs holds in every state. *)
LEMMA RunsAlways == EvaluationSpec => []RunsInv
<1> QED BY InitRuns, StepKeepsRuns, PTL DEF EvaluationSpec

(* A run that succeeded has a result for each of its cases, in their order, and
   no other run has a report, whatever failed or restarted meanwhile; two runs
   that are compared scored the same cases of the same dataset
   (services/evaluation_workspace.py execute_run, _comparison_reasons). *)
THEOREM EvaluationsCompared == EvaluationSpec => []ComparedOnSameCases
<1>1. ASSUME RunsInv PROVE ComparedOnSameCases
  <2>1. SucceededIsWhole  BY <1>1 DEF RunsInv
  <2> QED BY <2>1 DEF ComparedOnSameCases, SucceededIsWhole, Comparable
<1> QED BY <1>1, RunsAlways, PTL

(* Quotient and remainder. *)
LEMMA Dividing ==
    ASSUME NEW a \in Int, NEW d \in Nat \ {0}
    PROVE  a \div d \in Int /\ d * (a \div d) <= a /\ a < d * (a \div d) + d
OBVIOUS

(* A divisor of s divides it exactly. *)
LEMMA DividedExactly ==
    ASSUME NEW s \in Nat \ {0}, NEW d \in Nat \ {0}, s % d = 0
    PROVE  s \div d \in Nat \ {0} /\ s = d * (s \div d)
<1> DEFINE q == s \div d
<1>1. q \in Int /\ s = d * q + (s % d)  OBVIOUS
<1>2. s = d * q  BY <1>1
<1> HIDE DEF q
<1>3. q > 0  BY <1>1, <1>2
<1> QED BY <1>1, <1>2, <1>3 DEF q

(* A multiple divided is what was multiplied. *)
LEMMA QuotientIs ==
    ASSUME NEW d \in Nat \ {0}, NEW n \in Int
    PROVE  (d * n) \div d = n
<1> DEFINE q == (d * n) \div d
<1>1. d * n \in Int  OBVIOUS
<1>2. q \in Int /\ d * q <= d * n /\ d * n < d * q + d
  <2> DEFINE a == d * n
  <2>1. a \in Int  OBVIOUS
  <2> HIDE DEF a
  <2>2. a \div d \in Int /\ d * (a \div d) <= a /\ a < d * (a \div d) + d
    BY <2>1, Dividing
  <2> QED BY <2>2 DEF a
<1> HIDE DEF q
<1>3. q <= n
  <2> SUFFICES ASSUME q > n PROVE FALSE  BY <1>2
  <2>1. q - n >= 1 /\ d * (q - n) >= d  BY <1>2
  <2>2. d * (q - n) = d * q - d * n  BY <1>2
  <2> QED BY <1>1, <1>2, <2>1, <2>2
<1>4. q >= n
  <2> SUFFICES ASSUME n > q PROVE FALSE  BY <1>2
  <2>1. n - q >= 1 /\ d * (n - q) >= d  BY <1>2
  <2>2. d * (n - q) = d * n - d * q  BY <1>2
  <2>3. d * q \in Int  BY <1>2
  <2> QED BY <1>1, <1>2, <2>1, <2>2, <2>3
<1> QED BY <1>2, <1>3, <1>4 DEF q

(* A fraction of a number the denominator divides. *)
LEMMA Fraction ==
    ASSUME NEW s \in Nat \ {0}, NEW d \in Nat \ {0}, s % d = 0, NEW k \in 0 .. d
    PROVE  /\ (s * k) \div d \in 0 .. s
           /\ (s * k) \div d > 0 <=> k > 0
<1>0. s \div d \in Nat \ {0} /\ s = d * (s \div d)  BY DividedExactly
<1>1. PICK q \in Nat \ {0} : s = d * q  BY <1>0
<1>2. s * k = d * (q * k) /\ q * k \in Nat  BY <1>1
<1>3. (s * k) \div d = q * k  BY <1>2, QuotientIs
<1>4. k > 0 <=> q * k > 0  BY <1>1
<1>5. q * k <= s
  <2>1. q * k <= q * d  BY <1>1
  <2> QED BY <1>1, <2>1
<1> QED BY <1>2, <1>3, <1>4, <1>5

(* 1/n is at least 1/k when n is at most k. *)
LEMMA Inverses ==
    ASSUME NEW s \in Nat \ {0}, NEW n \in Nat \ {0}, s % n = 0, NEW k \in Nat \ {0}
    PROVE  s \div n \in Nat /\ ((s \div n) * k >= s <=> n <= k)
<1>1. PICK q \in Nat \ {0} : s = n * q /\ s \div n = q  BY DividedExactly
<1>2. q * k >= n * q <=> n <= k  BY <1>1
<1> QED BY <1>1, <1>2

(* The least of a set of natural numbers. *)
LEMMA LeastIs ==
    ASSUME NEW T \in SUBSET Nat, T # {}
    PROVE  Min(T) \in T /\ \A m \in T : Min(T) <= m
BY LeastExists DEF Min

-----------------------------------------------------------------------------

(* A ranking is a list of roots. *)
LEMMA RankedRoots ==
    ASSUME NEW case, NEW ranked \in RankingsOf(case)
    PROVE  ranked \in Seq(Roots)
<1> DEFINE S == {r \in Roots : DocumentOf[r] \in case.allowed}
<1>1. Cardinality(S) \in Nat
    BY GoldenAssumption, FS_Subset, FS_CardinalityType
<1>2. ranked \in [1 .. Cardinality(S) -> S]  BY DEF RankingsOf, SetToSeqs
<1>3. S \subseteq Roots  OBVIOUS
<1>4. ASSUME NEW n \in Nat, NEW s \in [1 .. n -> S]  PROVE s \in Seq(S)
    OBVIOUS
<1> HIDE DEF S
<1>5. ranked \in Seq(S)  BY <1>1, <1>2, <1>4
<1> QED BY <1>3, <1>5

(* Going through the ranked roots, the documents found so far. *)
Documenting(list, docs) ==
    /\ docs \in [0 .. Len(list) -> Seq(Documents)]
    /\ docs[0] = <<>>
    /\ \A n \in 0 .. Len(list) - 1 :
           docs[n + 1] = IF DocumentOf[list[n + 1]] \in Range(docs[n]) THEN docs[n]
                         ELSE Append(docs[n], DocumentOf[list[n + 1]])

(* The documents of a ranking are found one root after the other. *)
LEMMA DocumentsTake ==
    ASSUME NEW list \in Seq(Roots)
    PROVE  \E fold : Documenting(list, fold) /\ DocumentsRanked(list) = fold[Len(list)]
<1> DEFINE
      X == Roots
      B == Seq(Documents)
      base == <<>>
      Op(docs, root) == IF DocumentOf[root] \in Range(docs) THEN docs
                      ELSE Append(docs, DocumentOf[root])
      next == [p \in B \X X |-> Op(p[1], p[2])]
      F(f) == f = [s \in SUBSET DOMAIN list |->
                      IF s = {} THEN base ELSE Op(f[s \ {Max(s)}], list[Max(s)])]
      g == CHOOSE f : F(f)
<1>1. DocumentsRanked(list) = g[DOMAIN list]
    BY DEF DocumentsRanked, FoldLeft, MapThenFoldSet
<1>2. base \in B /\ list \in Seq(X)  OBVIOUS
<1>3. \A a \in B, x \in X : Op(a, x) \in B  BY DEF Documents
<1> HIDE DEF B, X, Op, base
<1>4. \A a \in B, x \in X : next[<<a, x>>] = Op(a, x) /\ Op(a, x) \in B
    BY <1>3
<1> HIDE DEF next
<1>5. Closed(B, X, next)  BY <1>4 DEF Closed
<1>6. ASSUME NEW f, UnfoldingIn(list, X, B, base, next, f)  PROVE Unfolded(list, X, B, base, next, g)
  <2>1. F(f)  BY <1>4, <1>6 DEF UnfoldingIn, Unfolding
  <2> HIDE DEF F
  <2>2. F(g)  BY <2>1
  <2> HIDE DEF g
  <2> QED BY <1>4, <2>2 DEF Unfolded, F
<1> HIDE DEF F, g
<1>7. PICK fold : Taking(list, B, base, next, fold) /\ g[DOMAIN list] = fold[Len(list)]
    BY <1>2, <1>5, <1>6, FoldTakes
<1>8. ASSUME NEW n \in 0 .. Len(list) - 1  PROVE fold[n + 1] = Op(fold[n], list[n + 1])
  <2>1. fold[n] \in B /\ list[n + 1] \in X  BY <1>2, <1>7 DEF Taking
  <2> QED BY <1>4, <1>7, <2>1 DEF Taking
<1>9. Documenting(list, fold)
    BY <1>7, <1>8 DEF Documenting, Taking, Op, B, base
<1> QED BY <1>1, <1>7, <1>9

(* The documents of the first k roots are among the first k documents. *)
LEMMA DocumentAmongFirst ==
    ASSUME NEW list \in Seq(Roots), NEW k \in Nat, NEW n \in 1 .. Len(list), n <= k
    PROVE  /\ DocumentsRanked(list) \in Seq(Documents)
           /\ DocumentOf[list[n]] \in Range(Top(DocumentsRanked(list), k))
<1> DEFINE l == Len(list)
           document(i) == DocumentOf[list[i]]
<1>1. PICK docs : Documenting(list, docs) /\ DocumentsRanked(list) = docs[l]
    BY DocumentsTake
<1> DEFINE T == {m \in Nat : m \in 0 .. l =>
                    /\ Len(docs[m]) <= m
                    /\ m >= n => \E i \in 1 .. n : i <= Len(docs[m]) /\ docs[m][i] = document(n)}
<1>2. /\ l \in Nat /\ docs[0] = <<>>
      /\ \A m \in 0 .. l : docs[m] \in Seq(Documents)
      /\ \A m \in 0 .. l - 1 : docs[m + 1] = IF document(m + 1) \in Range(docs[m]) THEN docs[m]
                                             ELSE Append(docs[m], document(m + 1))
  <2>1. l \in Nat  OBVIOUS
  <2>2. docs[0] = <<>> /\ \A m \in 0 .. l : docs[m] \in Seq(Documents)
      BY <1>1 DEF Documenting
  <2>3. \A m \in 0 .. l - 1 : docs[m + 1] = IF document(m + 1) \in Range(docs[m]) THEN docs[m]
                                             ELSE Append(docs[m], document(m + 1))
      BY <1>1 DEF Documenting
  <2> QED BY <2>1, <2>2, <2>3
<1>3. n \in Nat /\ n >= 1 /\ n <= l  BY <1>2
<1> HIDE DEF document
<1>4. 0 \in T  BY <1>2, <1>3
<1>5. ASSUME NEW m \in Nat, m \in T  PROVE m + 1 \in T
  <2> SUFFICES ASSUME m + 1 \in 0 .. l
               PROVE  /\ Len(docs[m + 1]) <= m + 1
                      /\ m + 1 >= n => \E i \in 1 .. n :
                             i <= Len(docs[m + 1]) /\ docs[m + 1][i] = document(n)
      OBVIOUS
  <2>1. m \in 0 .. l - 1 /\ m \in 0 .. l  BY <1>2
  <2>2. /\ Len(docs[m]) <= m
        /\ m >= n => \E i \in 1 .. n : i <= Len(docs[m]) /\ docs[m][i] = document(n)
      BY <1>5, <2>1
  <2>3. docs[m] \in Seq(Documents) /\ docs[m + 1] \in Seq(Documents) /\ Len(docs[m]) \in Nat
      BY <1>2, <2>1
  <2> HIDE DEF T
  <2>4. CASE document(m + 1) \in Range(docs[m])
    <3>1. docs[m + 1] = docs[m]  BY <1>2, <2>1, <2>4
    <3>2. CASE m + 1 = n
      <4>1. PICK i \in DOMAIN docs[m] : docs[m][i] = document(n)
          BY <2>4, <3>2 DEF Range
      <4>2. i \in 1 .. n /\ i <= Len(docs[m])  BY <2>2, <2>3, <3>2, <4>1
      <4>3. \E j \in 1 .. n : j <= Len(docs[m + 1]) /\ docs[m + 1][j] = document(n)
          BY <3>1, <4>1, <4>2
      <4> QED BY <2>2, <2>3, <3>1, <4>3
    <3>3. CASE m + 1 # n
      <4>1. m + 1 >= n => m >= n  BY <1>3, <3>3
      <4> QED BY <2>2, <2>3, <3>1, <4>1
    <3> QED BY <3>2, <3>3
  <2>5. CASE document(m + 1) \notin Range(docs[m])
    <3>1. docs[m + 1] = Append(docs[m], document(m + 1))  BY <1>2, <2>1, <2>5
    <3>2. /\ Len(docs[m + 1]) = Len(docs[m]) + 1
          /\ docs[m + 1][Len(docs[m]) + 1] = document(m + 1)
          /\ \A i \in 1 .. Len(docs[m]) : docs[m + 1][i] = docs[m][i]
        BY <2>3, <3>1
    <3>3. CASE m + 1 = n
      <4>1. Len(docs[m]) + 1 \in 1 .. n  BY <2>2, <2>3, <3>3
      <4>2. \E j \in 1 .. n : j <= Len(docs[m + 1]) /\ docs[m + 1][j] = document(n)
          BY <2>3, <3>2, <3>3, <4>1
      <4> QED BY <2>2, <2>3, <3>2, <4>2
    <3>4. CASE m + 1 # n
      <4>1. m + 1 >= n => m >= n  BY <1>3, <3>4
      <4>2. ASSUME m >= n
            PROVE  \E j \in 1 .. n : j <= Len(docs[m + 1]) /\ docs[m + 1][j] = document(n)
        <5>1. PICK i \in 1 .. n : i <= Len(docs[m]) /\ docs[m][i] = document(n)
            BY <2>2, <4>2
        <5>2. i \in 1 .. Len(docs[m])  BY <2>3, <5>1
        <5>3. docs[m + 1][i] = document(n) /\ i <= Len(docs[m + 1])
            BY <2>3, <3>2, <5>1, <5>2
        <5> QED BY <5>3
      <4> QED BY <2>2, <2>3, <3>2, <4>1, <4>2
    <3> QED BY <3>3, <3>4
  <2> QED BY <2>4, <2>5
<1>6. Nat \subseteq T
  <2> HIDE DEF T
  <2> QED BY <1>4, <1>5, NumberInduction
<1>7. PICK i \in 1 .. n : i <= Len(docs[l]) /\ docs[l][i] = document(n)
    BY <1>2, <1>3, <1>6
<1> HIDE DEF T, l
<1>8. docs[l] \in Seq(Documents)  BY <1>2
<1> DEFINE all == docs[l]
<1>9. all \in Seq(Documents) /\ i \in Nat /\ i >= 1 /\ i <= Len(all) /\ i <= k /\ all[i] = document(n)
    BY <1>3, <1>7, <1>8
<1>10. DocumentsRanked(list) = all  BY <1>1
<1> HIDE DEF all
<1>11. /\ Top(all, k) \in Seq(Documents)
       /\ Len(all) < k => Len(Top(all, k)) = Len(all)
       /\ Len(all) >= k => Len(Top(all, k)) = k
       /\ \A j \in 1 .. Len(Top(all, k)) : Top(all, k)[j] = all[j]
    BY <1>9, TopIs
<1>12. i \in 1 .. Len(Top(all, k)) /\ Len(Top(all, k)) \in Nat  BY <1>9, <1>11
<1>13. Top(all, k)[i] = document(n) /\ i \in DOMAIN Top(all, k)
    BY <1>9, <1>11, <1>12
<1> QED BY <1>9, <1>10, <1>13 DEF Range, document

-----------------------------------------------------------------------------

(* What the assumption on the datasets says of one case. *)
LEMMA GoldenCaseIs ==
    ASSUME NEW case \in GoldenCases
    PROVE  /\ case.roots \subseteq Roots /\ IsFiniteSet(case.roots) /\ IsFiniteSet(case.documents)
           /\ \A root \in case.roots : DocumentOf[root] \in case.documents
           /\ case.roots # {} => Scale % Cardinality(case.roots) = 0
           /\ case.documents # {} => Scale % Cardinality(case.documents) = 0
<1>1. PICK g \in DOMAIN GoldenSets : case \in Range(GoldenSets[g])
    BY DEF GoldenCases
<1>2. PICK i \in DOMAIN GoldenSets[g] : case = GoldenSets[g][i]
    BY <1>1 DEF Range
<1>3. /\ case.roots \subseteq Roots /\ IsFiniteSet(case.documents)
      /\ {DocumentOf[r] : r \in case.roots} \subseteq case.documents
    BY <1>2, GoldenAssumption
<1>4. IsFiniteSet(case.roots)  BY <1>3, GoldenAssumption, FS_Subset
<1>5. \A expected \in {case.roots, case.documents} :
          expected # {} => Scale % Cardinality(expected) = 0
    BY <1>2, ScaleAssumption
<1> QED BY <1>3, <1>4, <1>5

(* A recall is between none and all, and positive when one is found. *)
LEMMA RecallIs ==
    ASSUME NEW gold, IsFiniteSet(gold), gold # {}, Scale % Cardinality(gold) = 0,
           NEW ranked, NEW k
    PROVE  /\ Recall(gold, ranked, k) \in 0 .. Scale
           /\ Recall(gold, ranked, k) > 0 <=> gold \cap Range(Top(ranked, k)) # {}
<1> DEFINE found == gold \cap Range(Top(ranked, k))
<1>1. /\ Cardinality(gold) \in Nat \ {0} /\ IsFiniteSet(found)
      /\ Cardinality(found) \in Nat /\ Cardinality(found) <= Cardinality(gold)
      /\ Cardinality(found) > 0 <=> found # {}
  <2>1. IsFiniteSet(found) /\ Cardinality(found) <= Cardinality(gold)
      BY FS_Subset
  <2> HIDE DEF found
  <2> QED BY <2>1, FS_CardinalityType, FS_EmptySet
<1>2. Recall(gold, ranked, k) = (Scale * Cardinality(found)) \div Cardinality(gold)
    BY DEF Recall
<1> HIDE DEF found
<1>3. Cardinality(found) \in 0 .. Cardinality(gold) /\ Scale \in Nat \ {0}
    BY <1>1, ScaleAssumption
<1>4. /\ (Scale * Cardinality(found)) \div Cardinality(gold) \in 0 .. Scale
      /\ (Scale * Cardinality(found)) \div Cardinality(gold) > 0 <=> Cardinality(found) > 0
    BY <1>1, <1>3, Fraction
<1> QED BY <1>1, <1>2, <1>4 DEF found

(* Among the first k, one of gold. *)
FoundBy(gold, list, k) == \E n \in 1 .. Len(list) : n <= k /\ list[n] \in gold

(* Something expected is in the first k exactly when it is found by rank k. *)
LEMMA FoundInTop ==
    ASSUME NEW A, NEW list \in Seq(A), NEW k \in Nat, NEW gold
    PROVE  gold \cap Range(Top(list, k)) # {} <=> FoundBy(gold, list, k)
<1> DEFINE top == Top(list, k)
<1>1. /\ top \in Seq(A) /\ Len(list) \in Nat
      /\ Len(list) < k => Len(top) = Len(list)
      /\ Len(list) >= k => Len(top) = k
      /\ \A i \in 1 .. Len(top) : top[i] = list[i]
    BY TopIs
<1> HIDE DEF top
<1>2. DOMAIN top = 1 .. Len(top)  BY <1>1
<1>3. \A n \in Nat : n \in 1 .. Len(top) <=> n \in 1 .. Len(list) /\ n <= k
    BY <1>1
<1>4. gold \cap Range(top) # {} <=> \E n \in 1 .. Len(top) : top[n] \in gold
    BY <1>2 DEF Range
<1>5. (\E n \in 1 .. Len(top) : top[n] \in gold) <=> FoundBy(gold, list, k)
    BY <1>1, <1>3 DEF FoundBy
<1> QED BY <1>4, <1>5 DEF top

(* The reciprocal rank tells whether something expected is found by RecallK. *)
LEMMA RankIs ==
    ASSUME NEW A, NEW list \in Seq(A), Len(list) <= RankK, NEW gold, gold # {}
    PROVE  ReciprocalRank(gold, list, RankK) * RecallK >= Scale <=> FoundBy(gold, list, RecallK)
<1> DEFINE top == Top(list, RankK)
           found == {n \in DOMAIN top : list[n] \in gold}
<1>1. /\ RankK \in Nat /\ RecallK \in Nat \ {0} /\ RecallK <= RankK /\ Scale \in Nat \ {0}
      /\ \A n \in 1 .. RankK : Scale % n = 0
    BY ScaleAssumption
<1>2. /\ Len(list) \in Nat
      /\ top \in Seq(A) /\ Len(top) = Len(list)
  <2>1. /\ Top(list, RankK) \in Seq(A)
        /\ Len(list) < RankK => Len(Top(list, RankK)) = Len(list)
        /\ Len(list) >= RankK => Len(Top(list, RankK)) = RankK
      BY <1>1, TopIs
  <2> QED BY <1>1, <2>1
<1>3. ReciprocalRank(gold, list, RankK) = IF found = {} THEN 0 ELSE Scale \div Min(found)
    BY DEF ReciprocalRank
<1> HIDE DEF top
<1>4. DOMAIN top = 1 .. Len(list)  BY <1>2
<1>5. /\ found \in SUBSET Nat
      /\ \A n : n \in found <=> n \in 1 .. Len(list) /\ list[n] \in gold
    BY <1>2, <1>4
<1> HIDE DEF found
<1>6. CASE found = {}
  <2>1. ~FoundBy(gold, list, RecallK)  BY <1>5, <1>6 DEF FoundBy
  <2>2. ReciprocalRank(gold, list, RankK) = 0  BY <1>3, <1>6
  <2>3. 0 * RecallK = 0 /\ ~(0 >= Scale)  BY <1>1
  <2> QED BY <2>1, <2>2, <2>3
<1>7. CASE found # {}
  <2> DEFINE n == Min(found)
  <2>1. n \in found /\ \A m \in found : n <= m  BY <1>5, <1>7, LeastIs
  <2> HIDE DEF n
  <2>2. n \in 1 .. Len(list) /\ list[n] \in gold  BY <1>5, <2>1
  <2>3. n \in Nat \ {0} /\ Scale % n = 0  BY <1>1, <1>2, <2>2
  <2>4. (Scale \div n) * RecallK >= Scale <=> n <= RecallK
      BY <1>1, <2>3, Inverses
  <2>5. FoundBy(gold, list, RecallK) <=> n <= RecallK
    <3>1. ASSUME NEW m \in 1 .. Len(list), m <= RecallK, list[m] \in gold  PROVE n <= RecallK
      <4>1. m \in found /\ n <= m  BY <1>5, <2>1, <3>1
      <4> QED BY <1>1, <1>2, <2>3, <3>1, <4>1
    <3> QED BY <2>2, <3>1 DEF FoundBy
  <2> QED BY <1>3, <1>7, <2>4, <2>5 DEF n
<1> QED BY <1>6, <1>7

(* The numbers of one observation. *)
Agreeing(m) ==
    /\ m.roots \in Score
    /\ m.roots # Missing =>
        /\ m.roots > 0 <=> m.rank * RecallK >= Scale
        /\ m.roots > 0 => m.documents > 0

(* The metrics of one observation agree with one another. *)
LEMMA ObservationAgrees ==
    ASSUME NEW case \in GoldenCases, NEW ranked \in RankingsOf(case)
    PROVE  Agreeing(Metrics(case, Observed(case, ranked)))
<1> DEFINE list == Top(ranked, RankK)
           docs == DocumentsRanked(list)
           m == Metrics(case, Observed(case, ranked))
<1>1. /\ m.roots = Recall(case.roots, list, RecallK)
      /\ m.rank = ReciprocalRank(case.roots, list, RankK)
      /\ m.documents = Recall(case.documents, docs, RecallK)
    BY DEF Metrics, Observed, Expected, ExpectedDocuments
<1>2. /\ RankK \in Nat /\ RecallK \in Nat /\ Scale \in Nat  BY ScaleAssumption
<1>3. ranked \in Seq(Roots)  BY RankedRoots
<1>4. list \in Seq(Roots) /\ Len(list) <= RankK
  <2>1. /\ Top(ranked, RankK) \in Seq(Roots)
        /\ Len(ranked) < RankK => Len(Top(ranked, RankK)) = Len(ranked)
        /\ Len(ranked) >= RankK => Len(Top(ranked, RankK)) = RankK
      BY <1>2, <1>3, TopIs
  <2> QED BY <1>2, <1>3, <2>1
<1> HIDE DEF list, m
<1>5. /\ case.roots \subseteq Roots /\ IsFiniteSet(case.roots) /\ IsFiniteSet(case.documents)
      /\ \A root \in case.roots : DocumentOf[root] \in case.documents
      /\ case.roots # {} => Scale % Cardinality(case.roots) = 0
      /\ case.documents # {} => Scale % Cardinality(case.documents) = 0
    BY GoldenCaseIs
<1>6. CASE case.roots = {}
  <2>1. m.roots = Missing  BY <1>1, <1>6 DEF Recall
  <2> QED BY <2>1 DEF Agreeing, Score, m
<1>7. CASE case.roots # {}
  <2>1. /\ m.roots \in 0 .. Scale
        /\ m.roots > 0 <=> case.roots \cap Range(Top(list, RecallK)) # {}
      BY <1>1, <1>5, <1>7, RecallIs
  <2>2. m.roots > 0 <=> FoundBy(case.roots, list, RecallK)
      BY <1>2, <1>4, <2>1, FoundInTop
  <2>3. m.rank * RecallK >= Scale <=> FoundBy(case.roots, list, RecallK)
      BY <1>1, <1>4, <1>7, RankIs
  <2>4. ASSUME m.roots > 0  PROVE m.documents > 0
    <3>1. PICK n \in 1 .. Len(list) : n <= RecallK /\ list[n] \in case.roots
        BY <2>2, <2>4 DEF FoundBy
    <3>2. DocumentOf[list[n]] \in Range(Top(docs, RecallK))
        BY <1>2, <1>4, <3>1, DocumentAmongFirst
    <3>3. DocumentOf[list[n]] \in case.documents  BY <1>5, <3>1
    <3> HIDE DEF docs
    <3>4. case.documents # {} /\ case.documents \cap Range(Top(docs, RecallK)) # {}
        BY <3>2, <3>3
    <3>5. Recall(case.documents, docs, RecallK) > 0  BY <1>5, <3>4, RecallIs
    <3> QED BY <1>1, <3>5
  <2>5. m.roots \in Score  BY <1>2, <2>1 DEF Score
  <2> QED BY <2>2, <2>3, <2>4, <2>5 DEF Agreeing, m
<1> QED BY <1>6, <1>7

(* So do those of every result. *)
LEMMA ScoredAgrees == \A result \in Scored : Agreeing(result.metrics)
BY ObservationAgrees DEF Scored, ScoresOf

-----------------------------------------------------------------------------

(* The sum a mean is taken of. *)
SumOver(values, S) == MapThenSumSet(LAMBDA n : values[n], S)

(* A sum lies between as many times its least and its greatest term. *)
LEMMA SumBetween ==
    ASSUME NEW S, IsFiniteSet(S), NEW values, NEW low \in Int, NEW high \in Int,
           \A n \in S : values[n] \in Int /\ low <= values[n] /\ values[n] <= high
    PROVE  /\ SumOver(values, S) \in Int
           /\ low * Cardinality(S) <= SumOver(values, S)
           /\ SumOver(values, S) <= high * Cardinality(S)
<1> DEFINE
      pick == [s \in SUBSET S |-> CHOOSE x \in s : TRUE]
      next == [p \in Int \X S |-> values[p[2]] + p[1]]
      F(f) == f = [s \in SUBSET S |->
                      IF s = {} THEN 0
                      ELSE values[CHOOSE x \in s : TRUE] + f[s \ {CHOOSE x \in s : TRUE}]]
      g == CHOOSE f : F(f)
<1>1. SumOver(values, S) = g[S]  BY DEF SumOver, MapThenSumSet, MapThenFoldSet
<1>2. /\ \A s \in SUBSET S : s # {} => pick[s] \in s /\ pick[s] = CHOOSE x \in s : TRUE
      /\ \A a \in Int, x \in S : next[<<a, x>>] = values[x] + a /\ next[<<a, x>>] \in Int
    OBVIOUS
<1> HIDE DEF pick, next
<1>3. PICK f : Folding(S, 0, next, pick, f)
  <2> HIDE DEF F, g
  <2>1. \A s \in SUBSET S : s # {} => pick[s] \in s  BY <1>2
  <2> QED BY <2>1, FoldExists
<1>4. \A s \in SUBSET S : f[s] \in Int
  <2> HIDE DEF F, g
  <2>1. \A s \in SUBSET S : s # {} => pick[s] \in s  BY <1>2
  <2>2. \A a \in Int, x \in S : next[<<a, x>>] \in Int  BY <1>2
  <2>3. 0 \in Int  OBVIOUS
  <2> QED BY <1>3, <2>1, <2>2, <2>3, FoldStays
<1>5. F(f)
  <2>1. ASSUME NEW s \in SUBSET S, s # {}
        PROVE  next[<<f[s \ {pick[s]}], pick[s]>>]
                 = values[CHOOSE x \in s : TRUE] + f[s \ {CHOOSE x \in s : TRUE}]
    <3>1. /\ pick[s] \in S /\ pick[s] = CHOOSE x \in s : TRUE
          /\ f[s \ {pick[s]}] \in Int
        BY <1>2, <1>4, <2>1
    <3> QED BY <1>2, <3>1
  <2> QED BY <1>3, <2>1 DEF Folding
<1> HIDE DEF F
<1>6. F(g)  BY <1>5
<1> HIDE DEF g
<1>7. /\ g[{}] = 0
      /\ \A s \in SUBSET S : s # {} => pick[s] \in s /\ g[s] = values[pick[s]] + g[s \ {pick[s]}]
  <2>1. g = [s \in SUBSET S |->
                IF s = {} THEN 0
                ELSE values[CHOOSE x \in s : TRUE] + g[s \ {CHOOSE x \in s : TRUE}]]
      BY <1>6 DEF F
  <2>2. {} \in SUBSET S  OBVIOUS
  <2>3. g[{}] = 0  BY <2>1, <2>2
  <2>4. ASSUME NEW s \in SUBSET S, s # {}
        PROVE  pick[s] \in s /\ g[s] = values[pick[s]] + g[s \ {pick[s]}]
    <3>1. pick[s] \in s /\ pick[s] = CHOOSE x \in s : TRUE  BY <1>2, <2>4
    <3>2. g[s] = values[CHOOSE x \in s : TRUE] + g[s \ {CHOOSE x \in s : TRUE}]
        BY <2>1, <2>4
    <3> QED BY <3>1, <3>2
  <2> QED BY <2>3, <2>4
<1> DEFINE Between(s) == /\ g[s] \in Int
                         /\ low * Cardinality(s) <= g[s] /\ g[s] <= high * Cardinality(s)
           T == {s \in SUBSET S : Between(s)}
<1>8. {} \in T
  <2>1. Cardinality({}) = 0  BY FS_EmptySet
  <2>2. low * 0 = 0 /\ high * 0 = 0  OBVIOUS
  <2> QED BY <1>7, <2>1, <2>2
<1>9. \A s \in SUBSET S : s # {} => \E x \in s : s \ {x} \in T => s \in T
  <2> SUFFICES ASSUME NEW s \in SUBSET S, s # {}, s \ {pick[s]} \in T
               PROVE  Between(s)
      BY <1>7
  <2> DEFINE x == pick[s]
             c == Cardinality(s)
  <2>1. x \in s /\ g[s] = values[x] + g[s \ {x}] /\ Between(s \ {x})  BY <1>7
  <2>2. c \in Nat /\ Cardinality(s \ {x}) = c - 1
      BY <2>1, FS_Subset, FS_CardinalityType, FS_RemoveElement
  <2>3. values[x] \in Int /\ low <= values[x] /\ values[x] <= high  BY <2>1
  <2> HIDE DEF x, c
  <2>4. low * (c - 1) = low * c - low /\ high * (c - 1) = high * c - high
      BY <2>2
  <2>5. low * c \in Int /\ high * c \in Int  BY <2>2
  <2>6. /\ g[s \ {x}] \in Int
        /\ low * c - low <= g[s \ {x}] /\ g[s \ {x}] <= high * c - high
      BY <2>1, <2>2, <2>4
  <2> QED BY <2>1, <2>3, <2>5, <2>6 DEF c
<1>10. SUBSET S \subseteq T
  <2> HIDE DEF T
  <2> QED BY <1>8, <1>9, SubsetInduction
<1>11. Between(S)  BY <1>10
<1> QED BY <1>1, <1>11

(* The average of numbers, some of them missing, is between the least and
   the greatest of those that are not. *)
LEMMA MeanBetween ==
    ASSUME NEW values, IsFiniteSet(DOMAIN values), \A n \in DOMAIN values : values[n] \in Score
    PROVE  LET numbers == {values[n] : n \in DOMAIN values} \ {Missing} IN
           IF numbers = {} THEN Mean(values) = Missing
           ELSE Min(numbers) <= Mean(values) /\ Mean(values) <= Max(numbers)
<1> DEFINE numbers == {values[n] : n \in DOMAIN values} \ {Missing}
           known == {n \in DOMAIN values : values[n] # Missing}
           sum == SumOver(values, known)
           c == Cardinality(known)
<1>1. Mean(values) = IF known = {} THEN Missing ELSE sum \div c
    BY DEF Mean, SumOver
<1>2. numbers = {values[n] : n \in known}  OBVIOUS
<1>3. \A n \in known : values[n] \in Nat
    BY ScaleAssumption DEF Score, Missing
<1>4. IsFiniteSet(known)  BY FS_Subset
<1>5. CASE known = {}  BY <1>1, <1>2, <1>5
<1>6. CASE known # {}
  <2>1. numbers # {} /\ numbers \in SUBSET Nat  BY <1>2, <1>3, <1>6
  <2>2. IsFiniteSet(numbers)
    <3> DEFINE f == [n \in known |-> values[n]]
    <3>1. f \in Surjection(known, numbers)  BY <1>2 DEF Surjection
    <3> QED BY <1>4, <3>1, FS_Surjection
  <2> DEFINE low == Min(numbers)
             high == Max(numbers)
  <2>3. low \in numbers /\ \A m \in numbers : low <= m  BY <2>1, LeastIs
  <2>4. high \in numbers /\ \A m \in numbers : high >= m
    <3>1. numbers \in SUBSET Int  BY <2>1
    <3> QED BY <2>1, <2>2, <3>1, GreatestExists
  <2> HIDE DEF low, high
  <2>5. low \in Int /\ high \in Int  BY <2>1, <2>3, <2>4
  <2>6. \A n \in known : values[n] \in Int /\ low <= values[n] /\ values[n] <= high
      BY <1>2, <1>3, <2>3, <2>4, <2>5
  <2> HIDE DEF numbers, known
  <2>7. sum \in Int /\ low * c <= sum /\ sum <= high * c
      BY <1>4, <2>5, <2>6, SumBetween
  <2>8. c \in Nat \ {0}  BY <1>4, <1>6, FS_CardinalityType, FS_EmptySet
  <2> HIDE DEF sum, c
  <2> DEFINE mean == sum \div c
  <2>9. mean \in Int /\ c * mean <= sum /\ sum < c * mean + c
      BY <2>7, <2>8, Dividing
  <2> HIDE DEF mean
  <2>10. low <= mean
    <3> SUFFICES ASSUME low >= mean + 1  PROVE FALSE  BY <2>5, <2>9
    <3>1. low * c >= (mean + 1) * c  BY <2>5, <2>8, <2>9
    <3>2. (mean + 1) * c = c * mean + c /\ c * mean \in Int /\ low * c \in Int
        BY <2>5, <2>8, <2>9
    <3> QED BY <2>7, <2>8, <2>9, <3>1, <3>2
  <2>11. mean <= high
    <3> SUFFICES ASSUME mean >= high + 1  PROVE FALSE  BY <2>5, <2>9
    <3>1. mean * c >= (high + 1) * c  BY <2>5, <2>8, <2>9
    <3>2. (high + 1) * c = high * c + c /\ c * mean = mean * c /\ high * c \in Int /\ mean * c \in Int
        BY <2>5, <2>8, <2>9
    <3> QED BY <2>7, <2>8, <2>9, <3>1, <3>2
  <2> QED BY <1>1, <1>6, <2>1, <2>10, <2>11 DEF mean, low, high, numbers
<1> QED BY <1>5, <1>6

(* The numbers of a report do not contradict each other: an expected root is
   recalled exactly when its reciprocal rank says so, and then its document is
   recalled too; an average lies between the values of the cases that have one
   (services/evaluation.py, for every dataset and ranking). *)
THEOREM MetricsAlwaysAgree == EvaluationSpec => []MetricsAgree
<1>1. ASSUME RunsInv PROVE MetricsAgree
  <2>1. ASSUME NEW r \in Reported
        PROVE  runs[r].report \in Seq(Scored)
      BY <1>1, RunKnown DEF Reported, RunRecord
  <2>2. NumbersAgree
    <3> SUFFICES ASSUME NEW r \in Reported, NEW n \in DOMAIN runs[r].report
                 PROVE  Agreeing(runs[r].report[n].metrics)
        BY DEF NumbersAgree, Agreeing
    <3>1. runs[r].report[n] \in Scored  BY <2>1
    <3> QED BY <3>1, ScoredAgrees
  <2>3. AveragesWithinCases
    <3> SUFFICES
          ASSUME NEW r \in Reported
          PROVE  LET report == runs[r].report
                     values == {report[n].metrics["roots"] : n \in DOMAIN report} \ {Missing}
                     mean == Aggregate(report)["roots"] IN
                 IF values = {} THEN mean = Missing
                 ELSE Min(values) <= mean /\ mean <= Max(values)
        BY DEF AveragesWithinCases
    <3> DEFINE report == runs[r].report
               recalls == [n \in DOMAIN report |-> report[n].metrics["roots"]]
    <3>1. report \in Seq(Scored)  BY <2>1
    <3>2. Aggregate(report)["roots"] = Mean(recalls)  BY DEF Aggregate
    <3> HIDE DEF report
    <3>3. IsFiniteSet(DOMAIN recalls)  BY <3>1, FS_Interval
    <3>4. \A n \in DOMAIN recalls : recalls[n] \in Score
        BY <3>1, ScoredAgrees DEF Agreeing
    <3>5. {recalls[n] : n \in DOMAIN recalls} = {report[n].metrics["roots"] : n \in DOMAIN report}
        OBVIOUS
    <3> HIDE DEF recalls
    <3>6. LET numbers == {recalls[n] : n \in DOMAIN recalls} \ {Missing} IN
          IF numbers = {} THEN Mean(recalls) = Missing
          ELSE Min(numbers) <= Mean(recalls) /\ Mean(recalls) <= Max(numbers)
        BY <3>3, <3>4, MeanBetween
    <3> QED BY <3>2, <3>5, <3>6 DEF report
  <2> QED BY <2>2, <2>3 DEF MetricsAgree
<1> QED BY <1>1, RunsAlways, PTL

(* Those goes through the list one element after the other. *)
LEMMA ThoseTaken ==
    ASSUME NEW S, NEW list, list \in Seq(Range(list))
    PROVE  \E fold : Keeping(list, S, fold) /\ Those(list, S) = fold[Len(list)]
<1> DEFINE
      X == Range(list)
      B == Seq(S)
      base == <<>>
      Op(kept, x) == IF x \in S THEN Append(kept, x) ELSE kept
      next == [p \in B \X X |-> Op(p[1], p[2])]
      F(f) == f = [s \in SUBSET DOMAIN list |->
                      IF s = {} THEN base ELSE Op(f[s \ {Max(s)}], list[Max(s)])]
      g == CHOOSE f : F(f)
<1>1. Those(list, S) = g[DOMAIN list]  BY DEF Those, FoldLeft, MapThenFoldSet
<1>2. base \in B /\ list \in Seq(X)  OBVIOUS
<1>3. \A a \in B, x \in X : Op(a, x) \in B  OBVIOUS
<1> HIDE DEF B, X, Op, base
<1>4. \A a \in B, x \in X : next[<<a, x>>] = Op(a, x) /\ Op(a, x) \in B
    BY <1>3
<1> HIDE DEF next
<1>5. Closed(B, X, next)  BY <1>4 DEF Closed
<1>6. ASSUME NEW f, UnfoldingIn(list, X, B, base, next, f)  PROVE Unfolded(list, X, B, base, next, g)
  <2>1. F(f)  BY <1>4, <1>6 DEF UnfoldingIn, Unfolding
  <2> HIDE DEF F
  <2>2. F(g)  BY <2>1
  <2> HIDE DEF g
  <2> QED BY <1>4, <2>2 DEF Unfolded, F
<1> HIDE DEF F, g
<1>7. PICK fold : Taking(list, B, base, next, fold) /\ g[DOMAIN list] = fold[Len(list)]
    BY <1>2, <1>5, <1>6, FoldTakes
<1>8. ASSUME NEW n \in 0 .. Len(list) - 1  PROVE fold[n + 1] = Op(fold[n], list[n + 1])
  <2>1. fold[n] \in B /\ list[n + 1] \in X  BY <1>2, <1>7 DEF Taking
  <2> QED BY <1>4, <1>7, <2>1 DEF Taking
<1>9. Keeping(list, S, fold)  BY <1>7, <1>8 DEF Keeping, Taking, Op, B, base
<1> QED BY <1>1, <1>7, <1>9

(* The tokens of the first n pieces of a line. *)
Counting(line, counts) ==
    /\ counts \in [0 .. Len(line.pieces) -> Nat]
    /\ counts[0] = 0
    /\ \A n \in 0 .. Len(line.pieces) - 1 : counts[n + 1] = counts[n] + line.pieces[n + 1].size

(* The tokens of a line are counted one piece after the other. *)
LEMMA LineCounted ==
    ASSUME NEW line \in AllLines
    PROVE  \E fold : Counting(line, fold) /\ LineTokens(line) = fold[Len(line.pieces)]
<1> DEFINE
      X == Pieces
      B == Nat
      base == 0
      Op(n, p) == n + p.size
      next == [p \in B \X X |-> Op(p[1], p[2])]
      F(f) == f = [s \in SUBSET DOMAIN line.pieces |->
                      IF s = {} THEN base ELSE Op(f[s \ {Max(s)}], line.pieces[Max(s)])]
      g == CHOOSE f : F(f)
<1>1. LineTokens(line) = g[DOMAIN line.pieces]
    BY DEF LineTokens, FoldLeft, MapThenFoldSet
<1>2. base \in B /\ line.pieces \in Seq(X)  BY DEF AllLines
<1>3. \A a \in B, x \in X : Op(a, x) \in B  BY DEF Pieces
<1> HIDE DEF B, X, Op, base
<1>4. \A a \in B, x \in X : next[<<a, x>>] = Op(a, x) /\ Op(a, x) \in B
    BY <1>3
<1> HIDE DEF next
<1>5. Closed(B, X, next)  BY <1>4 DEF Closed
<1>6. ASSUME NEW f, UnfoldingIn(line.pieces, X, B, base, next, f)  PROVE Unfolded(line.pieces, X, B, base, next, g)
  <2>1. F(f)  BY <1>4, <1>6 DEF UnfoldingIn, Unfolding
  <2> HIDE DEF F
  <2>2. F(g)  BY <2>1
  <2> HIDE DEF g
  <2> QED BY <1>4, <2>2 DEF Unfolded, F
<1> HIDE DEF F, g
<1>7. PICK fold : Taking(line.pieces, B, base, next, fold) /\ g[DOMAIN line.pieces] = fold[Len(line.pieces)]
    BY <1>2, <1>5, <1>6, FoldTakes
<1>8. ASSUME NEW n \in 0 .. Len(line.pieces) - 1  PROVE fold[n + 1] = Op(fold[n], line.pieces[n + 1])
  <2>1. fold[n] \in B /\ line.pieces[n + 1] \in X  BY <1>2, <1>7 DEF Taking
  <2> QED BY <1>4, <1>7, <2>1 DEF Taking
<1>9. Counting(line, fold)  BY <1>7, <1>8 DEF Counting, Taking, Op, B, base
<1> QED BY <1>1, <1>7, <1>9

(* A line has no tokens exactly when it is blank. *)
LEMMA LineTokensAre ==
    ASSUME NEW line \in AllLines
    PROVE  LineTokens(line) \in Nat /\ (LineTokens(line) = 0 <=> line.kind = "blank")
<1>1. PICK counts : Counting(line, counts) /\ LineTokens(line) = counts[Len(line.pieces)]
    BY LineCounted
<1> DEFINE k == Len(line.pieces)
           T == {n \in Nat : n \in 0 .. k => counts[n] >= n}
<1>2. /\ k \in Nat /\ (k = 0 <=> line.kind = "blank")
      /\ \A n \in 1 .. k : line.pieces[n].size \in Nat \ {0}
  <2>1. line.pieces \in Seq(Pieces) /\ (line.kind = "blank" <=> line.pieces = <<>>)
      BY DEF AllLines
  <2>2. \A p \in Pieces : p.size \in Nat \ {0}  BY DEF Pieces
  <2>3. \A n \in 1 .. k : line.pieces[n] \in Pieces  BY <2>1
  <2>4. k \in Nat /\ (k = 0 <=> line.pieces = <<>>)  BY <2>1
  <2> QED BY <2>1, <2>2, <2>3, <2>4
<1>3. /\ counts[0] = 0 /\ \A n \in 0 .. k : counts[n] \in Nat
      /\ \A n \in 0 .. k - 1 : counts[n + 1] = counts[n] + line.pieces[n + 1].size
    BY <1>1 DEF Counting
<1> HIDE DEF k
<1>4. 0 \in T  BY <1>3
<1>5. ASSUME NEW n \in Nat, n \in T  PROVE n + 1 \in T
  <2> SUFFICES ASSUME n + 1 \in 0 .. k  PROVE counts[n + 1] >= n + 1  OBVIOUS
  <2>1. n \in 0 .. k - 1 /\ n \in 0 .. k /\ n + 1 \in 1 .. k  BY <1>2
  <2>2. counts[n] >= n /\ counts[n] \in Nat /\ line.pieces[n + 1].size \in Nat \ {0}
      BY <1>2, <1>3, <1>5, <2>1
  <2> QED BY <1>3, <2>1, <2>2
<1>6. Nat \subseteq T
  <2> HIDE DEF T
  <2> QED BY <1>4, <1>5, NumberInduction
<1>7. counts[k] \in Nat /\ counts[k] >= k  BY <1>2, <1>3, <1>6
<1>8. k = 0 => counts[k] = 0  BY <1>3
<1> QED BY <1>1, <1>2, <1>7, <1>8 DEF k

(* The tokens of the first n lines. *)
Adding(text, sums) ==
    /\ sums \in [0 .. Len(text) -> Nat]
    /\ sums[0] = 0
    /\ \A n \in 0 .. Len(text) - 1 : sums[n + 1] = sums[n] + LineTokens(text[n + 1])

(* The tokens of a text are added one line after the other. *)
LEMMA TextAdded ==
    ASSUME NEW text \in Texts
    PROVE  \E fold : Adding(text, fold) /\ TextTokens(text) = fold[Len(text)]
<1> DEFINE
      X == AllLines
      B == Nat
      base == 0
      Op(n, line) == n + LineTokens(line)
      next == [p \in B \X X |-> Op(p[1], p[2])]
      F(f) == f = [s \in SUBSET DOMAIN text |->
                      IF s = {} THEN base ELSE Op(f[s \ {Max(s)}], text[Max(s)])]
      g == CHOOSE f : F(f)
<1>1. TextTokens(text) = g[DOMAIN text]
    BY DEF TextTokens, FoldLeft, MapThenFoldSet
<1>2. base \in B /\ text \in Seq(X)  BY DEF Texts
<1>3. \A a \in B, x \in X : Op(a, x) \in B  BY LineTokensAre
<1> HIDE DEF B, X, Op, base
<1>4. \A a \in B, x \in X : next[<<a, x>>] = Op(a, x) /\ Op(a, x) \in B
    BY <1>3
<1> HIDE DEF next
<1>5. Closed(B, X, next)  BY <1>4 DEF Closed
<1>6. ASSUME NEW f, UnfoldingIn(text, X, B, base, next, f)  PROVE Unfolded(text, X, B, base, next, g)
  <2>1. F(f)  BY <1>4, <1>6 DEF UnfoldingIn, Unfolding
  <2> HIDE DEF F
  <2>2. F(g)  BY <2>1
  <2> HIDE DEF g
  <2> QED BY <1>4, <2>2 DEF Unfolded, F
<1> HIDE DEF F, g
<1>7. PICK fold : Taking(text, B, base, next, fold) /\ g[DOMAIN text] = fold[Len(text)]
    BY <1>2, <1>5, <1>6, FoldTakes
<1>8. ASSUME NEW n \in 0 .. Len(text) - 1  PROVE fold[n + 1] = Op(fold[n], text[n + 1])
  <2>1. fold[n] \in B /\ text[n + 1] \in X  BY <1>2, <1>7 DEF Taking
  <2> QED BY <1>4, <1>7, <2>1 DEF Taking
<1>9. Adding(text, fold)  BY <1>7, <1>8 DEF Adding, Taking, Op, B, base
<1> QED BY <1>1, <1>7, <1>9

(* They are what any such addition gives. *)
LEMMA TokensAre ==
    ASSUME NEW text \in Texts, NEW sums, Adding(text, sums)
    PROVE  TextTokens(text) = sums[Len(text)]
<1>1. PICK others : Adding(text, others) /\ TextTokens(text) = others[Len(text)]
    BY TextAdded
<1> DEFINE T == {n \in Nat : n \in 0 .. Len(text) => others[n] = sums[n]}
<1>2. Len(text) \in Nat  BY DEF Texts
<1>3. 0 \in T  BY <1>1 DEF Adding
<1>4. ASSUME NEW n \in Nat, n \in T  PROVE n + 1 \in T
  <2> SUFFICES ASSUME n + 1 \in 0 .. Len(text)  PROVE others[n + 1] = sums[n + 1]
      OBVIOUS
  <2>1. n \in 0 .. Len(text) - 1 /\ n \in 0 .. Len(text)  BY <1>2
  <2> QED BY <1>1, <1>4, <2>1 DEF Adding
<1>5. Nat \subseteq T
  <2> HIDE DEF T
  <2> QED BY <1>3, <1>4, NumberInduction
<1> QED BY <1>1, <1>2, <1>5

-----------------------------------------------------------------------------
(* Segments that cover a text up to a place. *)
SegmentKinds == {"sentence", "paragraph", "code_block", "structure_line", "token_hard_cut"}
Segments == {s \in [from : Nat, to : Nat, kind : SegmentKinds] : s.from < s.to}

(* The segments of the list follow one another from one place to another. *)
Covering(list, from, to) ==
    /\ list \in Seq(Segments)
    /\ IF list = <<>> THEN from = to
       ELSE list[1].from = from /\ list[Len(list)].to = to
    /\ \A i \in 1 .. Len(list) - 1 : list[i].to = list[i + 1].from

(* Two lists that cover neighbouring ranges cover both together. *)
LEMMA CoveringJoined ==
    ASSUME NEW a, NEW b, NEW c, NEW s, NEW t, Covering(s, a, b), Covering(t, b, c)
    PROVE  Covering(s \o t, a, c)
<1>1. s \in Seq(Segments) /\ t \in Seq(Segments) /\ Len(s) \in Nat /\ Len(t) \in Nat
    BY DEF Covering
<1> DEFINE u == s \o t
<1>2. /\ u \in Seq(Segments) /\ Len(u) = Len(s) + Len(t)
      /\ \A i \in 1 .. Len(s) : u[i] = s[i]
      /\ \A i \in 1 .. Len(t) : u[Len(s) + i] = t[i]
    BY <1>1
<1>3. CASE s = <<>>
  <2>1. u = t /\ a = b  BY <1>1, <1>3 DEF Covering
  <2> QED BY <2>1
<1>4. CASE t = <<>>
  <2>1. u = s /\ b = c  BY <1>1, <1>4 DEF Covering
  <2> QED BY <2>1
<1>5. CASE s # <<>> /\ t # <<>>
  <2>1. Len(s) >= 1 /\ Len(t) >= 1  BY <1>1, <1>5
  <2> HIDE DEF u
  <2>2. u # <<>> /\ u[1].from = a /\ u[Len(u)].to = c
    <3>1. u[1] = s[1] /\ u[Len(u)] = t[Len(t)]  BY <1>1, <1>2, <2>1
    <3>2. Len(u) >= 1  BY <1>1, <1>2, <2>1
    <3>3. u # <<>>  BY <1>2, <3>2
    <3> QED BY <1>5, <3>1, <3>3 DEF Covering
  <2>3. ASSUME NEW i \in 1 .. Len(u) - 1  PROVE u[i].to = u[i + 1].from
    <3>1. CASE i < Len(s)
      <4>1. i \in 1 .. Len(s) - 1 /\ i \in 1 .. Len(s) /\ i + 1 \in 1 .. Len(s)
          BY <1>1, <1>2, <3>1
      <4> QED BY <1>2, <4>1 DEF Covering
    <3>2. CASE i = Len(s)
      <4>1. u[i] = s[Len(s)] /\ u[i + 1] = t[1]  BY <1>1, <1>2, <2>1, <3>2
      <4> QED BY <1>5, <4>1 DEF Covering
    <3>3. CASE i > Len(s)
      <4> DEFINE j == i - Len(s)
      <4>1. j \in 1 .. Len(t) - 1 /\ j \in 1 .. Len(t) /\ j + 1 \in 1 .. Len(t)
            /\ i = Len(s) + j /\ i + 1 = Len(s) + (j + 1)
          BY <1>1, <1>2, <3>3
      <4> HIDE DEF j
      <4>2. u[i] = t[j] /\ u[i + 1] = t[j + 1]  BY <1>2, <4>1
      <4> QED BY <4>1, <4>2 DEF Covering
    <3> QED BY <1>1, <3>1, <3>2, <3>3
  <2> QED BY <1>2, <2>2, <2>3 DEF Covering
<1> QED BY <1>3, <1>4, <1>5 DEF u

(* A segment covers its range, an empty one nothing. *)
LEMMA OneSegment ==
    ASSUME NEW from \in Nat, NEW to \in Nat, from <= to, NEW kind \in SegmentKinds
    PROVE  Covering(Segment(from, to, kind), from, to)
<1>1. CASE from < to
  <2> DEFINE s == [from |-> from, to |-> to, kind |-> kind]
  <2>1. Segment(from, to, kind) = <<s>> /\ s \in Segments /\ s.from = from /\ s.to = to
      BY <1>1 DEF Segment, Segments
  <2> HIDE DEF s
  <2> QED BY <2>1 DEF Covering
<1>2. CASE from = to
  <2>1. Segment(from, to, kind) = <<>>  BY <1>2 DEF Segment
  <2> QED BY <1>2, <2>1 DEF Covering
<1> QED BY <1>1, <1>2

-----------------------------------------------------------------------------
(* The scan covers what it has passed: all of it when no block is open,
   else all before the open block. *)
Scans == [segments : Seq(Segments), mode : {"none", "code", "paragraph"}, pos : Nat, from : Nat]

(* The scans that cover what they have passed. *)
SoundScans ==
    {scan \in Scans :
        IF scan.mode = "none" THEN Covering(scan.segments, 0, scan.pos)
        ELSE scan.from <= scan.pos /\ Covering(scan.segments, 0, scan.from)}

(* The scans in an open paragraph. *)
OpenParagraphs == {scan \in SoundScans : scan.mode = "paragraph"}

(* A piece of a paragraph moves the scan by its tokens. *)
LEMMA PieceSound ==
    ASSUME NEW scan \in OpenParagraphs, NEW piece \in Pieces
    PROVE  /\ SentencePiece(scan, piece) \in OpenParagraphs
           /\ SentencePiece(scan, piece).pos = scan.pos + piece.size
<1> DEFINE to == scan.pos + piece.size
<1>1. /\ scan \in Scans /\ scan.mode = "paragraph" /\ scan.pos \in Nat /\ scan.from \in Nat
      /\ scan.from <= scan.pos /\ Covering(scan.segments, 0, scan.from)
      /\ scan.segments \in Seq(Segments)
    BY DEF OpenParagraphs, SoundScans, Scans
<1>2. piece.size \in Nat /\ to \in Nat /\ scan.from <= to  BY <1>1 DEF Pieces
<1> HIDE DEF to
<1>3. CASE piece.ends
  <2> DEFINE longer == scan.segments \o Segment(scan.from, to, "sentence")
             next == [scan EXCEPT !.pos = to, !.from = to, !.segments = longer]
  <2>1. SentencePiece(scan, piece) = next  BY <1>3 DEF SentencePiece, to
  <2>2. Covering(longer, 0, to)
    <3>1. Covering(Segment(scan.from, to, "sentence"), scan.from, to)
        BY <1>1, <1>2, OneSegment DEF SegmentKinds
    <3> QED BY <1>1, <3>1, CoveringJoined
  <2>3. longer \in Seq(Segments)  BY <2>2 DEF Covering
  <2> HIDE DEF longer
  <2>4. next \in Scans  BY <1>1, <1>2, <2>3 DEF Scans
  <2>5. next.pos = to /\ next.from = to /\ next.segments = longer /\ next.mode = "paragraph"
      BY <1>1 DEF Scans
  <2> HIDE DEF next
  <2>6. next \in OpenParagraphs
      BY <1>2, <2>2, <2>4, <2>5 DEF OpenParagraphs, SoundScans
  <2> QED BY <2>1, <2>5, <2>6 DEF to
<1>4. CASE ~piece.ends
  <2> DEFINE next == [scan EXCEPT !.pos = to]
  <2>1. SentencePiece(scan, piece) = next  BY <1>4 DEF SentencePiece, to
  <2>2. next \in Scans  BY <1>1, <1>2 DEF Scans
  <2>3. next.pos = to /\ next.from = scan.from /\ next.segments = scan.segments
        /\ next.mode = "paragraph"
      BY <1>1 DEF Scans
  <2> HIDE DEF next
  <2>4. next \in OpenParagraphs
      BY <1>1, <1>2, <2>2, <2>3 DEF OpenParagraphs, SoundScans
  <2> QED BY <2>1, <2>3, <2>4 DEF to
<1> QED BY <1>3, <1>4

(* The pieces of a line, scanned one after the other. *)
Piecing(line, scan, scans) ==
    /\ scans \in [0 .. Len(line.pieces) -> OpenParagraphs]
    /\ scans[0] = scan
    /\ \A n \in 0 .. Len(line.pieces) - 1 :
           scans[n + 1] = SentencePiece(scans[n], line.pieces[n + 1])

(* The pieces of a line are scanned one after the other. *)
LEMMA PiecesScanned ==
    ASSUME NEW line \in AllLines, NEW scan \in OpenParagraphs
    PROVE  \E fold : Piecing(line, scan, fold) /\ FoldLeft(SentencePiece, scan, line.pieces) = fold[Len(line.pieces)]
<1> DEFINE
      X == Pieces
      B == OpenParagraphs
      base == scan
      Op(sofar, piece) == SentencePiece(sofar, piece)
      next == [p \in B \X X |-> Op(p[1], p[2])]
      F(f) == f = [s \in SUBSET DOMAIN line.pieces |->
                      IF s = {} THEN base ELSE Op(f[s \ {Max(s)}], line.pieces[Max(s)])]
      g == CHOOSE f : F(f)
<1>1. FoldLeft(SentencePiece, scan, line.pieces) = g[DOMAIN line.pieces]
    BY DEF FoldLeft, MapThenFoldSet
<1>2. base \in B /\ line.pieces \in Seq(X)  BY DEF AllLines
<1>3. \A a \in B, x \in X : Op(a, x) \in B  BY PieceSound
<1> HIDE DEF B, X, Op, base
<1>4. \A a \in B, x \in X : next[<<a, x>>] = Op(a, x) /\ Op(a, x) \in B
    BY <1>3
<1> HIDE DEF next
<1>5. Closed(B, X, next)  BY <1>4 DEF Closed
<1>6. ASSUME NEW f, UnfoldingIn(line.pieces, X, B, base, next, f)  PROVE Unfolded(line.pieces, X, B, base, next, g)
  <2>1. F(f)  BY <1>4, <1>6 DEF UnfoldingIn, Unfolding
  <2> HIDE DEF F
  <2>2. F(g)  BY <2>1
  <2> HIDE DEF g
  <2> QED BY <1>4, <2>2 DEF Unfolded, F
<1> HIDE DEF F, g
<1>7. PICK fold : Taking(line.pieces, B, base, next, fold) /\ g[DOMAIN line.pieces] = fold[Len(line.pieces)]
    BY <1>2, <1>5, <1>6, FoldTakes
<1>8. ASSUME NEW n \in 0 .. Len(line.pieces) - 1  PROVE fold[n + 1] = Op(fold[n], line.pieces[n + 1])
  <2>1. fold[n] \in B /\ line.pieces[n + 1] \in X  BY <1>2, <1>7 DEF Taking
  <2> QED BY <1>4, <1>7, <2>1 DEF Taking
<1>9. Piecing(line, scan, fold)
    BY <1>7, <1>8 DEF Piecing, Taking, Op, B, base
<1> QED BY <1>1, <1>7, <1>9

(* A line of a paragraph moves the scan by its tokens. *)
LEMMA ProseScanned ==
    ASSUME NEW line \in AllLines, NEW scan \in OpenParagraphs
    PROVE  LET done == FoldLeft(SentencePiece, scan, line.pieces) IN
           done \in OpenParagraphs /\ done.pos = scan.pos + LineTokens(line)
<1> DEFINE k == Len(line.pieces)
<1>1. PICK scans : Piecing(line, scan, scans) /\ FoldLeft(SentencePiece, scan, line.pieces) = scans[k]
    BY PiecesScanned
<1>2. PICK counts : Counting(line, counts) /\ LineTokens(line) = counts[k]
    BY LineCounted
<1> DEFINE T == {n \in Nat : n \in 0 .. k => scans[n].pos = scan.pos + counts[n]}
<1>3. k \in Nat /\ \A n \in 1 .. k : line.pieces[n] \in Pieces
  <2>1. line.pieces \in Seq(Pieces)  BY DEF AllLines
  <2> QED BY <2>1
<1>4. /\ \A n \in 0 .. k : scans[n] \in OpenParagraphs
      /\ scans[0] = scan
      /\ \A n \in 0 .. k - 1 : scans[n + 1] = SentencePiece(scans[n], line.pieces[n + 1])
    BY <1>1 DEF Piecing
<1>5. /\ \A n \in 0 .. k : counts[n] \in Nat
      /\ counts[0] = 0
      /\ \A n \in 0 .. k - 1 : counts[n + 1] = counts[n] + line.pieces[n + 1].size
    BY <1>2 DEF Counting
<1>6. scan.pos \in Nat  BY DEF OpenParagraphs, SoundScans, Scans
<1> HIDE DEF k
<1>7. 0 \in T  BY <1>4, <1>5, <1>6
<1>8. ASSUME NEW n \in Nat, n \in T  PROVE n + 1 \in T
  <2> SUFFICES ASSUME n + 1 \in 0 .. k  PROVE scans[n + 1].pos = scan.pos + counts[n + 1]
      OBVIOUS
  <2>1. n \in 0 .. k - 1 /\ n \in 0 .. k /\ n + 1 \in 1 .. k  BY <1>3
  <2>2. scans[n].pos = scan.pos + counts[n] /\ counts[n] \in Nat
      BY <1>5, <1>8, <2>1
  <2>3. scans[n + 1].pos = scans[n].pos + line.pieces[n + 1].size
      BY <1>3, <1>4, <2>1, PieceSound
  <2>4. line.pieces[n + 1].size \in Nat  BY <1>3, <2>1 DEF Pieces
  <2> QED BY <1>5, <1>6, <2>1, <2>2, <2>3, <2>4
<1>9. Nat \subseteq T
  <2> HIDE DEF T
  <2> QED BY <1>7, <1>8, NumberInduction
<1>10. scans[k] \in OpenParagraphs /\ scans[k].pos = scan.pos + counts[k]
    BY <1>3, <1>4, <1>9
<1> QED BY <1>1, <1>2, <1>10

(* Ending an open paragraph. *)
LEMMA FlushSound ==
    ASSUME NEW scan \in SoundScans, scan.mode # "code"
    PROVE  LET flat == FlushParagraph(scan) IN
           /\ flat \in Scans /\ flat.mode = "none" /\ flat.pos = scan.pos
           /\ Covering(flat.segments, 0, scan.pos)
<1>1. /\ scan \in Scans /\ scan.pos \in Nat /\ scan.from \in Nat
      /\ scan.segments \in Seq(Segments) /\ scan.mode \in {"none", "code", "paragraph"}
    BY DEF SoundScans, Scans
<1>2. CASE scan.mode = "paragraph"
  <2> DEFINE longer == scan.segments \o Segment(scan.from, scan.pos, "paragraph")
             flat == [scan EXCEPT !.mode = "none", !.segments = longer]
  <2>1. FlushParagraph(scan) = flat  BY <1>2 DEF FlushParagraph
  <2>2. scan.from <= scan.pos /\ Covering(scan.segments, 0, scan.from)
      BY <1>2 DEF SoundScans
  <2>3. Covering(longer, 0, scan.pos)
    <3>1. Covering(Segment(scan.from, scan.pos, "paragraph"), scan.from, scan.pos)
        BY <1>1, <2>2, OneSegment DEF SegmentKinds
    <3> QED BY <2>2, <3>1, CoveringJoined
  <2>4. longer \in Seq(Segments)  BY <2>3 DEF Covering
  <2> HIDE DEF longer
  <2>5. flat \in Scans  BY <1>1, <2>4 DEF Scans
  <2>6. flat.mode = "none" /\ flat.pos = scan.pos /\ flat.segments = longer
      BY <1>1 DEF Scans
  <2> QED BY <2>1, <2>3, <2>5, <2>6
<1>3. CASE scan.mode = "none"
  <2>1. FlushParagraph(scan) = scan /\ Covering(scan.segments, 0, scan.pos)
      BY <1>3 DEF FlushParagraph, SoundScans
  <2> QED BY <1>1, <1>3, <2>1
<1> QED BY <1>1, <1>2, <1>3

(* Every line moves the scan by its tokens, and the scan stays sound. *)
LEMMA LineSound ==
    ASSUME NEW scan \in SoundScans, NEW line \in AllLines
    PROVE  /\ ScanLine(scan, line) \in SoundScans
           /\ ScanLine(scan, line).pos = scan.pos + LineTokens(line)
<1> DEFINE flat == FlushParagraph(scan)
           to   == scan.pos + LineTokens(line)
<1>1. /\ scan \in Scans /\ scan.pos \in Nat /\ scan.from \in Nat
      /\ scan.segments \in Seq(Segments) /\ scan.mode \in {"none", "code", "paragraph"}
    BY DEF SoundScans, Scans
<1>2. /\ LineTokens(line) \in Nat /\ (LineTokens(line) = 0 <=> line.kind = "blank")
      /\ line.kind \in Kinds
    BY LineTokensAre DEF AllLines
<1>3. to \in Nat /\ scan.pos <= to /\ (line.kind = "blank" => to = scan.pos)
    BY <1>1, <1>2
<1>4. scan.mode # "code" =>
          /\ flat \in Scans /\ flat.mode = "none" /\ flat.pos = scan.pos
          /\ Covering(flat.segments, 0, scan.pos)
    BY FlushSound
<1>5. CASE scan.mode = "code" /\ line.kind = "fence"
  <2> DEFINE longer == scan.segments \o Segment(scan.from, to, "code_block")
             next == [scan EXCEPT !.pos = to, !.mode = "none", !.segments = longer]
  <2>1. ScanLine(scan, line) = next  BY <1>5 DEF ScanLine
  <2>2. scan.from <= scan.pos /\ Covering(scan.segments, 0, scan.from)
      BY <1>5 DEF SoundScans
  <2> HIDE DEF to
  <2>3. Covering(longer, 0, to)
    <3>1. scan.from <= to  BY <1>1, <1>3, <2>2
    <3>2. Covering(Segment(scan.from, to, "code_block"), scan.from, to)
        BY <1>1, <1>3, <3>1, OneSegment DEF SegmentKinds
    <3> QED BY <2>2, <3>2, CoveringJoined
  <2>4. longer \in Seq(Segments)  BY <2>3 DEF Covering
  <2> HIDE DEF longer
  <2>5. next \in Scans  BY <1>1, <1>3, <2>4 DEF Scans
  <2>6. next.mode = "none" /\ next.pos = to /\ next.segments = longer
      BY <1>1 DEF Scans
  <2> HIDE DEF next
  <2>7. next \in SoundScans  BY <2>3, <2>5, <2>6 DEF SoundScans
  <2> QED BY <2>1, <2>6, <2>7 DEF to
<1>6. CASE scan.mode = "code" /\ line.kind # "fence"
  <2> DEFINE next == [scan EXCEPT !.pos = to]
  <2>1. ScanLine(scan, line) = next  BY <1>6 DEF ScanLine
  <2>2. scan.from <= scan.pos /\ Covering(scan.segments, 0, scan.from)
      BY <1>6 DEF SoundScans
  <2> HIDE DEF to
  <2>3. next \in Scans  BY <1>1, <1>3 DEF Scans
  <2>4. next.mode = "code" /\ next.pos = to /\ next.segments = scan.segments /\ next.from = scan.from
      BY <1>1, <1>6 DEF Scans
  <2> HIDE DEF next
  <2>5. next \in SoundScans  BY <1>1, <1>3, <2>2, <2>3, <2>4 DEF SoundScans
  <2> QED BY <2>1, <2>4, <2>5 DEF to
<1>7. CASE scan.mode # "code" /\ line.kind = "fence"
  <2> DEFINE next == [flat EXCEPT !.pos = to, !.from = scan.pos, !.mode = "code"]
  <2>1. ScanLine(scan, line) = next  BY <1>7, Zenon DEF ScanLine, Structural
  <2> HIDE DEF to, flat
  <2>2. next \in Scans  BY <1>1, <1>3, <1>4, <1>7 DEF Scans
  <2>3. next.mode = "code" /\ next.pos = to /\ next.segments = flat.segments /\ next.from = scan.pos
      BY <1>4, <1>7 DEF Scans
  <2> HIDE DEF next
  <2>4. next \in SoundScans  BY <1>3, <1>4, <1>7, <2>2, <2>3 DEF SoundScans
  <2> QED BY <2>1, <2>3, <2>4 DEF to
<1>8. CASE scan.mode # "code" /\ line.kind = "blank"
  <2>1. ScanLine(scan, line) = flat  BY <1>8, Zenon DEF ScanLine, Structural
  <2> HIDE DEF flat
  <2>2. flat \in SoundScans  BY <1>4, <1>8 DEF SoundScans
  <2> QED BY <1>3, <1>4, <1>8, <2>1, <2>2
<1>9. CASE scan.mode # "code" /\ line.kind \in Structural
  <2> DEFINE longer == flat.segments \o Segment(scan.pos, to, "structure_line")
             next == [flat EXCEPT !.pos = to, !.segments = longer]
  <2>1. ScanLine(scan, line) = next  BY <1>9 DEF ScanLine, Structural
  <2> HIDE DEF to, flat
  <2>2. Covering(longer, 0, to)
    <3>1. Covering(Segment(scan.pos, to, "structure_line"), scan.pos, to)
        BY <1>1, <1>3, OneSegment DEF SegmentKinds
    <3> QED BY <1>4, <1>9, <3>1, CoveringJoined
  <2>3. longer \in Seq(Segments)  BY <2>2 DEF Covering
  <2> HIDE DEF longer
  <2>4. next \in Scans  BY <1>3, <1>4, <1>9, <2>3 DEF Scans
  <2>5. next.mode = "none" /\ next.pos = to /\ next.segments = longer
      BY <1>4, <1>9 DEF Scans
  <2> HIDE DEF next
  <2>6. next \in SoundScans  BY <2>2, <2>4, <2>5 DEF SoundScans
  <2> QED BY <2>1, <2>5, <2>6 DEF to
<1>10. CASE scan.mode # "code" /\ line.kind = "prose"
  <2> DEFINE next == [scan EXCEPT !.mode = "paragraph",
                                  !.from = IF scan.mode = "paragraph" THEN @ ELSE scan.pos]
  <2>1. ScanLine(scan, line) = FoldLeft(SentencePiece, next, line.pieces)
      BY <1>10 DEF ScanLine, Structural
  <2>2. next \in Scans  BY <1>1, <1>10 DEF Scans
  <2>3. /\ next.mode = "paragraph" /\ next.pos = scan.pos /\ next.segments = scan.segments
        /\ next.from = IF scan.mode = "paragraph" THEN scan.from ELSE scan.pos
      BY <1>1, <1>10 DEF Scans
  <2> HIDE DEF next
  <2>4. next.from <= next.pos /\ Covering(next.segments, 0, next.from)
    <3>1. CASE scan.mode = "paragraph"  BY <2>3, <3>1 DEF SoundScans
    <3>2. CASE scan.mode = "none"  BY <1>1, <2>3, <3>2 DEF SoundScans
    <3> QED BY <1>1, <1>10, <3>1, <3>2
  <2>5. next \in OpenParagraphs
      BY <2>2, <2>3, <2>4 DEF OpenParagraphs, SoundScans
  <2>6. /\ ScanLine(scan, line) \in OpenParagraphs
        /\ ScanLine(scan, line).pos = next.pos + LineTokens(line)
      BY <2>1, <2>5, ProseScanned
  <2> QED BY <2>3, <2>6 DEF OpenParagraphs
<1> QED BY <1>2, <1>5, <1>6, <1>7, <1>8, <1>9, <1>10 DEF Kinds, Structural

(* The lines of a text, scanned one after the other. *)
Start0 == [segments |-> <<>>, mode |-> "none", pos |-> 0, from |-> 0]

(* The scans after the first n lines. *)
Scanning(text, scans) ==
    /\ scans \in [0 .. Len(text) -> SoundScans]
    /\ scans[0] = Start0
    /\ \A n \in 0 .. Len(text) - 1 : scans[n + 1] = ScanLine(scans[n], text[n + 1])

(* The scan starts sound. *)
LEMMA StartSound == Start0 \in SoundScans
<1>1. <<>> \in Seq(Segments)  OBVIOUS
<1>2. Start0 \in Scans /\ Start0.mode = "none" /\ Start0.segments = <<>> /\ Start0.pos = 0
    BY <1>1 DEF Start0, Scans
<1>3. Covering(<<>>, 0, 0)  BY <1>1 DEF Covering
<1> QED BY <1>2, <1>3 DEF SoundScans

(* The lines of a text are scanned one after the other. *)
LEMMA LinesScanned ==
    ASSUME NEW text \in Texts
    PROVE  \E fold : Scanning(text, fold) /\ FoldLeft(ScanLine, Start0, text) = fold[Len(text)]
<1> DEFINE
      X == AllLines
      B == SoundScans
      base == Start0
      Op(scan, line) == ScanLine(scan, line)
      next == [p \in B \X X |-> Op(p[1], p[2])]
      F(f) == f = [s \in SUBSET DOMAIN text |->
                      IF s = {} THEN base ELSE Op(f[s \ {Max(s)}], text[Max(s)])]
      g == CHOOSE f : F(f)
<1>1. FoldLeft(ScanLine, Start0, text) = g[DOMAIN text]
    BY DEF FoldLeft, MapThenFoldSet
<1>2. base \in B /\ text \in Seq(X)  BY StartSound DEF Texts
<1>3. \A a \in B, x \in X : Op(a, x) \in B  BY LineSound
<1> HIDE DEF B, X, Op, base
<1>4. \A a \in B, x \in X : next[<<a, x>>] = Op(a, x) /\ Op(a, x) \in B
    BY <1>3
<1> HIDE DEF next
<1>5. Closed(B, X, next)  BY <1>4 DEF Closed
<1>6. ASSUME NEW f, UnfoldingIn(text, X, B, base, next, f)  PROVE Unfolded(text, X, B, base, next, g)
  <2>1. F(f)  BY <1>4, <1>6 DEF UnfoldingIn, Unfolding
  <2> HIDE DEF F
  <2>2. F(g)  BY <2>1
  <2> HIDE DEF g
  <2> QED BY <1>4, <2>2 DEF Unfolded, F
<1> HIDE DEF F, g
<1>7. PICK fold : Taking(text, B, base, next, fold) /\ g[DOMAIN text] = fold[Len(text)]
    BY <1>2, <1>5, <1>6, FoldTakes
<1>8. ASSUME NEW n \in 0 .. Len(text) - 1  PROVE fold[n + 1] = Op(fold[n], text[n + 1])
  <2>1. fold[n] \in B /\ text[n + 1] \in X  BY <1>2, <1>7 DEF Taking
  <2> QED BY <1>4, <1>7, <2>1 DEF Taking
<1>9. Scanning(text, fold)  BY <1>7, <1>8 DEF Scanning, Taking, Op, B, base
<1> QED BY <1>1, <1>7, <1>9

(* The segments of a text cover it. *)
LEMMA SegmentsCover ==
    ASSUME NEW text \in Texts
    PROVE  TextTokens(text) \in Nat /\ Covering(StructureSegments(text), 0, TextTokens(text))
<1> DEFINE k == Len(text)
<1>1. PICK scans : Scanning(text, scans) /\ FoldLeft(ScanLine, Start0, text) = scans[k]
    BY LinesScanned
<1>2. PICK sums : Adding(text, sums) /\ TextTokens(text) = sums[k]
    BY TextAdded
<1> DEFINE T == {n \in Nat : n \in 0 .. k => scans[n].pos = sums[n]}
<1>3. k \in Nat /\ \A n \in 1 .. k : text[n] \in AllLines  BY DEF Texts
<1>4. /\ \A n \in 0 .. k : scans[n] \in SoundScans
      /\ scans[0] = Start0
      /\ \A n \in 0 .. k - 1 : scans[n + 1] = ScanLine(scans[n], text[n + 1])
    BY <1>1 DEF Scanning
<1>5. /\ \A n \in 0 .. k : sums[n] \in Nat
      /\ sums[0] = 0
      /\ \A n \in 0 .. k - 1 : sums[n + 1] = sums[n] + LineTokens(text[n + 1])
    BY <1>2 DEF Adding
<1> HIDE DEF k
<1>6. 0 \in T  BY <1>4, <1>5 DEF Start0
<1>7. ASSUME NEW n \in Nat, n \in T  PROVE n + 1 \in T
  <2> SUFFICES ASSUME n + 1 \in 0 .. k  PROVE scans[n + 1].pos = sums[n + 1]
      OBVIOUS
  <2>1. n \in 0 .. k - 1 /\ n \in 0 .. k /\ n + 1 \in 1 .. k  BY <1>3
  <2>2. scans[n].pos = sums[n]  BY <1>7, <2>1
  <2>3. scans[n + 1].pos = scans[n].pos + LineTokens(text[n + 1])
      BY <1>3, <1>4, <2>1, LineSound
  <2> QED BY <1>5, <2>1, <2>2, <2>3
<1>8. Nat \subseteq T
  <2> HIDE DEF T
  <2> QED BY <1>6, <1>7, NumberInduction
<1> DEFINE scan == scans[k]
<1>9. scan \in SoundScans /\ scan.pos = TextTokens(text) /\ scan.pos \in Nat
    BY <1>2, <1>3, <1>4, <1>5, <1>8
<1>10. StructureSegments(text) =
           IF scan.mode = "code" THEN scan.segments \o Segment(scan.from, scan.pos, "code_block")
           ELSE FlushParagraph(scan).segments
    BY <1>1 DEF StructureSegments, Start0
<1> HIDE DEF scan
<1>11. CASE scan.mode = "code"
  <2>1. scan.from <= scan.pos /\ Covering(scan.segments, 0, scan.from) /\ scan.from \in Nat
      BY <1>9, <1>11 DEF SoundScans, Scans
  <2>2. Covering(Segment(scan.from, scan.pos, "code_block"), scan.from, scan.pos)
      BY <1>9, <2>1, OneSegment DEF SegmentKinds
  <2> QED BY <1>9, <1>10, <1>11, <2>1, <2>2, CoveringJoined
<1>12. CASE scan.mode # "code"  BY <1>9, <1>10, <1>12, FlushSound
<1> QED BY <1>9, <1>11, <1>12

-----------------------------------------------------------------------------
(* Cutting and packing the segments. *)

(* The greater of two numbers. *)
LEMMA GreaterOfTwo ==
    ASSUME NEW a \in Int, NEW b \in Int
    PROVE  Max({a, b}) = IF a >= b THEN a ELSE b
<1>1. IsFiniteSet({a, b})
  <2>1. IsFiniteSet({a})  BY FS_Singleton
  <2>2. {a, b} = {a} \cup {b}  OBVIOUS
  <2> QED BY <2>1, <2>2, FS_AddElement
<1>2. Max({a, b}) \in {a, b} /\ Max({a, b}) >= a /\ Max({a, b}) >= b
    BY <1>1, GreatestExists
<1> QED BY <1>2

(* The tokenizer counts its own tokens, and never less for more. *)
LEMMA Counted ==
    ASSUME NEW tokens \in Nat
    PROVE  /\ CountTokens(tokens) \in Nat
           /\ tokens > 0 => CountTokens(tokens) = tokens + SpecialTokens
           /\ tokens + SpecialTokens <= CountTokens(tokens) /\ 1 <= CountTokens(tokens)
           /\ \A more \in Nat : tokens <= more => CountTokens(tokens) <= CountTokens(more)
<1>1. \A n \in Nat : CountTokens(n) = IF 1 >= n + SpecialTokens THEN 1 ELSE n + SpecialTokens
    BY SplittingAssumption, GreaterOfTwo DEF CountTokens
<1> QED BY <1>1, SplittingAssumption

(* Beside the header there is room for one token. *)
RoomForOne(header) == HeaderCost(header) + CountTokens(1) <= MaxTokens

(* What a repeated header costs. *)
LEMMA HeaderCostIs ==
    ASSUME NEW header \in Nat
    PROVE  HeaderCost(header) \in Nat /\ (header > 0 => HeaderCost(header) = header + SpecialTokens)
           /\ (header = 0 => HeaderCost(header) = 0)
BY Counted DEF HeaderCost

(* Products with a natural number keep the order. *)
LEMMA Products ==
    ASSUME NEW a \in Int, NEW b \in Int, a <= b, NEW r \in Nat
    PROVE  a * r \in Int /\ b * r \in Int /\ a * r <= b * r
<1>1. (b - a) * r >= 0 /\ (b - a) * r = b * r - a * r  OBVIOUS
<1> QED BY <1>1

(* The parts of at most `room` that n is cut into. *)
LEMMA Cuts ==
    ASSUME NEW n \in Nat \ {0}, NEW room \in Nat \ {0}
    PROVE  LET parts == (n + room - 1) \div room IN
           /\ parts \in Nat \ {0}
           /\ parts * room >= n
           /\ \A i \in 0 .. parts : i * room \in Nat /\ (i + 1) * room = i * room + room
           /\ \A i \in 0 .. parts - 1 : i * room < n
<1> DEFINE parts == (n + room - 1) \div room
<1>1. parts \in Int /\ room * parts <= n + room - 1 /\ n + room - 1 < room * parts + room
  <2> DEFINE a == n + room - 1
  <2>1. a \in Int  OBVIOUS
  <2> HIDE DEF a
  <2>2. a \div room \in Int /\ room * (a \div room) <= a /\ a < room * (a \div room) + room
      BY <2>1, Dividing
  <2> QED BY <2>2 DEF a
<1> HIDE DEF parts
<1>2. room * parts = parts * room /\ parts * room \in Int  BY <1>1
<1>3. parts * room >= n /\ parts * room - room < n  BY <1>1, <1>2
<1>4. parts > 0
  <2> SUFFICES ASSUME parts <= 0  PROVE FALSE  BY <1>1
  <2>1. parts * room <= 0 * room  BY <1>1, Products
  <2>2. 0 * room = 0  OBVIOUS
  <2> QED BY <1>2, <1>3, <2>1, <2>2
<1>5. \A i \in 0 .. parts : i * room \in Nat /\ (i + 1) * room = i * room + room
    BY <1>1, <1>4
<1>6. ASSUME NEW i \in 0 .. parts - 1  PROVE i * room < n
  <2>1. i \in Int /\ i <= parts - 1 /\ parts - 1 \in Int  BY <1>1, <1>4
  <2>2. i * room <= (parts - 1) * room /\ i * room \in Int  BY <2>1, Products
  <2>3. (parts - 1) * room = parts * room - room  BY <1>1
  <2> QED BY <1>2, <1>3, <2>2, <2>3
<1> QED BY <1>1, <1>3, <1>4, <1>5, <1>6 DEF parts

(* All segments of the list fit beside the header. *)
AllFit(list, header) == \A i \in DOMAIN list : Fits(list[i], header)

(* A segment cut by tokens is covered, by parts that fit. *)
LEMMA CutsCover ==
    ASSUME NEW segment \in Segments, NEW header \in Nat
    PROVE  /\ Covering(HardSplit(segment, header), segment.from, segment.to)
           /\ RoomForOne(header) => AllFit(HardSplit(segment, header), header)
<1> DEFINE cost == HeaderCost(header)
           room == Max({1, MaxTokens - cost - SpecialTokens})
           n == segment.to - segment.from
           parts == (n + room - 1) \div room
           list == HardSplit(segment, header)
<1>1. segment.from \in Nat /\ segment.to \in Nat /\ segment.from < segment.to /\ n \in Nat \ {0}
    BY DEF Segments
<1>2. cost \in Nat /\ MaxTokens \in Nat /\ SpecialTokens \in Nat
    BY HeaderCostIs, SplittingAssumption
<1> HIDE DEF cost
<1>3. room = IF 1 >= MaxTokens - cost - SpecialTokens THEN 1 ELSE MaxTokens - cost - SpecialTokens
    BY <1>2, GreaterOfTwo
<1>4. list = [i \in 1 .. parts |->
                 [from |-> segment.from + (i - 1) * room,
                  to   |-> IF i * room >= n THEN segment.to ELSE segment.from + i * room,
                  kind |-> "token_hard_cut"]]
    BY DEF HardSplit, cost
<1> HIDE DEF room, list
<1>5. room \in Nat \ {0}  BY <1>2, <1>3
<1> HIDE DEF n
<1>6. /\ parts \in Nat \ {0}
      /\ parts * room >= n
      /\ \A i \in 0 .. parts : i * room \in Nat /\ (i + 1) * room = i * room + room
      /\ \A i \in 0 .. parts - 1 : i * room < n
    BY <1>1, <1>5, Cuts
<1> HIDE DEF parts
<1>7. segment.from + n = segment.to  BY <1>1 DEF n
<1>8. ASSUME NEW i \in 1 .. parts
      PROVE  /\ list[i] \in Segments
             /\ list[i].from = segment.from + (i - 1) * room
             /\ list[i].to = IF i = parts THEN segment.to ELSE segment.from + i * room
             /\ list[i].to - list[i].from <= room
  <2>1. /\ i \in 0 .. parts /\ i - 1 \in 0 .. parts /\ i - 1 \in 0 .. parts - 1
        /\ i # parts => i \in 0 .. parts - 1
        /\ (i - 1) + 1 = i
      BY <1>6
  <2>2. (i - 1) * room \in Nat /\ (i - 1) * room < n /\ i * room \in Nat
        /\ i * room = (i - 1) * room + room
      BY <1>6, <2>1
  <2>3. i * room >= n <=> i = parts  BY <1>1, <1>6, <2>1, <2>2
  <2>4. list[i] = [from |-> segment.from + (i - 1) * room,
                   to   |-> IF i * room >= n THEN segment.to ELSE segment.from + i * room,
                   kind |-> "token_hard_cut"]
      BY <1>4
  <2> DEFINE a == (i - 1) * room
             b == i * room
  <2>5. a \in Nat /\ a < n /\ b = a + room /\ (b >= n <=> i = parts)
        /\ list[i] = [from |-> segment.from + a,
                      to   |-> IF b >= n THEN segment.to ELSE segment.from + b,
                      kind |-> "token_hard_cut"]
      BY <2>2, <2>3, <2>4
  <2> HIDE DEF a, b
  <2>6. /\ list[i].from = segment.from + a
        /\ list[i].to = IF i = parts THEN segment.to ELSE segment.from + b
        /\ list[i].from < list[i].to /\ list[i].to - list[i].from <= room
        /\ list[i].from \in Nat /\ list[i].to \in Nat
      BY <1>1, <1>5, <1>7, <2>5
  <2>7. list[i] \in Segments  BY <2>5, <2>6 DEF Segments, SegmentKinds
  <2> QED BY <2>6, <2>7 DEF a, b
<1>9. list \in Seq(Segments) /\ Len(list) = parts /\ list # <<>>
  <2>1. list = [i \in 1 .. parts |-> list[i]] /\ parts \in Nat  BY <1>4, <1>6
  <2>2. \A i \in 1 .. parts : list[i] \in Segments  BY <1>8
  <2>3. list \in [1 .. parts -> Segments]  BY <2>1, <2>2
  <2>4. list \in Seq(Segments) /\ Len(list) = parts  BY <2>1, <2>3
  <2> QED BY <1>6, <2>4
<1>10. list[1].from = segment.from /\ list[parts].to = segment.to
  <2>1. 1 \in 1 .. parts /\ parts \in 1 .. parts /\ (1 - 1) * room = 0
      BY <1>5, <1>6
  <2> QED BY <1>1, <1>8, <2>1
<1>11. ASSUME NEW i \in 1 .. parts - 1  PROVE list[i].to = list[i + 1].from
  <2>1. i \in 1 .. parts /\ i + 1 \in 1 .. parts /\ i # parts /\ (i + 1) - 1 = i
      BY <1>6
  <2> QED BY <1>8, <2>1
<1>12. Covering(list, segment.from, segment.to)
    BY <1>9, <1>10, <1>11 DEF Covering
<1>13. ASSUME RoomForOne(header), NEW i \in DOMAIN list  PROVE Fits(list[i], header)
  <2>1. i \in 1 .. parts  BY <1>9
  <2>2. /\ list[i].to - list[i].from <= room
        /\ list[i].to \in Nat /\ list[i].from \in Nat /\ list[i].from < list[i].to
      BY <1>8, <2>1 DEF Segments
  <2>3. CountTokens(1) = 1 + SpecialTokens  BY Counted
  <2>4. room = MaxTokens - cost - SpecialTokens
      BY <1>2, <1>3, <1>13, <2>3 DEF RoomForOne, cost
  <2> DEFINE l == list[i].to - list[i].from
  <2>5. l \in Nat /\ l > 0 /\ l <= room  BY <2>2
  <2> HIDE DEF l
  <2>6. CountTokens(l) = l + SpecialTokens  BY <2>5, Counted
  <2>7. CountTokens(l) + cost <= MaxTokens  BY <1>2, <2>4, <2>5, <2>6
  <2> QED BY <2>7 DEF l, Fits, cost
<1> QED BY <1>12, <1>13 DEF list, AllFit

(* Segments that are too long are replaced by their parts, one after the other. *)
Expanding(segs, header, outs) ==
    /\ outs \in [0 .. Len(segs) -> Seq(Segments)]
    /\ outs[0] = <<>>
    /\ \A n \in 0 .. Len(segs) - 1 :
           outs[n + 1] = outs[n] \o (IF Fits(segs[n + 1], header) THEN <<segs[n + 1]>>
                                     ELSE HardSplit(segs[n + 1], header))

(* The segments are expanded one after the other. *)
LEMMA ExpandedOneByOne ==
    ASSUME NEW segs \in Seq(Segments), NEW header \in Nat
    PROVE  \E fold : Expanding(segs, header, fold) /\ ExpandOverlong(segs, header) = fold[Len(segs)]
<1> DEFINE
      X == Segments
      B == Seq(Segments)
      base == <<>>
      Op(out, s) == out \o (IF Fits(s, header) THEN <<s>> ELSE HardSplit(s, header))
      next == [p \in B \X X |-> Op(p[1], p[2])]
      F(f) == f = [s \in SUBSET DOMAIN segs |->
                      IF s = {} THEN base ELSE Op(f[s \ {Max(s)}], segs[Max(s)])]
      g == CHOOSE f : F(f)
<1>1. ExpandOverlong(segs, header) = g[DOMAIN segs]
    BY DEF ExpandOverlong, FoldLeft, MapThenFoldSet
<1>2. base \in B /\ segs \in Seq(X)  OBVIOUS
<1>3. \A a \in B, x \in X : Op(a, x) \in B  BY CutsCover DEF Covering
<1> HIDE DEF B, X, Op, base
<1>4. \A a \in B, x \in X : next[<<a, x>>] = Op(a, x) /\ Op(a, x) \in B
    BY <1>3
<1> HIDE DEF next
<1>5. Closed(B, X, next)  BY <1>4 DEF Closed
<1>6. ASSUME NEW f, UnfoldingIn(segs, X, B, base, next, f)  PROVE Unfolded(segs, X, B, base, next, g)
  <2>1. F(f)  BY <1>4, <1>6 DEF UnfoldingIn, Unfolding
  <2> HIDE DEF F
  <2>2. F(g)  BY <2>1
  <2> HIDE DEF g
  <2> QED BY <1>4, <2>2 DEF Unfolded, F
<1> HIDE DEF F, g
<1>7. PICK fold : Taking(segs, B, base, next, fold) /\ g[DOMAIN segs] = fold[Len(segs)]
    BY <1>2, <1>5, <1>6, FoldTakes
<1>8. ASSUME NEW n \in 0 .. Len(segs) - 1  PROVE fold[n + 1] = Op(fold[n], segs[n + 1])
  <2>1. fold[n] \in B /\ segs[n + 1] \in X  BY <1>2, <1>7 DEF Taking
  <2> QED BY <1>4, <1>7, <2>1 DEF Taking
<1>9. Expanding(segs, header, fold)
    BY <1>7, <1>8 DEF Expanding, Taking, Op, B, base
<1> QED BY <1>1, <1>7, <1>9

(* Two lists whose segments fit, put together. *)
LEMMA JoinedFit ==
    ASSUME NEW header, NEW s \in Seq(Segments), NEW t \in Seq(Segments),
           AllFit(s, header), AllFit(t, header)
    PROVE  AllFit(s \o t, header)
<1> DEFINE u == s \o t
<1>1. /\ Len(s) \in Nat /\ Len(t) \in Nat /\ u \in Seq(Segments) /\ Len(u) = Len(s) + Len(t)
      /\ \A i \in 1 .. Len(s) : u[i] = s[i]
      /\ \A i \in 1 .. Len(t) : u[Len(s) + i] = t[i]
    OBVIOUS
<1>2. DOMAIN u = 1 .. Len(u) /\ DOMAIN s = 1 .. Len(s) /\ DOMAIN t = 1 .. Len(t)
    BY <1>1
<1> HIDE DEF u
<1>3. ASSUME NEW i \in DOMAIN u  PROVE Fits(u[i], header)
  <2>1. CASE i <= Len(s)
    <3>1. i \in 1 .. Len(s)  BY <1>2, <2>1
    <3> QED BY <1>1, <1>2, <3>1 DEF AllFit
  <2>2. CASE i > Len(s)
    <3>1. i - Len(s) \in 1 .. Len(t) /\ i = Len(s) + (i - Len(s))
        BY <1>1, <1>2, <2>2
    <3>2. u[i] = t[i - Len(s)]  BY <1>1, <3>1
    <3> QED BY <1>2, <3>1, <3>2 DEF AllFit
  <2> QED BY <1>1, <1>2, <2>1, <2>2
<1> QED BY <1>3 DEF AllFit, u

(* Cutting segments that are too long keeps the range they cover; beside a
   header with room for one token all of them fit. *)
LEMMA ExpandedCovers ==
    ASSUME NEW segs, NEW a, NEW b, Covering(segs, a, b), NEW header \in Nat
    PROVE  /\ Covering(ExpandOverlong(segs, header), a, b)
           /\ RoomForOne(header) => AllFit(ExpandOverlong(segs, header), header)
<1> DEFINE k == Len(segs)
           To(n) == IF n = 0 THEN a ELSE segs[n].to
<1>1. segs \in Seq(Segments) /\ k \in Nat  BY DEF Covering
<1>2. PICK outs : Expanding(segs, header, outs) /\ ExpandOverlong(segs, header) = outs[k]
    BY <1>1, ExpandedOneByOne
<1> DEFINE Good(n) == /\ Covering(outs[n], a, To(n))
                      /\ RoomForOne(header) => AllFit(outs[n], header)
           T == {n \in Nat : n \in 0 .. k => Good(n)}
<1>3. /\ \A n \in 0 .. k : outs[n] \in Seq(Segments)
      /\ outs[0] = <<>>
      /\ \A n \in 0 .. k - 1 :
             outs[n + 1] = outs[n] \o (IF Fits(segs[n + 1], header) THEN <<segs[n + 1]>>
                                       ELSE HardSplit(segs[n + 1], header))
    BY <1>2 DEF Expanding
<1>4. \A n \in 1 .. k : segs[n] \in Segments /\ segs[n].from = To(n - 1) /\ To(n) = segs[n].to
  <2> TAKE n \in 1 .. k
  <2>1. segs[n] \in Segments /\ To(n) = segs[n].to  BY <1>1
  <2>2. CASE n = 1
    <3>1. segs # <<>>  BY <1>1, <2>2
    <3> QED BY <2>1, <2>2, <3>1 DEF Covering
  <2>3. CASE n # 1
    <3>1. n - 1 \in 1 .. k - 1 /\ (n - 1) + 1 = n /\ n - 1 # 0  BY <1>1, <2>3
    <3>2. segs[n - 1].to = segs[n].from  BY <3>1 DEF Covering
    <3> QED BY <2>1, <3>1, <3>2
  <2> QED BY <2>2, <2>3
<1>5. To(k) = b
  <2>1. CASE k = 0
    <3>1. segs = <<>>  BY <1>1, <2>1
    <3> QED BY <2>1, <3>1 DEF Covering
  <2>2. CASE k # 0
    <3>1. segs # <<>>  BY <1>1, <2>2
    <3> QED BY <2>2, <3>1 DEF Covering
  <2> QED BY <2>1, <2>2
<1>6. To(0) = a  OBVIOUS
<1> HIDE DEF To, k
<1>7. 0 \in T
  <2>1. Covering(<<>>, a, a)  BY DEF Covering
  <2>2. AllFit(<<>>, header)  BY DEF AllFit
  <2> QED BY <1>3, <1>6, <2>1, <2>2
<1>8. ASSUME NEW n \in Nat, n \in T  PROVE n + 1 \in T
  <2> SUFFICES ASSUME n + 1 \in 0 .. k  PROVE Good(n + 1)  OBVIOUS
  <2>1. n \in 0 .. k - 1 /\ n \in 0 .. k /\ n + 1 \in 1 .. k /\ (n + 1) - 1 = n
      BY <1>1
  <2>2. Good(n)  BY <1>8, <2>1
  <2> DEFINE s == segs[n + 1]
             more == IF Fits(s, header) THEN <<s>> ELSE HardSplit(s, header)
  <2>3. s \in Segments /\ s.from = To(n) /\ To(n + 1) = s.to  BY <1>4, <2>1
  <2>4. outs[n + 1] = outs[n] \o more  BY <1>3, <2>1
  <2> HIDE DEF s
  <2>5. /\ Covering(more, s.from, s.to)
        /\ RoomForOne(header) => AllFit(more, header)
    <3>1. CASE Fits(s, header)
      <4>1. more = <<s>>  BY <3>1
      <4>2. Covering(<<s>>, s.from, s.to)  BY <2>3 DEF Covering
      <4>3. AllFit(<<s>>, header)  BY <3>1 DEF AllFit
      <4> QED BY <4>1, <4>2, <4>3
    <3>2. CASE ~Fits(s, header)  BY <2>3, <3>2, CutsCover
    <3> QED BY <3>1, <3>2
  <2> HIDE DEF more
  <2>6. Covering(outs[n + 1], a, To(n + 1))
      BY <2>2, <2>3, <2>4, <2>5, CoveringJoined
  <2>7. ASSUME RoomForOne(header)  PROVE AllFit(outs[n + 1], header)
    <3>1. more \in Seq(Segments) /\ outs[n] \in Seq(Segments)
        BY <1>3, <2>1, <2>5 DEF Covering
    <3> QED BY <2>2, <2>4, <2>5, <2>7, <3>1, JoinedFit
  <2> QED BY <2>6, <2>7
<1>9. Nat \subseteq T
  <2> HIDE DEF T
  <2> QED BY <1>7, <1>8, NumberInduction
<1>10. Good(k)  BY <1>1, <1>9 DEF k
<1> QED BY <1>2, <1>5, <1>10

(* Segments that cover a text do not overlap, and follow one another. *)
LEMMA SegmentsFollow ==
    ASSUME NEW segs, NEW a, NEW b, Covering(segs, a, b),
           NEW i \in 1 .. Len(segs), NEW j \in 1 .. Len(segs), i <= j
    PROVE  /\ segs[i] \in Segments /\ segs[j] \in Segments
           /\ segs[i].from < segs[j].to
           /\ segs[i].from <= segs[j].from
           /\ segs[i].to <= segs[j].to
           /\ i < j => segs[i].from < segs[j].from /\ segs[i].to <= segs[j].from
<1> DEFINE k == Len(segs)
           T == {n \in Nat : n \in 1 .. k /\ i < n => segs[i].to <= segs[n].from}
<1>1. segs \in Seq(Segments) /\ k \in Nat /\ i \in Nat /\ j \in Nat
    BY DEF Covering
<1>2. \A n \in 1 .. k : /\ segs[n] \in Segments /\ segs[n].from \in Nat /\ segs[n].to \in Nat
                        /\ segs[n].from < segs[n].to
  <2>1. \A n \in 1 .. k : segs[n] \in Segments  BY <1>1
  <2> QED BY <2>1 DEF Segments
<1>3. \A n \in 1 .. k - 1 : segs[n].to = segs[n + 1].from  BY DEF Covering
<1>4. 0 \in T  BY <1>1
<1>5. ASSUME NEW n \in Nat, n \in T  PROVE n + 1 \in T
  <2> SUFFICES ASSUME n + 1 \in 1 .. k, i < n + 1  PROVE segs[i].to <= segs[n + 1].from
      OBVIOUS
  <2>1. n \in 1 .. k - 1 /\ n \in 1 .. k /\ i <= n  BY <1>1
  <2>2. segs[n].to = segs[n + 1].from  BY <1>3, <2>1
  <2>3. CASE i = n  BY <1>2, <2>1, <2>2, <2>3
  <2>4. CASE i # n
    <3>1. segs[i].to <= segs[n].from  BY <1>1, <1>5, <2>1, <2>4
    <3> QED BY <1>2, <2>1, <2>2, <3>1
  <2> QED BY <2>3, <2>4
<1>6. Nat \subseteq T
  <2> HIDE DEF T
  <2> QED BY <1>4, <1>5, NumberInduction
<1>7. i < j => segs[i].to <= segs[j].from  BY <1>1, <1>6
<1> QED BY <1>1, <1>2, <1>7

-----------------------------------------------------------------------------
(* A chunk that fits the limit, and was not closed before. *)
Packed(segs, header, first, end) ==
    /\ end \in first .. Len(segs)
    /\ Cost(segs, header, first, end) <= MaxTokens
    /\ \A e \in first .. (end - 1) : Cost(segs, header, first, e) < TargetTokens

(* The cost of a chunk is the tokens of its range, the tokenizer's own and
   those of the repeated header. *)
LEMMA CostIs ==
    ASSUME NEW segs, NEW a, NEW b, Covering(segs, a, b), NEW header \in Nat,
           NEW i \in 1 .. Len(segs), NEW j \in i .. Len(segs)
    PROVE  /\ segs[j].to - segs[i].from \in Nat /\ segs[j].to - segs[i].from > 0
           /\ Cost(segs, header, i, j) =
                  segs[j].to - segs[i].from + SpecialTokens
                      + (IF i > 1 THEN HeaderCost(header) ELSE 0)
           /\ Cost(segs, header, i, j) \in Nat
<1>1. i \in Nat /\ j \in 1 .. Len(segs) /\ i <= j  OBVIOUS
<1>2. /\ segs[i].from \in Nat /\ segs[j].to \in Nat /\ segs[i].from < segs[j].to
    BY <1>1, SegmentsFollow DEF Segments
<1>3. /\ segs[j].to - segs[i].from \in Nat /\ segs[j].to - segs[i].from > 0
    BY <1>2
<1>4. CountTokens(segs[j].to - segs[i].from) = segs[j].to - segs[i].from + SpecialTokens
    BY <1>3, Counted
<1>5. HeaderCost(header) \in Nat /\ SpecialTokens \in Nat
    BY HeaderCostIs, SplittingAssumption
<1> QED BY <1>3, <1>4, <1>5 DEF Cost

(* A chunk that does not fail is packed, and no packed one ends later. *)
LEMMA ChunkEndIs ==
    ASSUME NEW segs, NEW a, NEW b, Covering(segs, a, b), NEW header \in Nat,
           NEW first \in 1 .. Len(segs)
    PROVE  LET end == ChunkEnd(segs, header, first) IN
           /\ end \in first .. Len(segs)
           /\ ~ChunkFails(segs, header, first) => Packed(segs, header, first, end)
           /\ \A e : Packed(segs, header, first, e)
                  => e <= end /\ ~ChunkFails(segs, header, first)
<1> DEFINE packed == {end \in first .. Len(segs) :
                         /\ Cost(segs, header, first, end) <= MaxTokens
                         /\ \A e \in first .. (end - 1) :
                                Cost(segs, header, first, e) < TargetTokens}
           end == ChunkEnd(segs, header, first)
<1>1. /\ first \in Nat /\ Len(segs) \in Nat /\ first <= Len(segs)
    BY DEF Covering
<1>2. end = IF packed = {} THEN first ELSE Max(packed)  BY DEF ChunkEnd
<1>3. \A e : e \in packed <=> Packed(segs, header, first, e)  BY DEF Packed
<1>4. ChunkFails(segs, header, first) <=> Cost(segs, header, first, end) > MaxTokens
    BY DEF ChunkFails
<1>5. packed \in SUBSET Int /\ IsFiniteSet(packed) /\ packed \subseteq first .. Len(segs)
  <2>1. IsFiniteSet(first .. Len(segs)) /\ packed \subseteq first .. Len(segs)
      BY <1>1, FS_Interval
  <2>2. first .. Len(segs) \subseteq Int  OBVIOUS
  <2> HIDE DEF packed
  <2> QED BY <2>1, <2>2, FS_Subset
<1> HIDE DEF packed, end
<1>8. ASSUME end \in first .. Len(segs)
      PROVE  ChunkFails(segs, header, first) <=> ~(Cost(segs, header, first, end) <= MaxTokens)
  <2>1. Cost(segs, header, first, end) \in Nat  BY <1>8, CostIs
  <2>2. MaxTokens \in Nat  BY SplittingAssumption
  <2> QED BY <1>4, <2>1, <2>2
<1>6. CASE packed = {}
  <2>1. end = first /\ end \in first .. Len(segs)  BY <1>1, <1>2, <1>6
  <2>3. ASSUME ~ChunkFails(segs, header, first)  PROVE Packed(segs, header, first, end)
    <3>1. first .. (end - 1) = {}  BY <1>1, <2>1
    <3> QED BY <1>8, <2>1, <2>3, <3>1 DEF Packed
  <2> QED BY <1>3, <1>6, <2>1, <2>3 DEF end
<1>7. CASE packed # {}
  <2>1. end \in packed /\ \A e \in packed : e <= end
    <3>1. Max(packed) \in packed /\ \A e \in packed : Max(packed) >= e
        BY <1>5, <1>7, GreatestExists
    <3> QED BY <1>2, <1>5, <1>7, <3>1
  <2>2. Packed(segs, header, first, end)  BY <1>3, <2>1
  <2>3. ~ChunkFails(segs, header, first) /\ end \in first .. Len(segs)
      BY <1>8, <2>2 DEF Packed
  <2> QED BY <1>3, <2>1, <2>2, <2>3 DEF end
<1> QED BY <1>6, <1>7

(* The next chunk begins beyond the start of this one and not beyond its end;
   what it repeats fits the overlap or is one sentence or paragraph. *)
LEMMA OverlapStartIs ==
    ASSUME NEW segs \in Seq(Segments), NEW first \in 1 .. Len(segs), NEW end \in first .. Len(segs)
    PROVE  LET next == OverlapStart(segs, first, end) IN
           /\ next \in (first + 1) .. (end + 1)
           /\ OverlapTokens = 0 => next = end + 1
           /\ next <= end =>
                 /\ OverlapTokens > 0
                 /\ \/ CountTokens(segs[end].to - segs[next].from) <= OverlapTokens
                    \/ next = end /\ segs[end].kind \in {"sentence", "paragraph"}
<1> DEFINE inside == {i \in first .. end :
                         CountTokens(segs[end].to - segs[i].from) <= OverlapTokens}
           next == OverlapStart(segs, first, end)
<1>1. first \in Nat /\ end \in Nat /\ first <= end /\ OverlapTokens \in Nat
    BY SplittingAssumption
<1>2. next = CASE OverlapTokens = 0 -> end + 1
          [] OverlapTokens > 0 /\ inside # {} /\ Min(inside) > first -> Min(inside)
          [] OverlapTokens > 0 /\ (inside = {} \/ Min(inside) = first)
                /\ end > first /\ segs[end].kind \in {"sentence", "paragraph"} -> end
          [] OTHER -> end + 1
    BY DEF OverlapStart
<1>3. inside # {} => /\ Min(inside) \in first .. end
                     /\ CountTokens(segs[end].to - segs[Min(inside)].from) <= OverlapTokens
  <2>1. inside \in SUBSET Nat  BY <1>1
  <2>2. \A i : i \in inside => i \in first .. end
                            /\ CountTokens(segs[end].to - segs[i].from) <= OverlapTokens
      OBVIOUS
  <2> HIDE DEF inside
  <2>3. inside # {} => Min(inside) \in inside  BY <2>1, LeastIs
  <2> QED BY <2>2, <2>3
<1> HIDE DEF inside, next
<1>4. CASE OverlapTokens = 0  BY <1>1, <1>2, <1>4 DEF next
<1>5. CASE OverlapTokens > 0 /\ inside # {} /\ Min(inside) > first
  <2>1. next = Min(inside)  BY <1>1, <1>2, <1>5
  <2> QED BY <1>1, <1>3, <1>5, <2>1 DEF next
<1>6. CASE OverlapTokens > 0 /\ (inside = {} \/ Min(inside) = first)
           /\ end > first /\ segs[end].kind \in {"sentence", "paragraph"}
  <2>1. next = end  BY <1>1, <1>2, <1>6
  <2> QED BY <1>1, <1>6, <2>1 DEF next
<1>7. CASE /\ OverlapTokens > 0
           /\ ~(inside # {} /\ Min(inside) > first)
           /\ ~((inside = {} \/ Min(inside) = first)
                /\ end > first /\ segs[end].kind \in {"sentence", "paragraph"})
  <2>1. next = end + 1  BY <1>1, <1>2, <1>7
  <2> QED BY <1>1, <2>1 DEF next
<1> QED BY <1>1, <1>4, <1>5, <1>6, <1>7

-----------------------------------------------------------------------------
(* What a fold makes of a sequence, and of the sequence with one more. *)
Results(X, A, base, next) ==
    [list \in Seq(X) |-> (CHOOSE sofar : Taking(list, A, base, next, sofar))[Len(list)]]

(* A function of sequences that takes one more element at a time. *)
Growing(X, A, base, next, R) ==
    /\ R[<<>>] = base
    /\ \A s \in Seq(X) : R[s] \in A
    /\ \A s \in Seq(X), x \in X : R[Append(s, x)] = next[<<R[s], x>>]

(* What holds of the empty sequence, and of a sequence with one more
   element when of the sequence, holds of every sequence. *)
LEMMA SequenceInduction ==
    ASSUME NEW X, NEW T, <<>> \in T,
           \A s \in Seq(X), x \in X : s \in T => Append(s, x) \in T
    PROVE  Seq(X) \subseteq T
<1> DEFINE N == {n \in Nat : \A s \in Seq(X) : Len(s) = n => s \in T}
<1>1. 0 \in N  OBVIOUS
<1>2. ASSUME NEW n \in Nat, n \in N  PROVE n + 1 \in N
  <2> SUFFICES ASSUME NEW s \in Seq(X), Len(s) = n + 1  PROVE s \in T  OBVIOUS
  <2> DEFINE t == SubSeq(s, 1, n)
             x == s[n + 1]
  <2>1. n <= Len(s) /\ 1 <= n + 1 /\ \A i \in 1 .. n : s[i] \in X  BY <1>2
  <2>2. /\ t \in Seq(X)
        /\ Len(t) = IF 1 <= n THEN n - 1 + 1 ELSE 0
        /\ \A i \in 1 .. n - 1 + 1 : t[i] = s[1 + i - 1]
      BY <2>1, SubSeqProperties
  <2>3. Len(t) = n /\ \A i \in 1 .. n : t[i] = s[i]
    <3>1. \A i \in 1 .. n : i \in 1 .. n - 1 + 1 /\ 1 + i - 1 = i  OBVIOUS
    <3> HIDE DEF t
    <3> QED BY <2>2, <3>1
  <2>4. x \in X  OBVIOUS
  <2>5. s = Append(t, x)
    <3> HIDE DEF t, x
    <3>1. Append(t, x) \in Seq(X) /\ Len(Append(t, x)) = n + 1
        BY <2>2, <2>3, <2>4
    <3>2. \A i \in 1 .. n + 1 : Append(t, x)[i] = s[i]
        BY <2>2, <2>3, <2>4 DEF x
    <3> QED BY <3>1, <3>2, SeqEqual
  <2>6. t \in T
    <3> HIDE DEF t
    <3> QED BY <1>2, <2>2, <2>3
  <2> HIDE DEF t, x
  <2> QED BY <2>2, <2>4, <2>5, <2>6
<1>3. Nat \subseteq N
  <2> HIDE DEF N
  <2> QED BY <1>1, <1>2, NumberInduction
<1> QED BY <1>3

(* Going through a sequence is possible in one way. *)
LEMMA TakingExists ==
    ASSUME NEW X, NEW list \in Seq(X), NEW A, NEW base, base \in A, NEW next, Closed(A, X, next)
    PROVE  /\ \E sofar : Taking(list, A, base, next, sofar)
           /\ \A one, other : Taking(list, A, base, next, one) /\ Taking(list, A, base, next, other)
                  => \A n \in 0 .. Len(list) : one[n] = other[n]
<1>1. \E sofar : Taking(list, A, base, next, sofar)
  <2>1. PICK g : /\ Unfolding(list, base, next, g)
                 /\ \A s \in SUBSET DOMAIN list :
                       s # {} => g[s \ {Max(s)}] \in A /\ list[Max(s)] \in X
      BY UnfoldingExists
  <2>2. Unfolded(list, X, A, base, next, g)  BY <2>1 DEF Unfolding, Unfolded
  <2> QED BY <2>2, UnfoldingTakes
<1>2. ASSUME NEW one, NEW other, Taking(list, A, base, next, one), Taking(list, A, base, next, other)
      PROVE  \A n \in 0 .. Len(list) : one[n] = other[n]
  <2> DEFINE T == {n \in Nat : n \in 0 .. Len(list) => one[n] = other[n]}
  <2>1. Len(list) \in Nat  OBVIOUS
  <2>2. 0 \in T  BY <1>2 DEF Taking
  <2>3. ASSUME NEW n \in Nat, n \in T  PROVE n + 1 \in T
    <3> SUFFICES ASSUME n + 1 \in 0 .. Len(list)  PROVE one[n + 1] = other[n + 1]
        OBVIOUS
    <3>1. n \in 0 .. Len(list) - 1 /\ n \in 0 .. Len(list)  BY <2>1
    <3> QED BY <1>2, <2>3, <3>1 DEF Taking
  <2>4. Nat \subseteq T
    <3> HIDE DEF T
    <3> QED BY <2>2, <2>3, NumberInduction
  <2> QED BY <2>1, <2>4
<1> QED BY <1>1, <1>2

(* The result of going through a sequence in any way. *)
LEMMA ResultIs ==
    ASSUME NEW X, NEW list \in Seq(X), NEW A, NEW base, base \in A, NEW next, Closed(A, X, next),
           NEW sofar, Taking(list, A, base, next, sofar)
    PROVE  Results(X, A, base, next)[list] = sofar[Len(list)]
<1> DEFINE chosen == CHOOSE one : Taking(list, A, base, next, one)
<1>1. Taking(list, A, base, next, chosen)  OBVIOUS
<1> HIDE DEF chosen
<1>2. Len(list) \in 0 .. Len(list)  OBVIOUS
<1>3. chosen[Len(list)] = sofar[Len(list)]  BY <1>1, <1>2, TakingExists
<1> QED BY <1>3 DEF Results, chosen

(* A fold is that result. *)
LEMMA FoldIs ==
    ASSUME NEW X, NEW list \in Seq(X), NEW A, NEW base, base \in A, NEW next, Closed(A, X, next),
           NEW g, \A f : UnfoldingIn(list, X, A, base, next, f) => Unfolded(list, X, A, base, next, g)
    PROVE  g[DOMAIN list] = Results(X, A, base, next)[list]
<1>1. PICK sofar : Taking(list, A, base, next, sofar) /\ g[DOMAIN list] = sofar[Len(list)]
    BY FoldTakes
<1> QED BY <1>1, ResultIs

(* The result takes one more element at a time. *)
LEMMA ResultsGrow ==
    ASSUME NEW X, NEW A, NEW base, base \in A, NEW next, Closed(A, X, next)
    PROVE  Growing(X, A, base, next, Results(X, A, base, next))
<1> DEFINE R == Results(X, A, base, next)
<1>0. ASSUME NEW s \in Seq(X), Len(s) = 0  PROVE R[s] = base
  <2>1. PICK sofar : Taking(s, A, base, next, sofar)  BY TakingExists
  <2>2. R[s] = sofar[Len(s)]  BY <2>1, ResultIs
  <2> QED BY <1>0, <2>1, <2>2 DEF Taking
<1>1. R[<<>>] = base
  <2>1. <<>> \in Seq(X) /\ Len(<<>>) = 0  OBVIOUS
  <2> HIDE DEF R
  <2> QED BY <1>0, <2>1, Zenon
<1>2. ASSUME NEW s \in Seq(X)  PROVE R[s] \in A
  <2>1. PICK sofar : Taking(s, A, base, next, sofar)  BY TakingExists
  <2>2. R[s] = sofar[Len(s)] /\ Len(s) \in 0 .. Len(s)  BY <2>1, ResultIs
  <2> QED BY <2>1, <2>2 DEF Taking
<1>3. ASSUME NEW s \in Seq(X), NEW x \in X  PROVE R[Append(s, x)] = next[<<R[s], x>>]
  <2> DEFINE more == Append(s, x)
             k == Len(s)
  <2>1. /\ more \in Seq(X) /\ Len(more) = k + 1 /\ k \in Nat
        /\ more[k + 1] = x /\ \A i \in 1 .. k : more[i] = s[i]
      OBVIOUS
  <2> HIDE DEF more
  <2>2. PICK all : Taking(more, A, base, next, all)  BY <2>1, TakingExists
  <2> DEFINE part == [n \in 0 .. k |-> all[n]]
  <2>3. Taking(s, A, base, next, part)
    <3>1. part \in [0 .. k -> A] /\ part[0] = base  BY <2>1, <2>2 DEF Taking
    <3>2. ASSUME NEW n \in 0 .. k - 1  PROVE part[n + 1] = next[<<part[n], s[n + 1]>>]
      <4>1. n \in 0 .. Len(more) - 1 /\ n \in 0 .. k /\ n + 1 \in 0 .. k /\ n + 1 \in 1 .. k
          BY <2>1
      <4>2. all[n + 1] = next[<<all[n], more[n + 1]>>]
          BY <2>2, <4>1 DEF Taking
      <4> QED BY <2>1, <4>1, <4>2
    <3> QED BY <3>1, <3>2 DEF Taking
  <2>4. part[k] = all[k] /\ k \in 0 .. k  BY <2>1
  <2> HIDE DEF part
  <2>5. R[s] = part[k]  BY <2>3, ResultIs
  <2>6. all[k + 1] = next[<<all[k], x>>]
    <3>1. k \in 0 .. Len(more) - 1  BY <2>1
    <3> QED BY <2>1, <2>2, <3>1 DEF Taking
  <2>7. R[more] = all[k + 1]  BY <2>1, <2>2, ResultIs
  <2> QED BY <2>4, <2>5, <2>6, <2>7 DEF more
<1> QED BY <1>1, <1>2, <1>3 DEF Growing

-----------------------------------------------------------------------------
(* The folds of the text pipeline, one more element at a time. *)

(* The tokens of a text with one more line. *)
LEMMA TextTokensGrow ==
    /\ TextTokens(<<>>) = 0
    /\ \A s \in Seq(AllLines) : TextTokens(s) \in Nat
    /\ \A s \in Seq(AllLines), line \in AllLines : TextTokens(Append(s, line)) = TextTokens(s) + LineTokens(line)
<1> DEFINE
      X == AllLines
      B == Nat
      base == 0
      Op(a, line) == a + LineTokens(line)
      next == [p \in B \X X |-> Op(p[1], p[2])]
      F(list, f) == f = [places \in SUBSET DOMAIN list |->
                            IF places = {} THEN base
                            ELSE Op(f[places \ {Max(places)}], list[Max(places)])]
      g(list) == CHOOSE f : F(list, f)
      R == Results(X, B, base, next)
<1>1. \A list : TextTokens(list) = g(list)[DOMAIN list]
    BY DEF TextTokens, FoldLeft, MapThenFoldSet
<1>2. base \in B  OBVIOUS
<1>3. \A a \in B, y \in X : Op(a, y) \in B  BY LineTokensAre
<1>4. \A s, y : Op(TextTokens(s), y) = TextTokens(s) + LineTokens(y)  OBVIOUS
<1> HIDE DEF B, Op, base
<1>5. \A a \in B, y \in X : next[<<a, y>>] = Op(a, y) /\ Op(a, y) \in B
    BY <1>3
<1> HIDE DEF next
<1>6. Closed(B, X, next)  BY <1>5 DEF Closed
<1>7. ASSUME NEW list \in Seq(X)  PROVE g(list)[DOMAIN list] = R[list]
  <2>1. ASSUME NEW f, UnfoldingIn(list, X, B, base, next, f)
        PROVE  Unfolded(list, X, B, base, next, g(list))
    <3>1. F(list, f)  BY <1>5, <2>1 DEF UnfoldingIn, Unfolding
    <3> HIDE DEF F
    <3>2. F(list, g(list))  BY <3>1
    <3> HIDE DEF g
    <3> QED BY <1>5, <3>2 DEF Unfolded, F
  <2> HIDE DEF F, g, X
  <2> QED BY <1>2, <1>6, <2>1, FoldIs
<1> HIDE DEF F, g
<1>8. \A list \in Seq(X) : TextTokens(list) = R[list]  BY <1>1, <1>7
<1>9. <<>> \in Seq(X) /\ \A s \in Seq(X), y \in X : Append(s, y) \in Seq(X)
    OBVIOUS
<1> HIDE DEF X, R
<1>10. Growing(X, B, base, next, R)  BY <1>2, <1>6, ResultsGrow DEF R
<1>11. \A s \in Seq(X) : R[s] \in B  BY <1>10 DEF Growing
<1>12. \A s \in Seq(X), y \in X : R[Append(s, y)] = next[<<R[s], y>>]
    BY <1>10 DEF Growing
<1>13. R[<<>>] = base  BY <1>10 DEF Growing
<1>14. \A s \in Seq(X), y \in X : TextTokens(Append(s, y)) = Op(TextTokens(s), y)
  <2> TAKE s \in Seq(X), y \in X
  <2>1. Append(s, y) \in Seq(X)  BY <1>9
  <2>2. TextTokens(Append(s, y)) = R[Append(s, y)] /\ TextTokens(s) = R[s]
      BY <1>8, <2>1
  <2>3. R[Append(s, y)] = next[<<R[s], y>>] /\ R[s] \in B  BY <1>11, <1>12
  <2> QED BY <1>5, <2>2, <2>3
<1>15. \A s \in Seq(X) : TextTokens(s) \in B  BY <1>8, <1>11
<1>16. TextTokens(<<>>) = base  BY <1>8, <1>9, <1>13
<1>17. \A s \in Seq(X), line \in X : TextTokens(Append(s, line)) = TextTokens(s) + LineTokens(line)
    BY <1>4, <1>14
<1>18. /\ TextTokens(<<>>) = base
       /\ \A s \in Seq(X) : TextTokens(s) \in B
       /\ \A s \in Seq(X), line \in X : TextTokens(Append(s, line)) = TextTokens(s) + LineTokens(line)
    BY <1>15, <1>16, <1>17
<1> QED BY <1>18, Zenon DEF B, base, X

-----------------------------------------------------------------------------
(* Sequences, joined and cut. *)

(* A sequence joined to one with one more element. *)
LEMMA JoinedAppend ==
    ASSUME NEW X, NEW s \in Seq(X), NEW t \in Seq(X), NEW x \in X
    PROVE  s \o t \in Seq(X) /\ s \o Append(t, x) = Append(s \o t, x) /\ s \o <<>> = s
<1>1. s \o t \in Seq(X)  OBVIOUS
<1>2. s \o <<>> = s  BY ConcatEmptySeq
<1>3. Append(t, x) = t \o <<x>> /\ Append(s \o t, x) = (s \o t) \o <<x>>
    BY <1>1, AppendIsConcat
<1>4. <<x>> \in Seq(X)  OBVIOUS
<1>5. (s \o t) \o <<x>> = s \o (t \o <<x>>)  BY <1>4, ConcatAssociative
<1> QED BY <1>1, <1>2, <1>3, <1>5

(* A sequence is its front and its last element. *)
LEMMA FrontAndLast ==
    ASSUME NEW X, NEW s \in Seq(X), s # <<>>
    PROVE  Front(s) \in Seq(X) /\ Last(s) \in X /\ s = Append(Front(s), Last(s))
<1> DEFINE k == Len(s)
<1>1. k \in Nat /\ k >= 1 /\ \A i \in 1 .. k : s[i] \in X  OBVIOUS
<1>2. /\ Front(s) \in Seq(X) /\ Len(Front(s)) = k - 1
      /\ \A i \in 1 .. k - 1 : Front(s)[i] = s[i]
  <2>1. /\ SubSeq(s, 1, k - 1) \in Seq(X)
        /\ Len(SubSeq(s, 1, k - 1)) = IF 1 <= k - 1 THEN (k - 1) - 1 + 1 ELSE 0
        /\ \A i \in 1 .. (k - 1) - 1 + 1 : SubSeq(s, 1, k - 1)[i] = s[1 + i - 1]
      BY <1>1, SubSeqProperties
  <2> DEFINE f == SubSeq(s, 1, k - 1)
  <2>2. (k - 1) - 1 + 1 = k - 1 /\ \A i \in 1 .. k - 1 : 1 + i - 1 = i
      BY <1>1
  <2>3. f \in Seq(X) /\ Len(f) = k - 1 /\ \A i \in 1 .. k - 1 : f[i] = s[i]
    <3> HIDE DEF f
    <3> QED BY <1>1, <2>1, <2>2 DEF f
  <2> QED BY <2>3 DEF Front
<1>3. Last(s) = s[k] /\ Last(s) \in X  BY <1>1 DEF Last
<1> DEFINE t == Append(Front(s), Last(s))
<1>4. t \in Seq(X) /\ Len(t) = k /\ \A i \in 1 .. k : t[i] = s[i]
  <2> HIDE DEF k
  <2>1. /\ t \in Seq(X) /\ Len(t) = Len(Front(s)) + 1
        /\ \A i \in 1 .. Len(Front(s)) : t[i] = Front(s)[i]
        /\ t[Len(Front(s)) + 1] = Last(s)
      BY <1>2, <1>3, AppendProperties
  <2> HIDE DEF t
  <2> QED BY <1>1, <1>2, <1>3, <2>1
<1>5. s = t
  <2> HIDE DEF t
  <2> QED BY <1>4, SeqEqual DEF k
<1> QED BY <1>2, <1>3, <1>5

(* A sequence is its head and its tail. *)
LEMMA HeadAndTail ==
    ASSUME NEW X, NEW s \in Seq(X), s # <<>>
    PROVE  Head(s) \in X /\ Tail(s) \in Seq(X) /\ s = <<Head(s)>> \o Tail(s)
<1>1. Head(s) \in X /\ Tail(s) \in Seq(X) /\ Len(s) \in Nat /\ Len(s) >= 1 /\ Head(s) = s[1]
    BY HeadTailProperties
<1>2. SubSeq(s, 1, Len(s)) = <<s[1]>> \o SubSeq(s, 1 + 1, Len(s))
    BY <1>1, SubSeqRecursiveFirst
<1>3. SubSeq(s, 1, Len(s)) = s  BY SubSeqFull
<1>4. Tail(s) = SubSeq(s, 2, Len(s)) /\ 1 + 1 = 2  BY TailIsSubSeq
<1> QED BY <1>1, <1>2, <1>3, <1>4

(* A part of a sequence. *)
LEMMA PartOf ==
    ASSUME NEW X, NEW s \in Seq(X), NEW i \in 1 .. Len(s) + 1, NEW j \in (i - 1) .. Len(s)
    PROVE  /\ SubSeq(s, i, j) \in Seq(X) /\ Len(SubSeq(s, i, j)) = j - i + 1
           /\ \A n \in 1 .. j - i + 1 : SubSeq(s, i, j)[n] = s[i + n - 1]
<1>1. i \in Int /\ j \in Int /\ Len(s) \in Nat  OBVIOUS
<1>2. \A n \in i .. j : s[n] \in X  OBVIOUS
<1> DEFINE part == SubSeq(s, i, j)
<1>3. /\ part \in Seq(X)
      /\ Len(part) = IF i <= j THEN j - i + 1 ELSE 0
      /\ \A n \in 1 .. j - i + 1 : part[n] = s[i + n - 1]
    BY <1>1, <1>2, SubSeqProperties
<1> HIDE DEF part
<1>4. Len(part) = j - i + 1  BY <1>1, <1>3
<1> QED BY <1>3, <1>4 DEF part

(* A sequence cut in three. *)
LEMMA CutInThree ==
    ASSUME NEW X, NEW s \in Seq(X), NEW i \in 1 .. Len(s), NEW j \in i .. Len(s)
    PROVE  s = (SubSeq(s, 1, i - 1) \o SubSeq(s, i, j)) \o SubSeq(s, j + 1, Len(s))
<1>1. Len(s) \in Nat /\ i \in Int /\ j \in Int  OBVIOUS
<1>2. SubSeq(s, 1, i - 1) \o SubSeq(s, (i - 1) + 1, j) = SubSeq(s, 1, j)
  <2>1. 1 \in 1 .. Len(s) + 1 /\ i - 1 \in 1 - 1 .. Len(s) /\ j \in i - 1 .. Len(s)
      BY <1>1
  <2> QED BY <2>1, ConcatAdjacentSubSeq
<1>3. SubSeq(s, 1, j) \o SubSeq(s, j + 1, Len(s)) = SubSeq(s, 1, Len(s))
  <2>1. 1 \in 1 .. Len(s) + 1 /\ j \in 1 - 1 .. Len(s) /\ Len(s) \in j .. Len(s)
      BY <1>1
  <2> QED BY <2>1, ConcatAdjacentSubSeq
<1>4. SubSeq(s, 1, Len(s)) = s  BY SubSeqFull
<1>5. (i - 1) + 1 = i  BY <1>1
<1> QED BY <1>2, <1>3, <1>4, <1>5

-----------------------------------------------------------------------------
(* The tokens of lines and texts put together. *)

(* The tokens of a sequence of pieces. *)
SizeOf(pieces) == FoldLeft(LAMBDA n, p : n + p.size, 0, pieces)

(* The tokens of pieces, one more at a time. *)
LEMMA SizeOfGrow ==
    /\ SizeOf(<<>>) = 0
    /\ \A s \in Seq(Pieces) : SizeOf(s) \in Nat
    /\ \A s \in Seq(Pieces), piece \in Pieces : SizeOf(Append(s, piece)) = SizeOf(s) + piece.size
<1> DEFINE
      X == Pieces
      B == Nat
      base == 0
      Op(a, piece) == a + piece.size
      next == [p \in B \X X |-> Op(p[1], p[2])]
      F(list, f) == f = [places \in SUBSET DOMAIN list |->
                            IF places = {} THEN base
                            ELSE Op(f[places \ {Max(places)}], list[Max(places)])]
      g(list) == CHOOSE f : F(list, f)
      R == Results(X, B, base, next)
<1>1. \A list : SizeOf(list) = g(list)[DOMAIN list]
    BY DEF SizeOf, FoldLeft, MapThenFoldSet
<1>2. base \in B  OBVIOUS
<1>3. \A a \in B, y \in X : Op(a, y) \in B  BY DEF Pieces
<1>4. \A s, y : Op(SizeOf(s), y) = SizeOf(s) + y.size  OBVIOUS
<1> HIDE DEF B, Op, base
<1>5. \A a \in B, y \in X : next[<<a, y>>] = Op(a, y) /\ Op(a, y) \in B
    BY <1>3
<1> HIDE DEF next
<1>6. Closed(B, X, next)  BY <1>5 DEF Closed
<1>7. ASSUME NEW list \in Seq(X)  PROVE g(list)[DOMAIN list] = R[list]
  <2>1. ASSUME NEW f, UnfoldingIn(list, X, B, base, next, f)
        PROVE  Unfolded(list, X, B, base, next, g(list))
    <3>1. F(list, f)  BY <1>5, <2>1 DEF UnfoldingIn, Unfolding
    <3> HIDE DEF F
    <3>2. F(list, g(list))  BY <3>1
    <3> HIDE DEF g
    <3> QED BY <1>5, <3>2 DEF Unfolded, F
  <2> HIDE DEF F, g, X
  <2> QED BY <1>2, <1>6, <2>1, FoldIs
<1> HIDE DEF F, g
<1>8. \A list \in Seq(X) : SizeOf(list) = R[list]  BY <1>1, <1>7
<1>9. <<>> \in Seq(X) /\ \A s \in Seq(X), y \in X : Append(s, y) \in Seq(X)
    OBVIOUS
<1> HIDE DEF X, R
<1>10. Growing(X, B, base, next, R)  BY <1>2, <1>6, ResultsGrow DEF R
<1>11. \A s \in Seq(X) : R[s] \in B  BY <1>10 DEF Growing
<1>12. \A s \in Seq(X), y \in X : R[Append(s, y)] = next[<<R[s], y>>]
    BY <1>10 DEF Growing
<1>13. R[<<>>] = base  BY <1>10 DEF Growing
<1>14. \A s \in Seq(X), y \in X : SizeOf(Append(s, y)) = Op(SizeOf(s), y)
  <2> TAKE s \in Seq(X), y \in X
  <2>1. Append(s, y) \in Seq(X)  BY <1>9
  <2>2. SizeOf(Append(s, y)) = R[Append(s, y)] /\ SizeOf(s) = R[s]
      BY <1>8, <2>1
  <2>3. R[Append(s, y)] = next[<<R[s], y>>] /\ R[s] \in B  BY <1>11, <1>12
  <2> QED BY <1>5, <2>2, <2>3
<1>15. \A s \in Seq(X) : SizeOf(s) \in B  BY <1>8, <1>11
<1>16. SizeOf(<<>>) = base  BY <1>8, <1>9, <1>13
<1>17. \A s \in Seq(X), piece \in X : SizeOf(Append(s, piece)) = SizeOf(s) + piece.size
    BY <1>4, <1>14
<1>18. /\ SizeOf(<<>>) = base
       /\ \A s \in Seq(X) : SizeOf(s) \in B
       /\ \A s \in Seq(X), piece \in X : SizeOf(Append(s, piece)) = SizeOf(s) + piece.size
    BY <1>15, <1>16, <1>17
<1> QED BY <1>18, Zenon DEF B, base, X

(* The tokens of a line are those of its pieces. *)
LEMMA TokensOfPieces == \A line : LineTokens(line) = SizeOf(line.pieces)
BY DEF LineTokens, SizeOf

(* The tokens of pieces put together add up. *)
LEMMA SizeOfJoined ==
    ASSUME NEW s \in Seq(Pieces), NEW t \in Seq(Pieces)
    PROVE  /\ SizeOf(s \o t) = SizeOf(s) + SizeOf(t)
           /\ s \o t \in Seq(Pieces) /\ SizeOf(s) \in Nat /\ SizeOf(t) \in Nat
<1> DEFINE T == {u \in Seq(Pieces) : SizeOf(s \o u) = SizeOf(s) + SizeOf(u)}
<1>1. \A u \in Seq(Pieces) : SizeOf(u) \in Nat  BY SizeOfGrow
<1>2. <<>> \in T
  <2>1. s \o <<>> = s /\ <<>> \in Seq(Pieces)  BY ConcatEmptySeq
  <2>2. SizeOf(<<>>) = 0  BY SizeOfGrow
  <2> QED BY <1>1, <2>1, <2>2
<1>3. ASSUME NEW u \in Seq(Pieces), NEW x \in Pieces, u \in T  PROVE Append(u, x) \in T
  <2>1. s \o u \in Seq(Pieces) /\ s \o Append(u, x) = Append(s \o u, x)
      BY JoinedAppend
  <2>2. SizeOf(Append(u, x)) = SizeOf(u) + x.size  BY SizeOfGrow
  <2>3. SizeOf(Append(s \o u, x)) = SizeOf(s \o u) + x.size
      BY <2>1, SizeOfGrow
  <2>4. x.size \in Nat /\ SizeOf(s) \in Nat /\ SizeOf(u) \in Nat
      BY <1>1 DEF Pieces
  <2>5. SizeOf(s \o u) = SizeOf(s) + SizeOf(u)  BY <1>3
  <2>6. SizeOf(s \o Append(u, x)) = SizeOf(s) + SizeOf(Append(u, x))
      BY <2>1, <2>2, <2>3, <2>4, <2>5
  <2>7. Append(u, x) \in Seq(Pieces)  OBVIOUS
  <2> QED BY <2>6, <2>7
<1>4. Seq(Pieces) \subseteq T
  <2> HIDE DEF T
  <2> QED BY <1>2, <1>3, SequenceInduction
<1>5. s \o t \in Seq(Pieces)  OBVIOUS
<1> QED BY <1>1, <1>4, <1>5

(* The tokens of texts put together add up. *)
LEMMA TokensJoined ==
    ASSUME NEW s \in Texts, NEW t \in Texts
    PROVE  /\ TextTokens(s \o t) = TextTokens(s) + TextTokens(t)
           /\ s \o t \in Texts /\ TextTokens(s) \in Nat /\ TextTokens(t) \in Nat
<1> DEFINE T == {u \in Seq(AllLines) : TextTokens(s \o u) = TextTokens(s) + TextTokens(u)}
<1>0. s \in Seq(AllLines) /\ t \in Seq(AllLines)  BY DEF Texts
<1>1. \A u \in Seq(AllLines) : TextTokens(u) \in Nat  BY TextTokensGrow
<1>2. <<>> \in T
  <2>1. s \o <<>> = s /\ <<>> \in Seq(AllLines)  BY <1>0, ConcatEmptySeq
  <2>2. TextTokens(<<>>) = 0  BY TextTokensGrow
  <2> QED BY <1>0, <1>1, <2>1, <2>2
<1>3. ASSUME NEW u \in Seq(AllLines), NEW x \in AllLines, u \in T  PROVE Append(u, x) \in T
  <2>1. s \o u \in Seq(AllLines) /\ s \o Append(u, x) = Append(s \o u, x)
      BY <1>0, JoinedAppend
  <2>2. TextTokens(Append(u, x)) = TextTokens(u) + LineTokens(x)
      BY TextTokensGrow
  <2>3. TextTokens(Append(s \o u, x)) = TextTokens(s \o u) + LineTokens(x)
      BY <2>1, TextTokensGrow
  <2>4. LineTokens(x) \in Nat /\ TextTokens(s) \in Nat /\ TextTokens(u) \in Nat
      BY <1>0, <1>1, LineTokensAre
  <2>5. TextTokens(s \o u) = TextTokens(s) + TextTokens(u)  BY <1>3
  <2>6. TextTokens(s \o Append(u, x)) = TextTokens(s) + TextTokens(Append(u, x))
      BY <2>1, <2>2, <2>3, <2>4, <2>5
  <2>7. Append(u, x) \in Seq(AllLines)  OBVIOUS
  <2> QED BY <2>6, <2>7
<1>4. Seq(AllLines) \subseteq T
  <2> HIDE DEF T
  <2> QED BY <1>2, <1>3, SequenceInduction
<1>5. s \o t \in Texts  BY <1>0 DEF Texts
<1> QED BY <1>0, <1>1, <1>4, <1>5

(* A text of blank lines. *)
AllBlank(text) == \A i \in DOMAIN text : text[i].kind = "blank"

(* Blank lines have no tokens. *)
LEMMA BlankTokens ==
    ASSUME NEW s \in Texts, AllBlank(s)
    PROVE  TextTokens(s) = 0
<1> DEFINE T == {u \in Seq(AllLines) : AllBlank(u) => TextTokens(u) = 0}
<1>1. <<>> \in T  BY TextTokensGrow
<1>2. ASSUME NEW u \in Seq(AllLines), NEW x \in AllLines, u \in T  PROVE Append(u, x) \in T
  <2>1. Append(u, x) \in Seq(AllLines)  OBVIOUS
  <2>2. SUFFICES ASSUME AllBlank(Append(u, x))  PROVE TextTokens(Append(u, x)) = 0
      BY <2>1
  <2>3. /\ \A i \in 1 .. Len(u) : Append(u, x)[i] = u[i] /\ i \in DOMAIN Append(u, x)
        /\ Append(u, x)[Len(u) + 1] = x /\ Len(u) + 1 \in DOMAIN Append(u, x)
        /\ DOMAIN u = 1 .. Len(u)
      OBVIOUS
  <2>4. x.kind = "blank" /\ AllBlank(u)  BY <2>2, <2>3 DEF AllBlank
  <2>5. TextTokens(Append(u, x)) = TextTokens(u) + LineTokens(x)
      BY TextTokensGrow
  <2>6. LineTokens(x) = 0 /\ TextTokens(u) = 0  BY <1>2, <2>4, LineTokensAre
  <2> QED BY <2>5, <2>6
<1>3. Seq(AllLines) \subseteq T
  <2> HIDE DEF T
  <2> QED BY <1>1, <1>2, SequenceInduction
<1> QED BY <1>3 DEF Texts

(* A text with a line that is not blank has tokens. *)
LEMMA SomeTokens ==
    ASSUME NEW s \in Texts, NEW i \in DOMAIN s, s[i].kind # "blank"
    PROVE  TextTokens(s) > 0
<1>1. s \in Seq(AllLines) /\ Len(s) \in Nat /\ i \in 1 .. Len(s) /\ s[i] \in AllLines
    BY DEF Texts
<1> DEFINE a == SubSeq(s, 1, i - 1)
           b == SubSeq(s, i, i)
           c == SubSeq(s, i + 1, Len(s))
<1>2. s = (a \o b) \o c
  <2>1. i \in i .. Len(s)  BY <1>1
  <2> QED BY <1>1, <2>1, CutInThree
<1>3. a \in Seq(AllLines) /\ c \in Seq(AllLines)
  <2>1. /\ 1 \in 1 .. Len(s) + 1 /\ i - 1 \in 1 - 1 .. Len(s)
        /\ i + 1 \in 1 .. Len(s) + 1 /\ Len(s) \in (i + 1) - 1 .. Len(s)
      BY <1>1
  <2> QED BY <1>1, <2>1, PartOf
<1>4. b \in Seq(AllLines) /\ Len(b) = 1 /\ b[1] = s[i]
  <2>1. i \in 1 .. Len(s) + 1 /\ i \in i - 1 .. Len(s) /\ i - i + 1 = 1 /\ i + 1 - 1 = i
      BY <1>1
  <2>2. /\ b \in Seq(AllLines) /\ Len(b) = i - i + 1
        /\ \A n \in 1 .. i - i + 1 : b[n] = s[i + n - 1]
      BY <1>1, <2>1, PartOf
  <2> HIDE DEF b
  <2> QED BY <2>1, <2>2
<1> HIDE DEF a, b, c
<1>5. b = Append(<<>>, s[i])  BY <1>1, <1>4
<1>6. TextTokens(b) = LineTokens(s[i])
  <2>1. TextTokens(Append(<<>>, s[i])) = TextTokens(<<>>) + LineTokens(s[i])
    <3>1. <<>> \in Seq(AllLines)  OBVIOUS
    <3> QED BY <1>1, <3>1, TextTokensGrow
  <2>2. LineTokens(s[i]) \in Nat /\ TextTokens(<<>>) = 0
      BY <1>1, LineTokensAre, TextTokensGrow
  <2> QED BY <1>5, <2>1, <2>2
<1>7. LineTokens(s[i]) \in Nat /\ LineTokens(s[i]) # 0  BY <1>1, LineTokensAre
<1>8. /\ TextTokens(a \o b) = TextTokens(a) + TextTokens(b) /\ a \o b \in Texts
      /\ TextTokens(a) \in Nat /\ TextTokens(b) \in Nat
    BY <1>3, <1>4, TokensJoined DEF Texts
<1>9. TextTokens((a \o b) \o c) = TextTokens(a \o b) + TextTokens(c) /\ TextTokens(c) \in Nat
    BY <1>3, <1>8, TokensJoined DEF Texts
<1> QED BY <1>2, <1>6, <1>7, <1>8, <1>9

-----------------------------------------------------------------------------
(* Cleaning: the lines stay lines, and no tokens are lost. *)

(* The lines without hidden characters. *)
Clear == {line \in AllLines : "hidden" \notin line.dirt}

(* They are lines, and texts are made of them. *)
LEMMA ClearLines == Clear \subseteq AllLines /\ Seq(Clear) \subseteq Texts
BY SeqMonotonic DEF Clear, Texts

(* The fields of a line, and the line with other dirt. *)
LEMMA LineIs ==
    ASSUME NEW line \in AllLines
    PROVE  /\ line.kind \in Kinds /\ line.pieces \in Seq(Pieces)
           /\ line.dirt \in SUBSET {"hidden", "trailing", "hyphen"}
           /\ (line.kind = "blank" <=> line.pieces = <<>>)
           /\ \A dirt \in SUBSET {"hidden", "trailing", "hyphen"} :
                  LET other == [line EXCEPT !.dirt = dirt] IN
                  /\ other \in AllLines /\ other.kind = line.kind /\ other.dirt = dirt
                  /\ other.pieces = line.pieces
<1>1. /\ line \in [kind : Kinds, pieces : Seq(Pieces), dirt : SUBSET {"hidden", "trailing", "hyphen"}]
      /\ (line.kind = "blank" <=> line.pieces = <<>>)
    BY DEF AllLines
<1>2. ASSUME NEW dirt \in SUBSET {"hidden", "trailing", "hyphen"}
      PROVE  LET other == [line EXCEPT !.dirt = dirt] IN
             /\ other \in AllLines /\ other.kind = line.kind /\ other.dirt = dirt
             /\ other.pieces = line.pieces
  <2> DEFINE other == [line EXCEPT !.dirt = dirt]
  <2>1. other \in [kind : Kinds, pieces : Seq(Pieces), dirt : SUBSET {"hidden", "trailing", "hyphen"}]
      BY <1>1
  <2>2. other.kind = line.kind /\ other.dirt = dirt /\ other.pieces = line.pieces
      BY <1>1
  <2> HIDE DEF other
  <2>3. other \in AllLines  BY <1>1, <2>1, <2>2 DEF AllLines
  <2> QED BY <2>2, <2>3 DEF other
<1> QED BY <1>1, <1>2

(* A line without the spaces at its end has the same tokens. *)
LEMMA StrippedIs ==
    ASSUME NEW line \in AllLines
    PROVE  /\ Stripped(line) \in AllLines /\ Stripped(line).kind = line.kind
           /\ LineTokens(Stripped(line)) = LineTokens(line)
           /\ line \in Clear => Stripped(line) \in Clear
           /\ Stripped(Stripped(line)) = Stripped(line)
<1> DEFINE dirt == line.dirt \ {"trailing"}
           other == [line EXCEPT !.dirt = dirt]
<1>1. dirt \in SUBSET {"hidden", "trailing", "hyphen"}  BY LineIs
<1>2. Stripped(line) = other  BY DEF Stripped
<1>3. /\ other \in AllLines /\ other.kind = line.kind /\ other.dirt = dirt
      /\ other.pieces = line.pieces
  <2> HIDE DEF dirt
  <2> QED BY <1>1, LineIs
<1>4. LineTokens(other) = LineTokens(line)
  <2> HIDE DEF other
  <2> QED BY <1>3, TokensOfPieces
<1>5. line \in Clear => other \in Clear
  <2> HIDE DEF other
  <2> QED BY <1>3 DEF Clear
<1>6. [other EXCEPT !.dirt = other.dirt \ {"trailing"}] = other
  <2>1. other.dirt \ {"trailing"} = dirt /\ other.dirt = dirt  BY <1>3
  <2>2. line \in [kind : Kinds, pieces : Seq(Pieces), dirt : SUBSET {"hidden", "trailing", "hyphen"}]
      BY DEF AllLines
  <2> HIDE DEF dirt
  <2> QED BY <2>1, <2>2
<1>7. Stripped(other) = other  BY <1>6 DEF Stripped
<1> QED BY <1>2, <1>3, <1>4, <1>5, <1>7

(* Removing hidden characters removes no tokens. *)
LEMMA ControlsRemoved ==
    ASSUME NEW text \in Texts
    PROVE  /\ RemoveControls(text) \in Seq(Clear)
           /\ TextTokens(RemoveControls(text)) = TextTokens(text)
<1> DEFINE other == RemoveControls(text)
           k == Len(text)
<1>1. k \in Nat /\ DOMAIN text = 1 .. k /\ text \in Seq(AllLines) /\ \A i \in 1 .. k : text[i] \in AllLines
    BY DEF Texts
<1>2. other = [i \in 1 .. k |-> other[i]]  BY <1>1 DEF RemoveControls
<1>3. ASSUME NEW i \in 1 .. k
      PROVE  other[i] \in Clear /\ LineTokens(other[i]) = LineTokens(text[i])
  <2> DEFINE line == text[i]
             dirt == line.dirt \ {"hidden"}
             clear == [line EXCEPT !.dirt = dirt]
  <2>1. other[i] = clear  BY <1>1 DEF RemoveControls
  <2>2. line \in AllLines  BY <1>1
  <2> HIDE DEF line
  <2>3. dirt \in SUBSET {"hidden", "trailing", "hyphen"}  BY <2>2, LineIs
  <2>4. clear \in AllLines /\ clear.pieces = line.pieces /\ clear.dirt = dirt
    <3> HIDE DEF dirt
    <3> QED BY <2>2, <2>3, LineIs
  <2> HIDE DEF clear
  <2>5. clear \in Clear /\ LineTokens(clear) = LineTokens(line)
      BY <2>4, TokensOfPieces DEF Clear
  <2> QED BY <2>1, <2>5 DEF line
<1> HIDE DEF other
<1>4. other \in Seq(Clear) /\ Len(other) = k
  <2>1. other \in [1 .. k -> Clear]  BY <1>2, <1>3
  <2> QED BY <1>1, <2>1
<1>5. PICK sums : Adding(text, sums) /\ TextTokens(text) = sums[k]
    BY TextAdded
<1>6. Adding(other, sums)  BY <1>1, <1>3, <1>4, <1>5 DEF Adding
<1>7. other \in Texts  BY <1>4, ClearLines
<1>8. TextTokens(other) = sums[k]  BY <1>4, <1>6, <1>7, TokensAre
<1> QED BY <1>4, <1>5, <1>8 DEF other

(* A broken word that is joined keeps the tokens of both lines. *)
LEMMA JoinedIs ==
    ASSUME NEW first \in Clear, NEW second \in Clear, Continues(first, second)
    PROVE  /\ Joined(first, second) \in Clear /\ Joined(first, second).kind = "prose"
           /\ LineTokens(Joined(first, second)) = LineTokens(first) + LineTokens(second)
<1> DEFINE a == first.pieces
           b == second.pieces
           x == Last(a)
           y == Head(b)
           p == [size |-> x.size + y.size, ends |-> y.ends]
           pieces == Front(a) \o <<p>> \o Tail(b)
           joined == [second EXCEPT !.pieces = pieces]
<1>1. /\ first \in AllLines /\ second \in AllLines /\ first.kind = "prose" /\ second.kind = "prose"
      /\ "hidden" \notin second.dirt
    BY DEF Continues, Clear
<1>2. a \in Seq(Pieces) /\ a # <<>> /\ b \in Seq(Pieces) /\ b # <<>>
    BY <1>1, LineIs
<1> HIDE DEF a, b
<1>3. Front(a) \in Seq(Pieces) /\ x \in Pieces /\ a = Append(Front(a), x)
    BY <1>2, FrontAndLast
<1>4. y \in Pieces /\ Tail(b) \in Seq(Pieces) /\ b = <<y>> \o Tail(b)
    BY <1>2, HeadAndTail
<1> HIDE DEF x, y
<1>5. p \in Pieces /\ p.size = x.size + y.size /\ x.size \in Nat /\ y.size \in Nat
    BY <1>3, <1>4 DEF Pieces
<1> HIDE DEF p
<1>6. \A q \in Pieces : <<q>> \in Seq(Pieces) /\ SizeOf(<<q>>) = q.size
  <2> TAKE q \in Pieces
  <2>1. <<>> \in Seq(Pieces) /\ <<q>> = Append(<<>>, q) /\ <<q>> \in Seq(Pieces)
      OBVIOUS
  <2>2. SizeOf(Append(<<>>, q)) = SizeOf(<<>>) + q.size /\ SizeOf(<<>>) = 0 /\ q.size \in Nat
      BY <2>1, SizeOfGrow DEF Pieces
  <2> QED BY <2>1, <2>2
<1>7. SizeOf(a) = SizeOf(Front(a)) + x.size  BY <1>3, SizeOfGrow
<1>8. SizeOf(b) = y.size + SizeOf(Tail(b)) /\ SizeOf(Tail(b)) \in Nat
    BY <1>4, <1>6, SizeOfJoined
<1>9. /\ Front(a) \o <<p>> \in Seq(Pieces) /\ SizeOf(Front(a)) \in Nat
      /\ SizeOf(Front(a) \o <<p>>) = SizeOf(Front(a)) + p.size
    BY <1>3, <1>5, <1>6, SizeOfJoined
<1>10. /\ pieces \in Seq(Pieces)
       /\ SizeOf(pieces) = SizeOf(Front(a) \o <<p>>) + SizeOf(Tail(b))
    BY <1>4, <1>9, SizeOfJoined
<1>11. pieces # <<>>
  <2>1. Len(Front(a) \o <<p>>) > 0 /\ Len(pieces) = Len(Front(a) \o <<p>>) + Len(Tail(b))
      BY <1>3, <1>4, <1>5, <1>6, <1>9
  <2>2. Len(pieces) # 0  BY <1>4, <1>9, <2>1
  <2> QED BY <2>2
<1>12. SizeOf(pieces) = SizeOf(a) + SizeOf(b)
    BY <1>5, <1>7, <1>8, <1>9, <1>10
<1> HIDE DEF pieces
<1>13. /\ joined \in [kind : Kinds, pieces : Seq(Pieces), dirt : SUBSET {"hidden", "trailing", "hyphen"}]
       /\ joined.kind = second.kind /\ joined.pieces = pieces /\ joined.dirt = second.dirt
  <2>1. second \in [kind : Kinds, pieces : Seq(Pieces), dirt : SUBSET {"hidden", "trailing", "hyphen"}]
      BY <1>1 DEF AllLines
  <2> QED BY <1>10, <2>1
<1>14. Joined(first, second) = joined
    BY DEF Joined, joined, pieces, p, x, y, a, b
<1> HIDE DEF joined
<1>15. joined \in AllLines  BY <1>1, <1>11, <1>13 DEF AllLines
<1>16. joined \in Clear  BY <1>1, <1>13, <1>15 DEF Clear
<1>17. LineTokens(joined) = SizeOf(a) + SizeOf(b)
    BY <1>12, <1>13, TokensOfPieces
<1>18. LineTokens(first) = SizeOf(a) /\ LineTokens(second) = SizeOf(b)
    BY TokensOfPieces DEF a, b
<1> QED BY <1>1, <1>13, <1>14, <1>16, <1>17, <1>18

-----------------------------------------------------------------------------
(* The code of a text, one line after another. *)

(* The code of a text, found one line after the other. *)
CodeStep(acc, line) ==
    IF line.kind = "fence"
    THEN [out |-> Append(acc.out, Stripped(line)), code |-> ~acc.code]
    ELSE IF acc.code THEN [acc EXCEPT !.out = Append(@, line)] ELSE acc
Coding(text) == FoldLeft(CodeStep, [out |-> <<>>, code |-> FALSE], text)
CodeStates == [out : Seq(AllLines), code : BOOLEAN]

(* That is the code the property is about. *)
LEMMA CodeOfIs == \A text : CodeOf(text) = Coding(text).out
BY DEF CodeOf, Coding, CodeStep, FoldLeft, MapThenFoldSet

(* What one line adds to the code. *)
LEMMA CodeStepIs ==
    ASSUME NEW acc \in CodeStates, NEW line \in AllLines
    PROVE  /\ CodeStep(acc, line) \in CodeStates
           /\ CodeStep(acc, line).code = IF line.kind = "fence" THEN ~acc.code ELSE acc.code
           /\ line.kind # "fence" /\ ~acc.code => CodeStep(acc, line) = acc
           /\ CodeStep(acc, Stripped(line)) = CodeStep(acc, line) \/ (line.kind # "fence" /\ acc.code)
<1>1. /\ acc.out \in Seq(AllLines) /\ acc.code \in BOOLEAN
      /\ acc = [out |-> acc.out, code |-> acc.code]
    BY DEF CodeStates
<1>2. /\ Stripped(line) \in AllLines /\ Stripped(line).kind = line.kind
      /\ Stripped(Stripped(line)) = Stripped(line)
    BY StrippedIs
<1>3. CASE line.kind = "fence"
  <2>1. CodeStep(acc, line) = [out |-> Append(acc.out, Stripped(line)), code |-> ~acc.code]
      BY <1>3 DEF CodeStep
  <2>2. CodeStep(acc, Stripped(line)) = CodeStep(acc, line)
      BY <1>2, <1>3 DEF CodeStep
  <2>3. Append(acc.out, Stripped(line)) \in Seq(AllLines)  BY <1>1, <1>2
  <2> QED BY <1>1, <1>3, <2>1, <2>2, <2>3 DEF CodeStates
<1>4. CASE line.kind # "fence" /\ acc.code
  <2> DEFINE more == Append(acc.out, line)
             next == [acc EXCEPT !.out = more]
  <2>1. CodeStep(acc, line) = next  BY <1>4 DEF CodeStep
  <2>2. more \in Seq(AllLines)  BY <1>1
  <2> HIDE DEF more
  <2>3. next \in CodeStates /\ next.code = acc.code
      BY <1>1, <2>2 DEF CodeStates
  <2> QED BY <1>4, <2>1, <2>3
<1>5. CASE line.kind # "fence" /\ ~acc.code  BY <1>1, <1>2, <1>5 DEF CodeStep
<1> QED BY <1>1, <1>3, <1>4, <1>5

(* The code of a text with one more line. *)
LEMMA CodingGrow ==
    /\ Coding(<<>>) = [out |-> <<>>, code |-> FALSE]
    /\ \A s \in Seq(AllLines) : Coding(s) \in CodeStates
    /\ \A s \in Seq(AllLines), line \in AllLines : Coding(Append(s, line)) = CodeStep(Coding(s), line)
<1> DEFINE
      X == AllLines
      B == CodeStates
      base == [out |-> <<>>, code |-> FALSE]
      Op(a, line) == CodeStep(a, line)
      next == [p \in B \X X |-> Op(p[1], p[2])]
      F(list, f) == f = [places \in SUBSET DOMAIN list |->
                            IF places = {} THEN base
                            ELSE Op(f[places \ {Max(places)}], list[Max(places)])]
      g(list) == CHOOSE f : F(list, f)
      R == Results(X, B, base, next)
<1>1. \A list : Coding(list) = g(list)[DOMAIN list]
    BY DEF Coding, FoldLeft, MapThenFoldSet
<1>2. base \in B  BY DEF CodeStates
<1>3. \A a \in B, y \in X : Op(a, y) \in B  BY CodeStepIs
<1>4. \A s, y : Op(Coding(s), y) = CodeStep(Coding(s), y)  OBVIOUS
<1> HIDE DEF B, Op, base
<1>5. \A a \in B, y \in X : next[<<a, y>>] = Op(a, y) /\ Op(a, y) \in B
    BY <1>3
<1> HIDE DEF next
<1>6. Closed(B, X, next)  BY <1>5 DEF Closed
<1>7. ASSUME NEW list \in Seq(X)  PROVE g(list)[DOMAIN list] = R[list]
  <2>1. ASSUME NEW f, UnfoldingIn(list, X, B, base, next, f)
        PROVE  Unfolded(list, X, B, base, next, g(list))
    <3>1. F(list, f)  BY <1>5, <2>1 DEF UnfoldingIn, Unfolding
    <3> HIDE DEF F
    <3>2. F(list, g(list))  BY <3>1
    <3> HIDE DEF g
    <3> QED BY <1>5, <3>2 DEF Unfolded, F
  <2> HIDE DEF F, g, X
  <2> QED BY <1>2, <1>6, <2>1, FoldIs
<1> HIDE DEF F, g
<1>8. \A list \in Seq(X) : Coding(list) = R[list]  BY <1>1, <1>7
<1>9. <<>> \in Seq(X) /\ \A s \in Seq(X), y \in X : Append(s, y) \in Seq(X)
    OBVIOUS
<1> HIDE DEF X, R
<1>10. Growing(X, B, base, next, R)  BY <1>2, <1>6, ResultsGrow DEF R
<1>11. \A s \in Seq(X) : R[s] \in B  BY <1>10 DEF Growing
<1>12. \A s \in Seq(X), y \in X : R[Append(s, y)] = next[<<R[s], y>>]
    BY <1>10 DEF Growing
<1>13. R[<<>>] = base  BY <1>10 DEF Growing
<1>14. \A s \in Seq(X), y \in X : Coding(Append(s, y)) = Op(Coding(s), y)
  <2> TAKE s \in Seq(X), y \in X
  <2>1. Append(s, y) \in Seq(X)  BY <1>9
  <2>2. Coding(Append(s, y)) = R[Append(s, y)] /\ Coding(s) = R[s]
      BY <1>8, <2>1
  <2>3. R[Append(s, y)] = next[<<R[s], y>>] /\ R[s] \in B  BY <1>11, <1>12
  <2> QED BY <1>5, <2>2, <2>3
<1>15. \A s \in Seq(X) : Coding(s) \in B  BY <1>8, <1>11
<1>16. Coding(<<>>) = base  BY <1>8, <1>9, <1>13
<1>17. \A s \in Seq(X), line \in X : Coding(Append(s, line)) = CodeStep(Coding(s), line)
    BY <1>4, <1>14
<1>18. /\ Coding(<<>>) = base
       /\ \A s \in Seq(X) : Coding(s) \in B
       /\ \A s \in Seq(X), line \in X : Coding(Append(s, line)) = CodeStep(Coding(s), line)
    BY <1>15, <1>16, <1>17
<1> QED BY <1>18, Zenon DEF B, base, X

(* Blank lines at the ends of a text are not code. *)
LEMMA BlankStart ==
    ASSUME NEW s \in Texts, NEW t \in Texts, AllBlank(s)
    PROVE  Coding(s \o t) = Coding(t)
<1> DEFINE none == [out |-> <<>>, code |-> FALSE]
           S == {u \in Seq(AllLines) : AllBlank(u) => Coding(u) = none}
           T == {u \in Seq(AllLines) : Coding(s \o u) = Coding(u)}
<1>0. s \in Seq(AllLines) /\ t \in Seq(AllLines) /\ none \in CodeStates /\ ~none.code
    BY DEF Texts, CodeStates
<1>1. Coding(<<>>) = none  BY CodingGrow
<1> HIDE DEF none
<1>2. <<>> \in S  BY <1>1
<1>3. ASSUME NEW u \in Seq(AllLines), NEW x \in AllLines, u \in S  PROVE Append(u, x) \in S
  <2>1. Append(u, x) \in Seq(AllLines)  OBVIOUS
  <2>2. SUFFICES ASSUME AllBlank(Append(u, x))  PROVE Coding(Append(u, x)) = none
      BY <2>1
  <2>3. /\ \A i \in 1 .. Len(u) : Append(u, x)[i] = u[i] /\ i \in DOMAIN Append(u, x)
        /\ Append(u, x)[Len(u) + 1] = x /\ Len(u) + 1 \in DOMAIN Append(u, x)
        /\ DOMAIN u = 1 .. Len(u)
      OBVIOUS
  <2>4. x.kind = "blank" /\ AllBlank(u)  BY <2>2, <2>3 DEF AllBlank
  <2>5. Coding(Append(u, x)) = CodeStep(Coding(u), x)  BY CodingGrow
  <2>6. Coding(u) = none  BY <1>3, <2>4
  <2>7. CodeStep(none, x) = none  BY <1>0, <2>4, CodeStepIs
  <2> QED BY <2>5, <2>6, <2>7
<1>4. Seq(AllLines) \subseteq S
  <2> HIDE DEF S
  <2> QED BY <1>2, <1>3, SequenceInduction
<1>5. Coding(s) = none  BY <1>0, <1>4
<1>6. <<>> \in T
  <2>1. s \o <<>> = s /\ <<>> \in Seq(AllLines)  BY <1>0, ConcatEmptySeq
  <2> QED BY <1>1, <1>5, <2>1
<1>7. ASSUME NEW u \in Seq(AllLines), NEW x \in AllLines, u \in T  PROVE Append(u, x) \in T
  <2>1. s \o u \in Seq(AllLines) /\ s \o Append(u, x) = Append(s \o u, x)
      BY <1>0, JoinedAppend
  <2>2. Coding(Append(u, x)) = CodeStep(Coding(u), x)  BY CodingGrow
  <2>3. Coding(Append(s \o u, x)) = CodeStep(Coding(s \o u), x)
      BY <2>1, CodingGrow
  <2>4. Coding(s \o u) = Coding(u) /\ Append(u, x) \in Seq(AllLines)  BY <1>7
  <2> QED BY <2>1, <2>2, <2>3, <2>4
<1>8. Seq(AllLines) \subseteq T
  <2> HIDE DEF T
  <2> QED BY <1>6, <1>7, SequenceInduction
<1> QED BY <1>0, <1>8

(* Blank lines at the end, after all fences are closed, are no code. *)
LEMMA BlankEnd ==
    ASSUME NEW s \in Texts, NEW t \in Texts, AllBlank(t), ~Coding(s \o t).code
    PROVE  Coding(s \o t) = Coding(s)
<1> DEFINE T == {u \in Seq(AllLines) : AllBlank(u) => /\ Coding(s \o u).code = Coding(s).code
                                                      /\ ~Coding(s).code => Coding(s \o u) = Coding(s)}
<1>0. s \in Seq(AllLines) /\ t \in Seq(AllLines)  BY DEF Texts
<1>1. <<>> \in T
  <2>1. s \o <<>> = s /\ <<>> \in Seq(AllLines)  BY <1>0, ConcatEmptySeq
  <2> QED BY <2>1
<1>2. ASSUME NEW u \in Seq(AllLines), NEW x \in AllLines, u \in T  PROVE Append(u, x) \in T
  <2>0. Append(u, x) \in Seq(AllLines)  OBVIOUS
  <2>1. s \o u \in Seq(AllLines) /\ s \o Append(u, x) = Append(s \o u, x)
      BY <1>0, JoinedAppend
  <2>2. SUFFICES ASSUME AllBlank(Append(u, x))
                 PROVE  /\ Coding(Append(s \o u, x)).code = Coding(s).code
                        /\ ~Coding(s).code => Coding(Append(s \o u, x)) = Coding(s)
      BY <2>0, <2>1
  <2>3. /\ \A i \in 1 .. Len(u) : Append(u, x)[i] = u[i] /\ i \in DOMAIN Append(u, x)
        /\ Append(u, x)[Len(u) + 1] = x /\ Len(u) + 1 \in DOMAIN Append(u, x)
        /\ DOMAIN u = 1 .. Len(u)
      OBVIOUS
  <2>4. x.kind = "blank" /\ AllBlank(u)  BY <2>2, <2>3 DEF AllBlank
  <2>5. Coding(Append(s \o u, x)) = CodeStep(Coding(s \o u), x) /\ Coding(s \o u) \in CodeStates
      BY <2>1, CodingGrow
  <2>6. Coding(s \o u).code = Coding(s).code /\ (~Coding(s).code => Coding(s \o u) = Coding(s))
      BY <1>2, <2>4
  <2>7. CodeStep(Coding(s \o u), x).code = Coding(s \o u).code
      BY <2>4, <2>5, CodeStepIs
  <2>8. ~Coding(s \o u).code => CodeStep(Coding(s \o u), x) = Coding(s \o u)
      BY <2>4, <2>5, CodeStepIs
  <2> QED BY <2>5, <2>6, <2>7, <2>8
<1>3. Seq(AllLines) \subseteq T
  <2> HIDE DEF T
  <2> QED BY <1>1, <1>2, SequenceInduction
<1> QED BY <1>0, <1>3

-----------------------------------------------------------------------------
(* Broken words joined. *)

(* The rule for broken words knows whether it is in code. *)
OcrStates ==
    {acc \in [out : Seq(Clear), code : BOOLEAN] : acc.code = Coding(acc.out).code}
Ocr(text) == FoldLeft(JoinLine, [out |-> <<>>, code |-> FALSE], text)

(* An element more. *)
LEMMA OneMore ==
    ASSUME NEW s \in Seq(Clear), NEW line \in Clear
    PROVE  /\ Append(s, line) \in Seq(Clear) /\ Coding(s) \in CodeStates
           /\ TextTokens(Append(s, line)) = TextTokens(s) + LineTokens(line)
           /\ Coding(Append(s, line)) = CodeStep(Coding(s), line)
           /\ TextTokens(s) \in Nat /\ LineTokens(line) \in Nat
<1>1. s \in Seq(AllLines) /\ line \in AllLines  BY ClearLines DEF Texts
<1>2. Append(s, line) \in Seq(Clear)  OBVIOUS
<1>3. TextTokens(Append(s, line)) = TextTokens(s) + LineTokens(line) /\ TextTokens(s) \in Nat
    BY <1>1, TextTokensGrow
<1>4. Coding(Append(s, line)) = CodeStep(Coding(s), line) /\ Coding(s) \in CodeStates
    BY <1>1, CodingGrow
<1>5. LineTokens(line) \in Nat  BY <1>1, LineTokensAre
<1> QED BY <1>2, <1>3, <1>4, <1>5

(* A line joined or added keeps the tokens and the code. *)
LEMMA JoinLineIs ==
    ASSUME NEW acc \in OcrStates, NEW line \in Clear
    PROVE  LET next == JoinLine(acc, line) IN
           /\ next \in OcrStates
           /\ TextTokens(next.out) = TextTokens(acc.out) + LineTokens(line)
           /\ Coding(next.out) = CodeStep(Coding(acc.out), line)
<1> DEFINE next == JoinLine(acc, line)
<1>1. /\ acc \in [out : Seq(Clear), code : BOOLEAN]
      /\ acc.out \in Seq(Clear) /\ acc.code \in BOOLEAN /\ acc.code = Coding(acc.out).code
    BY DEF OcrStates
<1>2. line \in AllLines  BY ClearLines
<1>3. CASE ~acc.code /\ acc.out # <<>> /\ Continues(Last(acc.out), line)
  <2> DEFINE front == Front(acc.out)
             first == Last(acc.out)
             joined == Joined(first, line)
             out == Append(front, joined)
  <2>1. front \in Seq(Clear) /\ first \in Clear /\ acc.out = Append(front, first)
      BY <1>1, <1>3, FrontAndLast
  <2>2. next = [acc EXCEPT !.out = out]  BY <1>3 DEF JoinLine
  <2>3. /\ joined \in Clear /\ joined.kind = "prose" /\ first.kind = "prose" /\ line.kind = "prose"
        /\ LineTokens(joined) = LineTokens(first) + LineTokens(line)
      BY <1>3, <2>1, JoinedIs DEF Continues
  <2> HIDE DEF front, first, joined
  <2>4. /\ TextTokens(acc.out) = TextTokens(front) + LineTokens(first)
        /\ Coding(acc.out) = CodeStep(Coding(front), first)
        /\ TextTokens(front) \in Nat /\ LineTokens(first) \in Nat /\ Coding(front) \in CodeStates
      BY <2>1, OneMore
  <2>5. /\ out \in Seq(Clear)
        /\ TextTokens(out) = TextTokens(front) + LineTokens(joined)
        /\ Coding(out) = CodeStep(Coding(front), joined)
      BY <2>1, <2>3, OneMore
  <2>6. LineTokens(line) \in Nat  BY <1>2, LineTokensAre
  <2>7. TextTokens(out) = TextTokens(acc.out) + LineTokens(line)
      BY <2>3, <2>4, <2>5, <2>6
  <2>8. first \in AllLines /\ joined \in AllLines  BY <2>1, <2>3, ClearLines
  <2>9. ~Coding(front).code
    <3>1. CodeStep(Coding(front), first).code = Coding(front).code
        BY <2>3, <2>4, <2>8, CodeStepIs
    <3> QED BY <1>1, <1>3, <2>4, <3>1
  <2>10. Coding(acc.out) = Coding(front) /\ Coding(out) = Coding(front)
    <3>1. CodeStep(Coding(front), first) = Coding(front)
        BY <2>3, <2>4, <2>8, <2>9, CodeStepIs
    <3>2. CodeStep(Coding(front), joined) = Coding(front)
        BY <2>3, <2>4, <2>8, <2>9, CodeStepIs
    <3> QED BY <2>4, <2>5, <3>1, <3>2
  <2>11. CodeStep(Coding(acc.out), line) = Coding(acc.out)
      BY <1>2, <2>3, <2>4, <2>9, <2>10, CodeStepIs
  <2> HIDE DEF out
  <2>12. next \in [out : Seq(Clear), code : BOOLEAN] /\ next.out = out /\ next.code = acc.code
      BY <1>1, <2>2, <2>5
  <2> HIDE DEF next
  <2>13. next \in OcrStates  BY <1>1, <2>10, <2>12 DEF OcrStates
  <2> QED BY <2>7, <2>10, <2>11, <2>12, <2>13 DEF next
<1>4. CASE ~(~acc.code /\ acc.out # <<>> /\ Continues(Last(acc.out), line))
  <2> DEFINE out == Append(acc.out, line)
             code == IF line.kind = "fence" THEN ~acc.code ELSE acc.code
  <2>1. next = [out |-> out, code |-> code]  BY <1>4 DEF JoinLine
  <2>2. /\ out \in Seq(Clear) /\ Coding(acc.out) \in CodeStates
        /\ TextTokens(out) = TextTokens(acc.out) + LineTokens(line)
        /\ Coding(out) = CodeStep(Coding(acc.out), line)
      BY <1>1, OneMore
  <2>3. CodeStep(Coding(acc.out), line).code = code
      BY <1>1, <1>2, <2>2, CodeStepIs
  <2>4. code \in BOOLEAN  BY <1>1
  <2> HIDE DEF out, code
  <2>5. next \in [out : Seq(Clear), code : BOOLEAN] /\ next.out = out /\ next.code = code
      BY <2>1, <2>2, <2>4
  <2> HIDE DEF next
  <2>6. next \in OcrStates  BY <2>2, <2>3, <2>5 DEF OcrStates
  <2> QED BY <2>2, <2>5, <2>6 DEF next
<1> QED BY <1>3, <1>4

(* The rule for broken words starts outside code. *)
LEMMA NothingYet == [out |-> <<>>, code |-> FALSE] \in OcrStates
<1>1. Coding(<<>>) = [out |-> <<>>, code |-> FALSE]  BY CodingGrow
<1>2. <<>> \in Seq(Clear) /\ Coding(<<>>).code = FALSE  BY <1>1
<1> DEFINE none == [out |-> <<>>, code |-> FALSE]
<1>3. none \in [out : Seq(Clear), code : BOOLEAN] /\ none.out = <<>> /\ none.code = FALSE
    BY <1>2
<1> HIDE DEF none
<1>4. none \in OcrStates  BY <1>2, <1>3 DEF OcrStates
<1> QED BY <1>4 DEF none

(* The rule for broken words, one more line at a time. *)
LEMMA OcrGrow ==
    /\ Ocr(<<>>) = [out |-> <<>>, code |-> FALSE]
    /\ \A s \in Seq(Clear) : Ocr(s) \in OcrStates
    /\ \A s \in Seq(Clear), line \in Clear : Ocr(Append(s, line)) = JoinLine(Ocr(s), line)
<1> DEFINE
      X == Clear
      B == OcrStates
      base == [out |-> <<>>, code |-> FALSE]
      Op(a, line) == JoinLine(a, line)
      next == [p \in B \X X |-> Op(p[1], p[2])]
      F(list, f) == f = [places \in SUBSET DOMAIN list |->
                            IF places = {} THEN base
                            ELSE Op(f[places \ {Max(places)}], list[Max(places)])]
      g(list) == CHOOSE f : F(list, f)
      R == Results(X, B, base, next)
<1>1. \A list : Ocr(list) = g(list)[DOMAIN list]
    BY DEF Ocr, FoldLeft, MapThenFoldSet
<1>2. base \in B  BY NothingYet
<1>3. \A a \in B, y \in X : Op(a, y) \in B  BY JoinLineIs
<1>4. \A s, y : Op(Ocr(s), y) = JoinLine(Ocr(s), y)  OBVIOUS
<1> HIDE DEF B, Op, base
<1>5. \A a \in B, y \in X : next[<<a, y>>] = Op(a, y) /\ Op(a, y) \in B
    BY <1>3
<1> HIDE DEF next
<1>6. Closed(B, X, next)  BY <1>5 DEF Closed
<1>7. ASSUME NEW list \in Seq(X)  PROVE g(list)[DOMAIN list] = R[list]
  <2>1. ASSUME NEW f, UnfoldingIn(list, X, B, base, next, f)
        PROVE  Unfolded(list, X, B, base, next, g(list))
    <3>1. F(list, f)  BY <1>5, <2>1 DEF UnfoldingIn, Unfolding
    <3> HIDE DEF F
    <3>2. F(list, g(list))  BY <3>1
    <3> HIDE DEF g
    <3> QED BY <1>5, <3>2 DEF Unfolded, F
  <2> HIDE DEF F, g, X
  <2> QED BY <1>2, <1>6, <2>1, FoldIs
<1> HIDE DEF F, g
<1>8. \A list \in Seq(X) : Ocr(list) = R[list]  BY <1>1, <1>7
<1>9. <<>> \in Seq(X) /\ \A s \in Seq(X), y \in X : Append(s, y) \in Seq(X)
    OBVIOUS
<1> HIDE DEF X, R
<1>10. Growing(X, B, base, next, R)  BY <1>2, <1>6, ResultsGrow DEF R
<1>11. \A s \in Seq(X) : R[s] \in B  BY <1>10 DEF Growing
<1>12. \A s \in Seq(X), y \in X : R[Append(s, y)] = next[<<R[s], y>>]
    BY <1>10 DEF Growing
<1>13. R[<<>>] = base  BY <1>10 DEF Growing
<1>14. \A s \in Seq(X), y \in X : Ocr(Append(s, y)) = Op(Ocr(s), y)
  <2> TAKE s \in Seq(X), y \in X
  <2>1. Append(s, y) \in Seq(X)  BY <1>9
  <2>2. Ocr(Append(s, y)) = R[Append(s, y)] /\ Ocr(s) = R[s]  BY <1>8, <2>1
  <2>3. R[Append(s, y)] = next[<<R[s], y>>] /\ R[s] \in B  BY <1>11, <1>12
  <2> QED BY <1>5, <2>2, <2>3
<1>15. \A s \in Seq(X) : Ocr(s) \in B  BY <1>8, <1>11
<1>16. Ocr(<<>>) = base  BY <1>8, <1>9, <1>13
<1>17. \A s \in Seq(X), line \in X : Ocr(Append(s, line)) = JoinLine(Ocr(s), line)
    BY <1>4, <1>14
<1>18. /\ Ocr(<<>>) = base
       /\ \A s \in Seq(X) : Ocr(s) \in B
       /\ \A s \in Seq(X), line \in X : Ocr(Append(s, line)) = JoinLine(Ocr(s), line)
    BY <1>15, <1>16, <1>17
<1> QED BY <1>18, Zenon DEF B, base, X

(* Joining broken words keeps the tokens and the code of a text. *)
LEMMA OcrKeeps ==
    ASSUME NEW text \in Seq(Clear)
    PROVE  /\ NormalizeOcr(text) \in Seq(Clear)
           /\ TextTokens(NormalizeOcr(text)) = TextTokens(text)
           /\ Coding(NormalizeOcr(text)) = Coding(text)
<1> DEFINE T == {u \in Seq(Clear) : /\ TextTokens(Ocr(u).out) = TextTokens(u)
                                    /\ Coding(Ocr(u).out) = Coding(u)}
<1>1. <<>> \in T
  <2>1. Ocr(<<>>).out = <<>> /\ <<>> \in Seq(Clear)  BY OcrGrow
  <2> QED BY <2>1
<1>2. ASSUME NEW u \in Seq(Clear), NEW x \in Clear, u \in T  PROVE Append(u, x) \in T
  <2>1. Ocr(u) \in OcrStates /\ Ocr(Append(u, x)) = JoinLine(Ocr(u), x)
      BY OcrGrow
  <2>2. /\ TextTokens(Ocr(Append(u, x)).out) = TextTokens(Ocr(u).out) + LineTokens(x)
        /\ Coding(Ocr(Append(u, x)).out) = CodeStep(Coding(Ocr(u).out), x)
      BY <2>1, JoinLineIs
  <2>3. /\ TextTokens(Append(u, x)) = TextTokens(u) + LineTokens(x)
        /\ Coding(Append(u, x)) = CodeStep(Coding(u), x)
        /\ Append(u, x) \in Seq(Clear)
      BY OneMore
  <2>4. TextTokens(Ocr(u).out) = TextTokens(u) /\ Coding(Ocr(u).out) = Coding(u)
      BY <1>2
  <2> QED BY <2>2, <2>3, <2>4
<1>3. Seq(Clear) \subseteq T
  <2> HIDE DEF T
  <2> QED BY <1>1, <1>2, SequenceInduction
<1>4. NormalizeOcr(text) = Ocr(text).out /\ Ocr(text) \in OcrStates
    BY OcrGrow DEF NormalizeOcr, Ocr
<1> QED BY <1>3, <1>4 DEF OcrStates

-----------------------------------------------------------------------------
(* Blank lines. *)

(* The rule for blank lines knows whether it is in code. *)
SpaceStates ==
    {acc \in [out : Seq(Clear), code : BOOLEAN, blanks : Nat] : acc.code = Coding(acc.out).code}
Spaced(text) == FoldLeft(SpaceLine, [out |-> <<>>, code |-> FALSE, blanks |-> 0], text)

(* A line stripped, kept or dropped keeps the tokens and the code. *)
LEMMA SpaceLineIs ==
    ASSUME NEW acc \in SpaceStates, NEW line \in Clear
    PROVE  LET next == SpaceLine(acc, line) IN
           /\ next \in SpaceStates
           /\ TextTokens(next.out) = TextTokens(acc.out) + LineTokens(line)
           /\ Coding(next.out) = CodeStep(Coding(acc.out), line)
<1> DEFINE next == SpaceLine(acc, line)
           States == [out : Seq(Clear), code : BOOLEAN, blanks : Nat]
           Kept(add) == /\ add \in Clear /\ LineTokens(add) = LineTokens(line)
                        /\ CodeStep(Coding(acc.out), add) = CodeStep(Coding(acc.out), line)
           Good(out, code, blanks) ==
               /\ out \in Seq(Clear) /\ blanks \in Nat
               /\ TextTokens(out) = TextTokens(acc.out) + LineTokens(line)
               /\ Coding(out) = CodeStep(Coding(acc.out), line)
               /\ code = CodeStep(Coding(acc.out), line).code
<1>1. /\ acc \in States /\ acc.out \in Seq(Clear) /\ acc.code \in BOOLEAN /\ acc.blanks \in Nat
      /\ acc.code = Coding(acc.out).code
    BY DEF SpaceStates
<1>2. line \in AllLines /\ acc.out \in Texts  BY <1>1, ClearLines
<1>3. /\ Stripped(line) \in Clear /\ LineTokens(Stripped(line)) = LineTokens(line)
      /\ LineTokens(line) \in Nat /\ TextTokens(acc.out) \in Nat /\ Coding(acc.out) \in CodeStates
  <2>1. acc.out \in Seq(AllLines)  BY <1>2 DEF Texts
  <2> QED BY <1>2, <2>1, StrippedIs, LineTokensAre, TextTokensGrow, CodingGrow
<1>4. /\ CodeStep(Coding(acc.out), line) \in CodeStates
      /\ CodeStep(Coding(acc.out), line).code = IF line.kind = "fence" THEN ~acc.code ELSE acc.code
      /\ line.kind # "fence" /\ ~acc.code => CodeStep(Coding(acc.out), line) = Coding(acc.out)
      /\ (line.kind # "fence" /\ acc.code)
           \/ CodeStep(Coding(acc.out), Stripped(line)) = CodeStep(Coding(acc.out), line)
    BY <1>1, <1>2, <1>3, CodeStepIs
<1>5. Kept(line) /\ (line.kind = "fence" \/ ~acc.code => Kept(Stripped(line)))
    BY <1>3, <1>4
<1>6. ASSUME NEW add, Kept(add), NEW code, NEW blanks \in Nat,
             code = CodeStep(Coding(acc.out), line).code
      PROVE  Good(Append(acc.out, add), code, blanks)
    BY <1>1, <1>6, OneMore
<1>7. ASSUME NEW out, NEW code, NEW blanks, Good(out, code, blanks),
             next \in [out : Seq(Clear), code : BOOLEAN, blanks : Nat],
             next.out = out, next.code = code
      PROVE  /\ next \in SpaceStates
             /\ TextTokens(next.out) = TextTokens(acc.out) + LineTokens(line)
             /\ Coding(next.out) = CodeStep(Coding(acc.out), line)
  <2> HIDE DEF next
  <2> QED BY <1>7 DEF SpaceStates
<1> HIDE DEF Kept, Good
<1>8. CASE line.kind = "fence"
  <2> DEFINE add == IF acc.code THEN line ELSE Stripped(line)
             out == Append(acc.out, add)
  <2>1. next = [out |-> out, code |-> ~acc.code, blanks |-> 0]
      BY <1>8, Zenon DEF SpaceLine
  <2>2. Kept(add)  BY <1>5, <1>8
  <2> HIDE DEF add
  <2>3. Good(out, ~acc.code, 0)  BY <1>4, <1>6, <1>8, <2>2
  <2>4. out \in Seq(Clear)  BY <2>3 DEF Good
  <2> HIDE DEF out
  <2>5. next \in States /\ next.out = out /\ next.code = ~acc.code
      BY <1>1, <2>1, <2>4
  <2> HIDE DEF next
  <2> QED BY <1>7, <2>3, <2>5 DEF next
<1>9. CASE line.kind # "fence" /\ acc.code
  <2> DEFINE out == Append(acc.out, line)
  <2>1. next = [acc EXCEPT !.out = out]  BY <1>9 DEF SpaceLine
  <2>2. Good(out, acc.code, acc.blanks)  BY <1>1, <1>4, <1>5, <1>6, <1>9
  <2>3. out \in Seq(Clear)  BY <2>2 DEF Good
  <2> HIDE DEF out
  <2>4. next \in States /\ next.out = out /\ next.code = acc.code
      BY <1>1, <2>1, <2>3
  <2> HIDE DEF next
  <2> QED BY <1>7, <2>2, <2>4 DEF next
<1>10. CASE ~acc.code /\ line.kind = "blank"
  <2> DEFINE out == IF acc.blanks < 2 THEN Append(acc.out, Stripped(line)) ELSE acc.out
             blanks == acc.blanks + 1
  <2>1. next = [acc EXCEPT !.blanks = blanks, !.out = out]
      BY <1>10 DEF SpaceLine
  <2>2. Good(out, acc.code, blanks)
    <3>1. blanks \in Nat  BY <1>1
    <3>2. CASE acc.blanks < 2  BY <1>4, <1>5, <1>6, <1>10, <3>1, <3>2
    <3>3. CASE ~(acc.blanks < 2)
      <4>1. LineTokens(line) = 0  BY <1>2, <1>10, LineTokensAre
      <4> QED BY <1>1, <1>3, <1>4, <1>10, <3>1, <3>3, <4>1 DEF Good
    <3> QED BY <3>2, <3>3
  <2>3. out \in Seq(Clear) /\ blanks \in Nat  BY <2>2 DEF Good
  <2> HIDE DEF out, blanks
  <2>4. next \in States /\ next.out = out /\ next.code = acc.code
      BY <1>1, <2>1, <2>3
  <2> HIDE DEF next
  <2> QED BY <1>7, <2>2, <2>4 DEF next
<1>11. CASE ~acc.code /\ line.kind # "fence" /\ line.kind # "blank"
  <2> DEFINE out == Append(acc.out, Stripped(line))
             blanks == 0
  <2>1. next = [acc EXCEPT !.blanks = blanks, !.out = out]
      BY <1>11, Zenon DEF SpaceLine
  <2>2. Good(out, acc.code, blanks)  BY <1>4, <1>5, <1>6, <1>11
  <2>3. out \in Seq(Clear) /\ blanks \in Nat  BY <2>2 DEF Good
  <2> HIDE DEF out, blanks
  <2>4. next \in States /\ next.out = out /\ next.code = acc.code
      BY <1>1, <2>1, <2>3
  <2> HIDE DEF next
  <2> QED BY <1>7, <2>2, <2>4 DEF next
<1> QED BY <1>8, <1>9, <1>10, <1>11

(* The rule for blank lines starts outside code. *)
LEMMA NothingSpaced == [out |-> <<>>, code |-> FALSE, blanks |-> 0] \in SpaceStates
<1>1. Coding(<<>>) = [out |-> <<>>, code |-> FALSE]  BY CodingGrow
<1>2. <<>> \in Seq(Clear) /\ Coding(<<>>).code = FALSE  BY <1>1
<1> DEFINE none == [out |-> <<>>, code |-> FALSE, blanks |-> 0]
<1>3. none \in [out : Seq(Clear), code : BOOLEAN, blanks : Nat] /\ none.out = <<>> /\ none.code = FALSE
    BY <1>2
<1> HIDE DEF none
<1>4. none \in SpaceStates  BY <1>2, <1>3 DEF SpaceStates
<1> QED BY <1>4 DEF none

(* The rule for blank lines, one more line at a time. *)
LEMMA SpacedGrow ==
    /\ Spaced(<<>>) = [out |-> <<>>, code |-> FALSE, blanks |-> 0]
    /\ \A s \in Seq(Clear) : Spaced(s) \in SpaceStates
    /\ \A s \in Seq(Clear), line \in Clear : Spaced(Append(s, line)) = SpaceLine(Spaced(s), line)
<1> DEFINE
      X == Clear
      B == SpaceStates
      base == [out |-> <<>>, code |-> FALSE, blanks |-> 0]
      Op(a, line) == SpaceLine(a, line)
      next == [p \in B \X X |-> Op(p[1], p[2])]
      F(list, f) == f = [places \in SUBSET DOMAIN list |->
                            IF places = {} THEN base
                            ELSE Op(f[places \ {Max(places)}], list[Max(places)])]
      g(list) == CHOOSE f : F(list, f)
      R == Results(X, B, base, next)
<1>1. \A list : Spaced(list) = g(list)[DOMAIN list]
    BY DEF Spaced, FoldLeft, MapThenFoldSet
<1>2. base \in B  BY NothingSpaced
<1>3. \A a \in B, y \in X : Op(a, y) \in B  BY SpaceLineIs
<1>4. \A s, y : Op(Spaced(s), y) = SpaceLine(Spaced(s), y)  OBVIOUS
<1> HIDE DEF B, Op, base
<1>5. \A a \in B, y \in X : next[<<a, y>>] = Op(a, y) /\ Op(a, y) \in B
    BY <1>3
<1> HIDE DEF next
<1>6. Closed(B, X, next)  BY <1>5 DEF Closed
<1>7. ASSUME NEW list \in Seq(X)  PROVE g(list)[DOMAIN list] = R[list]
  <2>1. ASSUME NEW f, UnfoldingIn(list, X, B, base, next, f)
        PROVE  Unfolded(list, X, B, base, next, g(list))
    <3>1. F(list, f)  BY <1>5, <2>1 DEF UnfoldingIn, Unfolding
    <3> HIDE DEF F
    <3>2. F(list, g(list))  BY <3>1
    <3> HIDE DEF g
    <3> QED BY <1>5, <3>2 DEF Unfolded, F
  <2> HIDE DEF F, g, X
  <2> QED BY <1>2, <1>6, <2>1, FoldIs
<1> HIDE DEF F, g
<1>8. \A list \in Seq(X) : Spaced(list) = R[list]  BY <1>1, <1>7
<1>9. <<>> \in Seq(X) /\ \A s \in Seq(X), y \in X : Append(s, y) \in Seq(X)
    OBVIOUS
<1> HIDE DEF X, R
<1>10. Growing(X, B, base, next, R)  BY <1>2, <1>6, ResultsGrow DEF R
<1>11. \A s \in Seq(X) : R[s] \in B  BY <1>10 DEF Growing
<1>12. \A s \in Seq(X), y \in X : R[Append(s, y)] = next[<<R[s], y>>]
    BY <1>10 DEF Growing
<1>13. R[<<>>] = base  BY <1>10 DEF Growing
<1>14. \A s \in Seq(X), y \in X : Spaced(Append(s, y)) = Op(Spaced(s), y)
  <2> TAKE s \in Seq(X), y \in X
  <2>1. Append(s, y) \in Seq(X)  BY <1>9
  <2>2. Spaced(Append(s, y)) = R[Append(s, y)] /\ Spaced(s) = R[s]
      BY <1>8, <2>1
  <2>3. R[Append(s, y)] = next[<<R[s], y>>] /\ R[s] \in B  BY <1>11, <1>12
  <2> QED BY <1>5, <2>2, <2>3
<1>15. \A s \in Seq(X) : Spaced(s) \in B  BY <1>8, <1>11
<1>16. Spaced(<<>>) = base  BY <1>8, <1>9, <1>13
<1>17. \A s \in Seq(X), line \in X : Spaced(Append(s, line)) = SpaceLine(Spaced(s), line)
    BY <1>4, <1>14
<1>18. /\ Spaced(<<>>) = base
       /\ \A s \in Seq(X) : Spaced(s) \in B
       /\ \A s \in Seq(X), line \in X : Spaced(Append(s, line)) = SpaceLine(Spaced(s), line)
    BY <1>15, <1>16, <1>17
<1> QED BY <1>18, Zenon DEF B, base, X

(* Dropping blank lines keeps the tokens and the code of a text. *)
LEMMA SpacedKeeps ==
    ASSUME NEW text \in Seq(Clear)
    PROVE  /\ Spaced(text).out \in Seq(Clear) /\ Spaced(text).code = Coding(text).code
           /\ TextTokens(Spaced(text).out) = TextTokens(text)
           /\ Coding(Spaced(text).out) = Coding(text)
<1> DEFINE T == {u \in Seq(Clear) : /\ TextTokens(Spaced(u).out) = TextTokens(u)
                                    /\ Coding(Spaced(u).out) = Coding(u)}
<1>1. <<>> \in T
  <2>1. Spaced(<<>>).out = <<>> /\ <<>> \in Seq(Clear)  BY SpacedGrow
  <2> QED BY <2>1
<1>2. ASSUME NEW u \in Seq(Clear), NEW x \in Clear, u \in T  PROVE Append(u, x) \in T
  <2>1. Spaced(u) \in SpaceStates /\ Spaced(Append(u, x)) = SpaceLine(Spaced(u), x)
      BY SpacedGrow
  <2>2. /\ TextTokens(Spaced(Append(u, x)).out) = TextTokens(Spaced(u).out) + LineTokens(x)
        /\ Coding(Spaced(Append(u, x)).out) = CodeStep(Coding(Spaced(u).out), x)
      BY <2>1, SpaceLineIs
  <2>3. /\ TextTokens(Append(u, x)) = TextTokens(u) + LineTokens(x)
        /\ Coding(Append(u, x)) = CodeStep(Coding(u), x)
        /\ Append(u, x) \in Seq(Clear)
      BY OneMore
  <2>4. TextTokens(Spaced(u).out) = TextTokens(u) /\ Coding(Spaced(u).out) = Coding(u)
      BY <1>2
  <2> QED BY <2>2, <2>3, <2>4
<1>3. Seq(Clear) \subseteq T
  <2> HIDE DEF T
  <2> QED BY <1>1, <1>2, SequenceInduction
<1>4. Spaced(text) \in SpaceStates  BY SpacedGrow
<1> QED BY <1>3, <1>4 DEF SpaceStates

(* The first and the last line that is not blank. *)
LEMMA FilledIs ==
    ASSUME NEW s \in Seq(Clear)
    PROVE  /\ Filled(s) = {i \in 1 .. Len(s) : s[i].kind # "blank"}
           /\ Filled(s) # {} =>
                  /\ FirstFilled(s) \in Filled(s) /\ LastFilled(s) \in Filled(s)
                  /\ FirstFilled(s) \in 1 .. Len(s) /\ LastFilled(s) \in FirstFilled(s) .. Len(s)
                  /\ \A i \in 1 .. Len(s) :
                         i < FirstFilled(s) \/ i > LastFilled(s) => s[i].kind = "blank"
<1> DEFINE S == Filled(s)
<1>1. /\ Len(s) \in Nat /\ DOMAIN s = 1 .. Len(s)
      /\ \A i \in 1 .. Len(s) : s[i] \in Clear
    BY ElementOfSeq
<1>2. S = {i \in 1 .. Len(s) : s[i].kind # "blank"}
    BY <1>1 DEF Filled, IsBlank, Clear
<1>3. S \in SUBSET Nat /\ IsFiniteSet(S)
  <2>1. IsFiniteSet(1 .. Len(s)) /\ S \subseteq 1 .. Len(s)
      BY <1>1, <1>2, FS_Interval
  <2> QED BY <2>1, FS_Subset
<1> HIDE DEF S
<1>4. ASSUME S # {}
      PROVE  Min(S) \in S /\ Max(S) \in S /\ \A i \in S : Min(S) <= i /\ i <= Max(S)
  <2>1. Min(S) \in S /\ \A i \in S : Min(S) <= i  BY <1>3, <1>4, LeastIs
  <2>2. Max(S) \in S /\ \A i \in S : Max(S) >= i
      BY <1>3, <1>4, GreatestExists
  <2>3. \A i \in S : Max(S) >= i <=> i <= Max(S)  BY <1>3, <2>2
  <2> QED BY <2>1, <2>2, <2>3
<1>5. FirstFilled(s) = Min(S) /\ LastFilled(s) = Max(S)
    BY DEF FirstFilled, LastFilled, S
<1>6. ASSUME S # {}
      PROVE  /\ FirstFilled(s) \in S /\ LastFilled(s) \in S
             /\ FirstFilled(s) \in 1 .. Len(s) /\ LastFilled(s) \in FirstFilled(s) .. Len(s)
             /\ \A i \in 1 .. Len(s) :
                    i < FirstFilled(s) \/ i > LastFilled(s) => s[i].kind = "blank"
  <2> DEFINE a == FirstFilled(s)
             b == LastFilled(s)
  <2>1. a \in S /\ b \in S /\ \A i \in S : a <= i /\ i <= b
      BY <1>4, <1>5, <1>6
  <2> HIDE DEF a, b
  <2>2. a \in 1 .. Len(s) /\ b \in 1 .. Len(s) /\ a <= b  BY <1>2, <2>1
  <2>3. \A i \in 1 .. Len(s) : i < a \/ i > b => i \notin S
      BY <1>1, <2>1, <2>2
  <2>4. \A i \in 1 .. Len(s) : i < a \/ i > b => s[i].kind = "blank"
      BY <1>2, <2>3
  <2> QED BY <1>1, <2>1, <2>2, <2>4 DEF a, b
<1> QED BY <1>2, <1>6 DEF S

(* Blank lines at the ends of a text are dropped. *)
LEMMA EndsDropped ==
    ASSUME NEW s \in Seq(Clear), Filled(s) # {}, NEW j \in LastFilled(s) .. Len(s)
    PROVE  LET part == SubSeq(s, FirstFilled(s), j) IN
           /\ part \in Seq(Clear) /\ Filled(part) # {}
           /\ TextTokens(part) = TextTokens(s)
           /\ ~Coding(s).code \/ j = Len(s) => Coding(part) = Coding(s)
<1> DEFINE i == FirstFilled(s)
           k == Len(s)
           a == SubSeq(s, 1, i - 1)
           part == SubSeq(s, i, j)
           c == SubSeq(s, j + 1, k)
<1>1. /\ k \in Nat /\ i \in 1 .. k /\ LastFilled(s) \in i .. k /\ s[i].kind # "blank"
      /\ \A n \in 1 .. k : n < i \/ n > LastFilled(s) => s[n].kind = "blank"
    BY FilledIs
<1> HIDE DEF i
<1>2. j \in i .. k /\ j \in Nat /\ \A n \in 1 .. k : n < i \/ n > j => s[n].kind = "blank"
    BY <1>1
<1>3. s = (a \o part) \o c  BY <1>1, <1>2, CutInThree
<1>4. a \in Seq(Clear) /\ Len(a) = i - 1 /\ \A n \in 1 .. i - 1 : a[n] = s[n]
  <2>1. 1 \in 1 .. k + 1 /\ i - 1 \in 1 - 1 .. k  BY <1>1
  <2>2. a \in Seq(Clear) /\ Len(a) = (i - 1) - 1 + 1 /\ \A n \in 1 .. (i - 1) - 1 + 1 : a[n] = s[1 + n - 1]
      BY <2>1, PartOf
  <2>3. (i - 1) - 1 + 1 = i - 1 /\ \A n \in 1 .. i - 1 : 1 + n - 1 = n
      BY <1>1
  <2> HIDE DEF a
  <2> QED BY <2>2, <2>3
<1>5. part \in Seq(Clear) /\ Len(part) = j - i + 1 /\ part[1] = s[i] /\ 1 \in 1 .. Len(part)
  <2>1. i \in 1 .. k + 1 /\ j \in i - 1 .. k /\ 1 \in 1 .. j - i + 1 /\ i + 1 - 1 = i
      BY <1>1, <1>2
  <2>2. part \in Seq(Clear) /\ Len(part) = j - i + 1 /\ \A n \in 1 .. j - i + 1 : part[n] = s[i + n - 1]
      BY <2>1, PartOf
  <2> HIDE DEF part
  <2> QED BY <2>1, <2>2
<1>6. c \in Seq(Clear) /\ Len(c) = k - j /\ \A n \in 1 .. k - j : c[n] = s[j + n]
  <2>1. j + 1 \in 1 .. k + 1 /\ k \in (j + 1) - 1 .. k  BY <1>1, <1>2
  <2>2. /\ c \in Seq(Clear) /\ Len(c) = k - (j + 1) + 1
        /\ \A n \in 1 .. k - (j + 1) + 1 : c[n] = s[(j + 1) + n - 1]
      BY <2>1, PartOf
  <2>3. k - (j + 1) + 1 = k - j /\ \A n \in 1 .. k - j : (j + 1) + n - 1 = j + n
      BY <1>1, <1>2
  <2> HIDE DEF c
  <2> QED BY <2>2, <2>3
<1> HIDE DEF a, part, c
<1>7. AllBlank(a)
  <2>1. DOMAIN a = 1 .. i - 1  BY <1>4
  <2>2. \A n \in 1 .. i - 1 : n \in 1 .. k /\ n < i  BY <1>1
  <2> QED BY <1>2, <1>4, <2>1, <2>2 DEF AllBlank
<1>8. AllBlank(c)
  <2>1. DOMAIN c = 1 .. k - j  BY <1>6
  <2>2. \A n \in 1 .. k - j : j + n \in 1 .. k /\ j + n > j  BY <1>1, <1>2
  <2> QED BY <1>2, <1>6, <2>1, <2>2 DEF AllBlank
<1>9. a \in Texts /\ part \in Texts /\ c \in Texts
    BY <1>4, <1>5, <1>6, ClearLines
<1>10. Filled(part) # {}
  <2>1. 1 \in Filled(part)  BY <1>1, <1>5, FilledIs
  <2> QED BY <2>1
<1>11. /\ TextTokens(a \o part) = TextTokens(a) + TextTokens(part) /\ a \o part \in Texts
       /\ TextTokens(part) \in Nat
    BY <1>9, TokensJoined
<1>12. TextTokens((a \o part) \o c) = TextTokens(a \o part) + TextTokens(c)
    BY <1>9, <1>11, TokensJoined
<1>13. TextTokens(a) = 0 /\ TextTokens(c) = 0
    BY <1>7, <1>8, <1>9, BlankTokens
<1>14. TextTokens(part) = TextTokens(s)  BY <1>3, <1>11, <1>12, <1>13
<1>15. Coding(a \o part) = Coding(part)  BY <1>7, <1>9, BlankStart
<1>16. ASSUME ~Coding(s).code \/ j = k  PROVE Coding(part) = Coding(s)
  <2>1. CASE ~Coding(s).code
    <3>1. ~Coding((a \o part) \o c).code  BY <1>3, <2>1
    <3>2. Coding((a \o part) \o c) = Coding(a \o part)
        BY <1>8, <1>9, <1>11, <3>1, BlankEnd
    <3> QED BY <1>3, <1>15, <3>2
  <2>2. CASE j = k
    <3>1. c = <<>>  BY <1>1, <1>6, <2>2
    <3>2. (a \o part) \o c = a \o part
        BY <1>11, <3>1, ConcatEmptySeq DEF Texts
    <3> QED BY <1>3, <1>15, <3>2
  <2> QED BY <1>16, <2>1, <2>2
<1> QED BY <1>5, <1>10, <1>14, <1>16 DEF part, i, k

(* Stripping a text at both ends keeps its tokens and its code. *)
LEMMA WhitespaceKeeps ==
    ASSUME NEW text \in Seq(Clear)
    PROVE  LET done == NormalizeWhitespace(text) IN
           /\ done \in Seq(Clear) /\ (done # <<>> => Filled(done) # {})
           /\ TextTokens(done) = TextTokens(text)
           /\ Coding(done).out = Coding(text).out
<1> DEFINE state == Spaced(text)
           out == state.out
           end == IF state.code THEN Len(out) ELSE LastFilled(out)
           part == SubSeq(out, FirstFilled(out), end)
           done == NormalizeWhitespace(text)
<1>1. done = IF Filled(out) = {} THEN <<>> ELSE part
    BY DEF NormalizeWhitespace, Spaced
<1>2. /\ out \in Seq(Clear) /\ state.code = Coding(text).code
      /\ TextTokens(out) = TextTokens(text) /\ Coding(out) = Coding(text)
    BY SpacedKeeps
<1> HIDE DEF done, out
<1>3. CASE Filled(out) = {}
  <2>1. AllBlank(out)
    <3>1. DOMAIN out = 1 .. Len(out)  BY <1>2
    <3> QED BY <1>2, <1>3, <3>1, FilledIs DEF AllBlank
  <2>2. out \in Texts /\ <<>> \in Texts  BY <1>2, ClearLines DEF Texts
  <2>3. out \o <<>> = out  BY <2>2, ConcatEmptySeq DEF Texts
  <2>4. Coding(out \o <<>>) = Coding(<<>>)  BY <2>1, <2>2, BlankStart
  <2>5. TextTokens(out) = 0 /\ TextTokens(<<>>) = 0
      BY <2>1, <2>2, BlankTokens, TextTokensGrow
  <2>6. <<>> \in Seq(Clear)  OBVIOUS
  <2> QED BY <1>1, <1>2, <1>3, <2>3, <2>4, <2>5, <2>6 DEF done
<1>4. CASE Filled(out) # {}
  <2>1. FirstFilled(out) \in 1 .. Len(out) /\ LastFilled(out) \in FirstFilled(out) .. Len(out)
      BY <1>2, <1>4, FilledIs
  <2>2. end \in LastFilled(out) .. Len(out) /\ (~Coding(out).code \/ end = Len(out))
      BY <1>2, <2>1
  <2> HIDE DEF end
  <2>3. /\ part \in Seq(Clear) /\ Filled(part) # {}
        /\ TextTokens(part) = TextTokens(out) /\ Coding(part) = Coding(out)
      BY <1>2, <1>4, <2>2, EndsDropped
  <2>4. done = part  BY <1>1, <1>4
  <2> HIDE DEF part
  <2> QED BY <1>2, <2>3, <2>4 DEF done
<1> QED BY <1>3, <1>4

(* A root cleaned by itself: no token and no line of code is lost. *)
LEMMA CleanRootKeeps ==
    ASSUME NEW text \in Texts
    PROVE  LET base == CleanRoot(text) IN
           /\ base \in Seq(Clear) /\ (base # <<>> => Filled(base) # {})
           /\ TextTokens(base) = TextTokens(text)
           /\ CodeOf(base) = CodeOf(RemoveControls(text))
<1> DEFINE a == RemoveControls(text)
           b == NormalizeOcr(a)
           c == NormalizeWhitespace(b)
<1>1. a \in Seq(Clear) /\ TextTokens(a) = TextTokens(text)  BY ControlsRemoved
<1> HIDE DEF a
<1>2. b \in Seq(Clear) /\ TextTokens(b) = TextTokens(a) /\ Coding(b) = Coding(a)
    BY <1>1, OcrKeeps
<1> HIDE DEF b
<1>3. /\ c \in Seq(Clear) /\ (c # <<>> => Filled(c) # {}) /\ TextTokens(c) = TextTokens(b)
      /\ Coding(c).out = Coding(b).out
    BY <1>2, WhitespaceKeeps
<1>4. CleanRoot(text) = c  BY DEF CleanRoot, a, b, c
<1> HIDE DEF c
<1>5. CodeOf(c) = CodeOf(a)  BY <1>2, <1>3, CodeOfIs
<1> QED BY <1>1, <1>2, <1>3, <1>4, <1>5 DEF a

-----------------------------------------------------------------------------
(* Repeated edges. *)

(* Lines with their places, and without. *)
Numbered == [at : Nat, line : Clear]
LinesOf(list) == [i \in DOMAIN list |-> list[i].line]

(* The lines of a list of lines with places. *)
LEMMA LinesOfIs ==
    ASSUME NEW list \in Seq(Numbered)
    PROVE  /\ LinesOf(list) \in Seq(Clear) /\ Len(LinesOf(list)) = Len(list)
           /\ \A x \in Numbered : LinesOf(Append(list, x)) = Append(LinesOf(list), x.line)
<1>1. \A s \in Seq(Numbered) : LinesOf(s) \in Seq(Clear) /\ Len(LinesOf(s)) = Len(s)
                               /\ \A i \in 1 .. Len(s) : LinesOf(s)[i] = s[i].line
  <2> TAKE s \in Seq(Numbered)
  <2>1. Len(s) \in Nat /\ DOMAIN s = 1 .. Len(s) /\ \A i \in 1 .. Len(s) : s[i] \in Numbered
      BY ElementOfSeq
  <2>2. \A i \in 1 .. Len(s) : s[i].line \in Clear  BY <2>1 DEF Numbered
  <2>3. LinesOf(s) \in [1 .. Len(s) -> Clear]  BY <2>1, <2>2 DEF LinesOf
  <2>4. LinesOf(s) \in Seq(Clear) /\ Len(LinesOf(s)) = Len(s)  BY <2>1, <2>3
  <2> QED BY <2>1, <2>4 DEF LinesOf
<1>2. ASSUME NEW x \in Numbered  PROVE LinesOf(Append(list, x)) = Append(LinesOf(list), x.line)
  <2> DEFINE a == LinesOf(Append(list, x))
             b == Append(LinesOf(list), x.line)
             k == Len(list)
  <2>1. /\ Append(list, x) \in Seq(Numbered) /\ Len(Append(list, x)) = k + 1 /\ k \in Nat
        /\ Append(list, x)[k + 1] = x /\ \A i \in 1 .. k : Append(list, x)[i] = list[i]
      OBVIOUS
  <2>2. a \in Seq(Clear) /\ Len(a) = k + 1 /\ \A i \in 1 .. k + 1 : a[i] = Append(list, x)[i].line
      BY <1>1, <2>1
  <2>3. LinesOf(list) \in Seq(Clear) /\ Len(LinesOf(list)) = k /\ x.line \in Clear
        /\ \A i \in 1 .. k : LinesOf(list)[i] = list[i].line
      BY <1>1 DEF Numbered
  <2>4. b \in Seq(Clear) /\ Len(b) = k + 1 /\ b[k + 1] = x.line
        /\ \A i \in 1 .. k : b[i] = LinesOf(list)[i]
      BY <2>3
  <2> HIDE DEF a, b
  <2>5. \A i \in 1 .. k + 1 : a[i] = b[i]
    <3> TAKE i \in 1 .. k + 1
    <3>1. CASE i = k + 1  BY <2>1, <2>2, <2>4, <3>1
    <3>2. CASE i # k + 1
      <4>1. i \in 1 .. k  BY <2>1, <3>2
      <4> QED BY <2>1, <2>2, <2>3, <2>4, <4>1
    <3> QED BY <3>1, <3>2
  <2>6. a = b  BY <2>2, <2>4, <2>5, SeqEqual
  <2> QED BY <2>6 DEF a, b
<1> QED BY <1>1, <1>2

(* The tokens a line loses when those of S are removed. *)
Weight(line, S) == IF Stripped(line) \in S THEN LineTokens(line) ELSE 0

(* What is removed of a text is its first and last line at most. *)
LEMMA EdgesKeep ==
    ASSUME NEW text \in Seq(Clear), Filled(text) # {}, NEW firsts, NEW lasts
    PROVE  LET done == RemoveRepeatedEdges(text, firsts, lasts)
               first == text[FirstFilled(text)]
               last  == text[LastFilled(text)]
           IN  /\ done \in Seq(Clear) /\ Filled(done) # {}
               /\ Weight(first, firsts) \in Nat /\ Weight(last, lasts) \in Nat
               /\ TextTokens(done) \in Nat /\ TextTokens(text) \in Nat
               /\ TextTokens(text) <= TextTokens(done) + (Weight(first, firsts) + Weight(last, lasts))
<1> DEFINE k == Len(text)
           a == FirstFilled(text)
           b == LastFilled(text)
           va == Weight(text[a], firsts)
           vb == Weight(text[b], lasts)
           gone == EdgesToRemove(text, firsts, lasts)
           list == [i \in DOMAIN text |-> [at |-> i, line |-> text[i]]]
           S == {[at |-> i, line |-> text[i]] : i \in DOMAIN text \ gone}
           kept == Those(list, S)
           left == LinesOf(kept)
           done == RemoveRepeatedEdges(text, firsts, lasts)
<1>1. k \in Nat /\ DOMAIN text = 1 .. k /\ \A i \in 1 .. k : text[i] \in Clear
    BY ElementOfSeq
<1>2. a \in 1 .. k /\ b \in 1 .. k  BY <1>1, FilledIs
<1>3. \A s \in Seq(Clear) : TextTokens(s) \in Nat
  <2>1. \A s \in Seq(Clear) : s \in Seq(AllLines)  BY ClearLines DEF Texts
  <2> QED BY <2>1, TextTokensGrow
<1>4. \A i \in 1 .. k : LineTokens(text[i]) \in Nat
    BY <1>1, ClearLines, LineTokensAre
<1>5. va \in Nat /\ vb \in Nat  BY <1>2, <1>4 DEF Weight
<1>6. ASSUME NEW i \in gone
      PROVE  (i = a /\ va = LineTokens(text[i])) \/ (i = b /\ vb = LineTokens(text[i]))
    BY <1>6 DEF EdgesToRemove, Weight
<1>7. done = IF gone = {} \/ Filled(left) = {} THEN text
             ELSE SubSeq(left, FirstFilled(left), LastFilled(left))
    BY DEF RemoveRepeatedEdges, LinesOf
<1>8. /\ list \in Seq(Numbered) /\ Len(list) = k
      /\ \A i \in 1 .. k : list[i].at = i /\ list[i].line = text[i] /\ list[i] \in Numbered
  <2>1. \A i \in 1 .. k : [at |-> i, line |-> text[i]] \in Numbered
      BY <1>1 DEF Numbered
  <2>2. list \in [1 .. k -> Numbered] /\ \A i \in 1 .. k : list[i] = [at |-> i, line |-> text[i]]
      BY <1>1, <2>1
  <2> QED BY <1>1, <2>2
<1>9. /\ \A i \in 1 .. k : list[i] \in S <=> i \notin gone
      /\ S \subseteq Numbered
  <2>1. ASSUME NEW i \in 1 .. k  PROVE list[i] \in S <=> i \notin gone
    <3>1. list[i] = [at |-> i, line |-> text[i]]  BY <1>1
    <3>2. ASSUME list[i] \in S  PROVE i \notin gone
      <4> HIDE DEF gone, list
      <4>1. PICK j \in DOMAIN text \ gone : list[i] = [at |-> j, line |-> text[j]]
          BY <3>2
      <4>2. j = i  BY <1>8, <4>1
      <4> QED BY <4>1, <4>2
    <3> QED BY <1>1, <3>1, <3>2
  <2>2. ASSUME NEW x \in S  PROVE x \in Numbered
    <3> HIDE DEF gone
    <3> QED BY <1>1 DEF Numbered
  <2> QED BY <2>1, <2>2
<1> HIDE DEF list, S
<1>10. list \in Seq(Range(list))  BY <1>8, SeqOfRange
<1>11. PICK keep : Keeping(list, S, keep) /\ kept = keep[k]
    BY <1>8, <1>10, ThoseTaken
<1> HIDE DEF kept
<1>12. /\ keep[0] = <<>>
       /\ \A n \in 0 .. k : keep[n] \in Seq(Numbered)
       /\ \A n \in 0 .. k - 1 :
              keep[n + 1] = IF n + 1 \notin gone THEN Append(keep[n], list[n + 1]) ELSE keep[n]
  <2>1. \A n \in 0 .. k : keep[n] \in Seq(S)  BY <1>8, <1>11 DEF Keeping
  <2>2. \A n \in 0 .. k : keep[n] \in Seq(Numbered)
      BY <1>9, <2>1, SeqMonotonic
  <2>3. \A n \in 0 .. k - 1 : n + 1 \in 1 .. k  BY <1>1
  <2> QED BY <1>8, <1>9, <1>11, <2>2, <2>3 DEF Keeping
<1>13. PICK sums : Adding(text, sums) /\ TextTokens(text) = sums[k]
  <2>1. text \in Texts  BY ClearLines
  <2> QED BY <2>1, TextAdded
<1>14. /\ sums[0] = 0 /\ \A n \in 0 .. k : sums[n] \in Nat
       /\ \A n \in 0 .. k - 1 : sums[n + 1] = sums[n] + LineTokens(text[n + 1])
    BY <1>13 DEF Adding
<1> DEFINE A(n) == IF a <= n THEN va ELSE 0
           B(n) == IF b <= n THEN vb ELSE 0
           Tok(n) == TextTokens(LinesOf(keep[n]))
           T == {n \in Nat : n \in 0 .. k => sums[n] <= Tok(n) + (A(n) + B(n))}
<1>15. \A n \in 0 .. k : LinesOf(keep[n]) \in Seq(Clear) /\ Tok(n) \in Nat
    BY <1>3, <1>12, LinesOfIs
<1>16. 0 \in T
  <2>1. ~(a <= 0) /\ ~(b <= 0) /\ 0 \in 0 .. k  BY <1>1, <1>2
  <2> QED BY <1>14, <1>15, <2>1
<1>17. ASSUME NEW n \in Nat, n \in T  PROVE n + 1 \in T
  <2> SUFFICES ASSUME n + 1 \in 0 .. k
               PROVE  sums[n + 1] <= Tok(n + 1) + (A(n + 1) + B(n + 1))
      OBVIOUS
  <2>1. n \in 0 .. k - 1 /\ n \in 0 .. k /\ n + 1 \in 1 .. k  BY <1>1
  <2>2. sums[n] <= Tok(n) + (A(n) + B(n)) /\ sums[n + 1] = sums[n] + LineTokens(text[n + 1])
      BY <1>14, <1>17, <2>1
  <2>3. /\ A(n) <= A(n + 1) /\ B(n) <= B(n + 1) /\ A(n) \in Nat /\ B(n) \in Nat
        /\ A(n + 1) \in Nat /\ B(n + 1) \in Nat
        /\ (n + 1 = a => A(n) = 0 /\ A(n + 1) = va) /\ (n + 1 = b => B(n) = 0 /\ B(n + 1) = vb)
    <3> HIDE DEF a, b, va, vb
    <3> QED BY <1>2, <1>5, <2>1
  <2>4. sums[n] \in Nat /\ LineTokens(text[n + 1]) \in Nat /\ Tok(n) \in Nat /\ Tok(n + 1) \in Nat
      BY <1>4, <1>14, <1>15, <2>1
  <2> HIDE DEF A, B
  <2>5. CASE n + 1 \notin gone
    <3> HIDE DEF gone
    <3>1. keep[n + 1] = Append(keep[n], list[n + 1]) /\ keep[n] \in Seq(Numbered)
          /\ list[n + 1] \in Numbered /\ list[n + 1].line = text[n + 1]
        BY <1>8, <1>12, <2>1, <2>5
    <3>2. LinesOf(keep[n + 1]) = Append(LinesOf(keep[n]), text[n + 1])
        BY <3>1, LinesOfIs
    <3>3. Tok(n + 1) = Tok(n) + LineTokens(text[n + 1])
        BY <1>1, <1>15, <2>1, <3>2, OneMore
    <3> HIDE DEF Tok
    <3> QED BY <2>2, <2>3, <2>4, <3>3
  <2>6. CASE n + 1 \in gone
    <3>1. Tok(n + 1) = Tok(n)  BY <1>12, <2>1, <2>6
    <3>2. (n + 1 = a /\ va = LineTokens(text[n + 1])) \/ (n + 1 = b /\ vb = LineTokens(text[n + 1]))
        BY <1>6, <2>6
    <3> HIDE DEF Tok, a, b, va, vb, gone
    <3>3. A(n + 1) + B(n + 1) >= A(n) + B(n) + LineTokens(text[n + 1])
      <4>1. CASE n + 1 = a /\ va = LineTokens(text[n + 1])
        <5>1. A(n) = 0 /\ A(n + 1) = va  BY <2>3, <4>1
        <5> QED BY <2>3, <2>4, <4>1, <5>1
      <4>2. CASE n + 1 = b /\ vb = LineTokens(text[n + 1])
        <5>1. B(n) = 0 /\ B(n + 1) = vb  BY <2>3, <4>2
        <5> QED BY <2>3, <2>4, <4>2, <5>1
      <4> QED BY <3>2, <4>1, <4>2
    <3> QED BY <2>2, <2>3, <2>4, <3>1, <3>3
  <2> QED BY <2>5, <2>6
<1>18. Nat \subseteq T
  <2> HIDE DEF T
  <2> QED BY <1>16, <1>17, NumberInduction
<1>19. TextTokens(text) <= TextTokens(left) + (va + vb)
  <2>1. k \in 0 .. k /\ A(k) = va /\ B(k) = vb  BY <1>1, <1>2
  <2>2. sums[k] <= Tok(k) + (A(k) + B(k))  BY <1>1, <1>18, <2>1
  <2>3. Tok(k) = TextTokens(left)  BY <1>11
  <2> QED BY <1>13, <2>1, <2>2, <2>3
<1>20. left \in Seq(Clear)  BY <1>1, <1>11, <1>15
<1>21. text \in Seq(Clear) /\ TextTokens(text) \in Nat /\ TextTokens(left) \in Nat
    BY <1>3, <1>20
<1> HIDE DEF left, gone, done, va, vb
<1>22. done \in Seq(Clear) /\ Filled(done) # {} /\ TextTokens(text) <= TextTokens(done) + (va + vb)
  <2>1. CASE gone = {} \/ Filled(left) = {}  BY <1>5, <1>7, <1>21, <2>1
  <2>2. CASE ~(gone = {} \/ Filled(left) = {})
    <3> DEFINE part == SubSeq(left, FirstFilled(left), LastFilled(left))
    <3>1. LastFilled(left) \in LastFilled(left) .. Len(left)
        BY <1>20, <2>2, FilledIs
    <3>2. part \in Seq(Clear) /\ Filled(part) # {} /\ TextTokens(part) = TextTokens(left)
        BY <1>20, <2>2, <3>1, EndsDropped
    <3>3. done = part  BY <1>7, <2>2
    <3> HIDE DEF part
    <3> QED BY <1>19, <3>2, <3>3
  <2> QED BY <2>1, <2>2
<1> QED BY <1>3, <1>5, <1>21, <1>22 DEF done, va, vb, a, b

-----------------------------------------------------------------------------
(* The roots of a document, cleaned together. *)

(* The first and last line of a text, the roots that share a line as one of
   them, and what a root may lose for it. *)
EdgesOf(text) == {Stripped(text[FirstFilled(text)]), Stripped(text[LastFilled(text)])}
SharedBy(raw, line) == {q \in DOMAIN raw : Stripped(line) \in EdgesOf(CleanRoot(raw[q]))}
LostOf(raw, line) ==
    IF Cardinality(SharedBy(raw, line)) >= Threshold(Len(raw)) THEN LineTokens(line) ELSE 0

(* A line that is removed as a repeated edge is shared by enough roots. *)
LEMMA RepeatedIsShared ==
    ASSUME NEW raw \in Seq(Texts), NEW base, base = [r \in DOMAIN raw |-> CleanRoot(raw[r])],
           NEW line \in AllLines, NEW first \in BOOLEAN
    PROVE  Weight(line, Repeated(base, first)) <= LostOf(raw, line) /\ LostOf(raw, line) \in Nat
<1> DEFINE k == Len(raw)
           R == {r \in DOMAIN base : EdgeLine(base[r], first) = Stripped(line)}
           S == SharedBy(raw, line)
<1>1. k \in Nat /\ DOMAIN raw = 1 .. k /\ DOMAIN base = 1 .. k /\ Len(base) = k
    BY DEF Texts
<1>2. Threshold(k) \in Int
  <2>1. k + 1 \in Int /\ (k + 1) \div 2 \in Int  BY <1>1
  <2> QED BY <2>1, GreaterOfTwo DEF Threshold
<1>3. R \subseteq S  BY DEF SharedBy, EdgesOf, EdgeLine
<1>4. S \subseteq 1 .. k /\ IsFiniteSet(1 .. k)
    BY <1>1, FS_Interval DEF SharedBy
<1> HIDE DEF S, R
<1>5. Cardinality(R) \in Nat /\ Cardinality(S) \in Nat /\ Cardinality(R) <= Cardinality(S)
  <2>1. IsFiniteSet(S)  BY <1>4, FS_Subset
  <2>2. IsFiniteSet(R) /\ Cardinality(R) <= Cardinality(S)
      BY <1>3, <2>1, FS_Subset
  <2> QED BY <2>1, <2>2, FS_CardinalityType
<1>6. LineTokens(line) \in Nat  BY LineTokensAre
<1>7. Stripped(line) \in Repeated(base, first) => Cardinality(R) >= Threshold(k)
    BY <1>1 DEF Repeated, R
<1> QED BY <1>2, <1>5, <1>6, <1>7 DEF Weight, LostOf, S

(* What cleaning the roots of a document promises. *)
Cleaned(raw, cleaned) ==
    /\ cleaned \in Seq(Seq(Clear)) /\ Len(cleaned) = Len(raw)
    /\ (\A r \in DOMAIN cleaned : cleaned[r] # <<>>) =>
           /\ Len(raw) < 2 => cleaned = [r \in DOMAIN raw |-> CleanRoot(raw[r])]
           /\ \A r \in DOMAIN raw :
                  LET base == CleanRoot(raw[r])
                      first == base[FirstFilled(base)]
                      last  == base[LastFilled(base)]
                  IN  /\ Filled(cleaned[r]) # {}
                      /\ TextTokens(cleaned[r]) \in Nat /\ TextTokens(raw[r]) \in Nat
                      /\ LostOf(raw, first) \in Nat /\ LostOf(raw, last) \in Nat
                      /\ TextTokens(raw[r])
                             <= TextTokens(cleaned[r]) + (LostOf(raw, first) + LostOf(raw, last))

(* Cleaning keeps that promise. *)
LEMMA CleanedAll ==
    ASSUME NEW raw \in Seq(Texts)
    PROVE  Cleaned(raw, CleanAll(raw))
<1> DEFINE k == Len(raw)
           base == [r \in DOMAIN raw |-> CleanRoot(raw[r])]
           firsts == Repeated(base, TRUE)
           lasts == Repeated(base, FALSE)
           removed == [r \in DOMAIN base |-> RemoveRepeatedEdges(base[r], firsts, lasts)]
           cleaned == CleanAll(raw)
           Apart == Len(base) < 2 \/ \E r \in DOMAIN base : base[r] = <<>>
           Fine(r, text) ==
               /\ Filled(text) # {} /\ TextTokens(text) \in Nat /\ TextTokens(raw[r]) \in Nat
               /\ LostOf(raw, base[r][FirstFilled(base[r])]) \in Nat
               /\ LostOf(raw, base[r][LastFilled(base[r])]) \in Nat
               /\ TextTokens(raw[r])
                      <= TextTokens(text) + (LostOf(raw, base[r][FirstFilled(base[r])])
                                             + LostOf(raw, base[r][LastFilled(base[r])]))
<1>1. k \in Nat /\ DOMAIN raw = 1 .. k /\ \A r \in 1 .. k : raw[r] \in Texts
    BY ElementOfSeq
<1>2. ASSUME NEW r \in 1 .. k
      PROVE  /\ base[r] = CleanRoot(raw[r]) /\ base[r] \in Seq(Clear)
             /\ (base[r] # <<>> => Filled(base[r]) # {})
             /\ TextTokens(base[r]) = TextTokens(raw[r])
  <2>1. base[r] = CleanRoot(raw[r]) /\ raw[r] \in Texts  BY <1>1
  <2> HIDE DEF base
  <2> QED BY <2>1, CleanRootKeeps
<1>3. DOMAIN base = 1 .. k /\ base \in Seq(Seq(Clear)) /\ Len(base) = k
  <2>1. base = [r \in 1 .. k |-> base[r]]  BY <1>1
  <2> HIDE DEF base
  <2>2. base \in [1 .. k -> Seq(Clear)]  BY <1>2, <2>1
  <2> QED BY <1>1, <2>2
<1>4. cleaned = IF Apart THEN base ELSE removed  BY DEF CleanAll
<1>5. base = [r \in DOMAIN raw |-> CleanRoot(raw[r])]  OBVIOUS
<1>6. removed = [r \in 1 .. k |-> RemoveRepeatedEdges(base[r], firsts, lasts)]
    BY <1>3
<1> HIDE DEF base, cleaned
<1>7. ASSUME NEW r \in 1 .. k, base[r] # <<>>, NEW S \in {firsts, lasts}
      PROVE  /\ LET first == base[r][FirstFilled(base[r])]
                IN  Weight(first, firsts) <= LostOf(raw, first) /\ LostOf(raw, first) \in Nat
             /\ LET last == base[r][LastFilled(base[r])]
                IN  Weight(last, lasts) <= LostOf(raw, last) /\ LostOf(raw, last) \in Nat
  <2>1. base[r] \in Seq(Clear) /\ Filled(base[r]) # {}  BY <1>2, <1>7
  <2>2. /\ FirstFilled(base[r]) \in 1 .. Len(base[r])
        /\ LastFilled(base[r]) \in 1 .. Len(base[r])
      BY <2>1, FilledIs
  <2>3. /\ base[r][FirstFilled(base[r])] \in AllLines /\ base[r][LastFilled(base[r])] \in AllLines
      BY <2>1, <2>2, ElementOfSeq, ClearLines
  <2> QED BY <1>5, <2>3, RepeatedIsShared
<1>8. ASSUME NEW r \in 1 .. k, base[r] # <<>>
      PROVE  /\ Fine(r, base[r])
             /\ Fine(r, RemoveRepeatedEdges(base[r], firsts, lasts))
             /\ RemoveRepeatedEdges(base[r], firsts, lasts) \in Seq(Clear)
  <2> DEFINE text == base[r]
             done == RemoveRepeatedEdges(text, firsts, lasts)
             first == text[FirstFilled(text)]
             last == text[LastFilled(text)]
             wf == Weight(first, firsts)
             wl == Weight(last, lasts)
             lf == LostOf(raw, first)
             ll == LostOf(raw, last)
  <2>1. text \in Seq(Clear) /\ Filled(text) # {} /\ TextTokens(text) = TextTokens(raw[r])
      BY <1>2, <1>8
  <2>2. wf <= lf /\ lf \in Nat /\ wl <= ll /\ ll \in Nat  BY <1>7, <1>8
  <2> HIDE DEF firsts, lasts
  <2>3. /\ done \in Seq(Clear) /\ Filled(done) # {}
        /\ wf \in Nat /\ wl \in Nat /\ TextTokens(done) \in Nat /\ TextTokens(text) \in Nat
        /\ TextTokens(text) <= TextTokens(done) + (wf + wl)
      BY <2>1, EdgesKeep
  <2> HIDE DEF done, text, first, last
  <2>4. /\ TextTokens(text) <= TextTokens(done) + (lf + ll)
        /\ TextTokens(text) <= TextTokens(text) + (lf + ll)
    <3> HIDE DEF wf, wl, lf, ll
    <3> QED BY <2>2, <2>3
  <2> QED BY <2>1, <2>2, <2>3, <2>4 DEF done, text, first, last, lf, ll
<1> HIDE DEF Fine, firsts, lasts
<1>9. /\ cleaned \in Seq(Seq(Clear)) /\ Len(cleaned) = k
      /\ (\A r \in DOMAIN cleaned : cleaned[r] # <<>>) =>
             /\ k < 2 => cleaned = base
             /\ \A r \in 1 .. k : Fine(r, cleaned[r])
  <2>1. CASE Apart  BY <1>3, <1>4, <1>8, <2>1
  <2>2. CASE ~Apart
    <3>1. ~(k < 2) /\ \A r \in 1 .. k : base[r] # <<>>  BY <1>3, <2>2
    <3>2. \A r \in 1 .. k : /\ removed[r] = RemoveRepeatedEdges(base[r], firsts, lasts)
                            /\ removed[r] \in Seq(Clear) /\ Fine(r, removed[r])
        BY <1>6, <1>8, <3>1
    <3>3. removed = [r \in 1 .. k |-> removed[r]]  BY <1>6
    <3> HIDE DEF removed
    <3>4. removed \in [1 .. k -> Seq(Clear)]  BY <3>2, <3>3
    <3>5. removed \in Seq(Seq(Clear)) /\ Len(removed) = k  BY <1>1, <3>4
    <3> QED BY <1>4, <2>2, <3>1, <3>2, <3>5
  <2> QED BY <2>1, <2>2
<1>10. ASSUME NEW r \in DOMAIN raw, Fine(r, cleaned[r])
       PROVE  LET b == CleanRoot(raw[r])
                  first == b[FirstFilled(b)]
                  last  == b[LastFilled(b)]
              IN  /\ Filled(cleaned[r]) # {}
                  /\ TextTokens(cleaned[r]) \in Nat /\ TextTokens(raw[r]) \in Nat
                  /\ LostOf(raw, first) \in Nat /\ LostOf(raw, last) \in Nat
                  /\ TextTokens(raw[r])
                         <= TextTokens(cleaned[r]) + (LostOf(raw, first) + LostOf(raw, last))
  <2>1. base[r] = CleanRoot(raw[r])  BY <1>1, <1>2
  <2> QED BY <1>10, <2>1, Zenon DEF Fine
<1> QED BY <1>1, <1>5, <1>9, <1>10 DEF Cleaned, cleaned

-----------------------------------------------------------------------------
(* Loading: what the loaders return are roots. *)

(* The roots the loaders make. *)
RootKinds == {"text_block", "section", "sheet_rows", "page"}
LoadedRoots == [kind : RootKinds, part : Nat, from : Nat, to : Nat, text : Texts, images : Nat]

(* A root made of its parts. *)
LEMMA RootMade ==
    ASSUME NEW kind \in RootKinds, NEW part \in Nat, NEW from \in Nat, NEW to \in Nat,
           NEW text \in Texts, NEW images \in Nat
    PROVE  LET root == LoadedRoot(kind, part, from, to, text, images) IN
           /\ root \in LoadedRoots /\ root.kind = kind /\ root.part = part /\ root.from = from
           /\ root.to = to /\ root.text = text /\ root.images = images
           /\ <<root>> \in Seq(LoadedRoots)
BY DEF LoadedRoot, LoadedRoots

(* The words of a line that came from data. *)
Words(line) == IF line.kind \in {"prose", "row"} THEN LineTokens(line) ELSE 0

(* The words of a text with one more line. *)
LEMMA WordsGrow ==
    /\ WordsOf(<<>>) = 0
    /\ \A s \in Seq(AllLines) : WordsOf(s) \in Nat
    /\ \A s \in Seq(AllLines), line \in AllLines : WordsOf(Append(s, line)) = WordsOf(s) + Words(line)
<1> DEFINE
      X == AllLines
      B == Nat
      base == 0
      Op(a, line) == a + Words(line)
      next == [p \in B \X X |-> Op(p[1], p[2])]
      F(list, f) == f = [places \in SUBSET DOMAIN list |->
                            IF places = {} THEN base
                            ELSE Op(f[places \ {Max(places)}], list[Max(places)])]
      g(list) == CHOOSE f : F(list, f)
      R == Results(X, B, base, next)
<1>1. \A list : WordsOf(list) = g(list)[DOMAIN list]
    BY DEF WordsOf, Words, FoldLeft, MapThenFoldSet
<1>2. base \in B  OBVIOUS
<1>3. \A a \in B, y \in X : Op(a, y) \in B  BY LineTokensAre DEF Words
<1>4. \A s, y : Op(WordsOf(s), y) = WordsOf(s) + Words(y)  OBVIOUS
<1> HIDE DEF B, Op, base
<1>5. \A a \in B, y \in X : next[<<a, y>>] = Op(a, y) /\ Op(a, y) \in B
    BY <1>3
<1> HIDE DEF next
<1>6. Closed(B, X, next)  BY <1>5 DEF Closed
<1>7. ASSUME NEW list \in Seq(X)  PROVE g(list)[DOMAIN list] = R[list]
  <2>1. ASSUME NEW f, UnfoldingIn(list, X, B, base, next, f)
        PROVE  Unfolded(list, X, B, base, next, g(list))
    <3>1. F(list, f)  BY <1>5, <2>1 DEF UnfoldingIn, Unfolding
    <3> HIDE DEF F
    <3>2. F(list, g(list))  BY <3>1
    <3> HIDE DEF g
    <3> QED BY <1>5, <3>2 DEF Unfolded, F
  <2> HIDE DEF F, g, X
  <2> QED BY <1>2, <1>6, <2>1, FoldIs
<1> HIDE DEF F, g
<1>8. \A list \in Seq(X) : WordsOf(list) = R[list]  BY <1>1, <1>7
<1>9. <<>> \in Seq(X) /\ \A s \in Seq(X), y \in X : Append(s, y) \in Seq(X)
    OBVIOUS
<1> HIDE DEF X, R
<1>10. Growing(X, B, base, next, R)  BY <1>2, <1>6, ResultsGrow DEF R
<1>11. \A s \in Seq(X) : R[s] \in B  BY <1>10 DEF Growing
<1>12. \A s \in Seq(X), y \in X : R[Append(s, y)] = next[<<R[s], y>>]
    BY <1>10 DEF Growing
<1>13. R[<<>>] = base  BY <1>10 DEF Growing
<1>14. \A s \in Seq(X), y \in X : WordsOf(Append(s, y)) = Op(WordsOf(s), y)
  <2> TAKE s \in Seq(X), y \in X
  <2>1. Append(s, y) \in Seq(X)  BY <1>9
  <2>2. WordsOf(Append(s, y)) = R[Append(s, y)] /\ WordsOf(s) = R[s]
      BY <1>8, <2>1
  <2>3. R[Append(s, y)] = next[<<R[s], y>>] /\ R[s] \in B  BY <1>11, <1>12
  <2> QED BY <1>5, <2>2, <2>3
<1>15. \A s \in Seq(X) : WordsOf(s) \in B  BY <1>8, <1>11
<1>16. WordsOf(<<>>) = base  BY <1>8, <1>9, <1>13
<1>17. \A s \in Seq(X), line \in X : WordsOf(Append(s, line)) = WordsOf(s) + Words(line)
    BY <1>4, <1>14
<1>18. /\ WordsOf(<<>>) = base
       /\ \A s \in Seq(X) : WordsOf(s) \in B
       /\ \A s \in Seq(X), line \in X : WordsOf(Append(s, line)) = WordsOf(s) + Words(line)
    BY <1>15, <1>16, <1>17
<1> QED BY <1>18, Zenon DEF B, base, X

(* The words of texts put together add up. *)
LEMMA WordsJoined ==
    ASSUME NEW s \in Texts, NEW t \in Texts
    PROVE  /\ WordsOf(s \o t) = WordsOf(s) + WordsOf(t)
           /\ s \o t \in Texts /\ WordsOf(s) \in Nat /\ WordsOf(t) \in Nat
<1> DEFINE T == {u \in Seq(AllLines) : WordsOf(s \o u) = WordsOf(s) + WordsOf(u)}
<1>0. s \in Seq(AllLines) /\ t \in Seq(AllLines)  BY DEF Texts
<1>1. \A u \in Seq(AllLines) : WordsOf(u) \in Nat  BY WordsGrow
<1>2. <<>> \in T
  <2>1. s \o <<>> = s /\ <<>> \in Seq(AllLines)  BY <1>0, ConcatEmptySeq
  <2>2. WordsOf(<<>>) = 0  BY WordsGrow
  <2> QED BY <1>0, <1>1, <2>1, <2>2
<1>3. ASSUME NEW u \in Seq(AllLines), NEW x \in AllLines, u \in T  PROVE Append(u, x) \in T
  <2>1. s \o u \in Seq(AllLines) /\ s \o Append(u, x) = Append(s \o u, x)
      BY <1>0, JoinedAppend
  <2>2. WordsOf(Append(u, x)) = WordsOf(u) + Words(x)  BY WordsGrow
  <2>3. WordsOf(Append(s \o u, x)) = WordsOf(s \o u) + Words(x)
      BY <2>1, WordsGrow
  <2>4. Words(x) \in Nat /\ WordsOf(s) \in Nat /\ WordsOf(u) \in Nat
      BY <1>0, <1>1, LineTokensAre DEF Words
  <2>5. WordsOf(s \o u) = WordsOf(s) + WordsOf(u)  BY <1>3
  <2>6. WordsOf(s \o Append(u, x)) = WordsOf(s) + WordsOf(Append(u, x))
      BY <2>1, <2>2, <2>3, <2>4, <2>5
  <2>7. Append(u, x) \in Seq(AllLines)  OBVIOUS
  <2> QED BY <2>6, <2>7
<1>4. Seq(AllLines) \subseteq T
  <2> HIDE DEF T
  <2> QED BY <1>2, <1>3, SequenceInduction
<1>5. s \o t \in Texts  BY <1>0 DEF Texts
<1> QED BY <1>0, <1>1, <1>4, <1>5

(* Blank lines have no words. *)
LEMMA BlankWords ==
    ASSUME NEW s \in Texts, AllBlank(s)
    PROVE  WordsOf(s) = 0
<1> DEFINE T == {u \in Seq(AllLines) : AllBlank(u) => WordsOf(u) = 0}
<1>1. <<>> \in T  BY WordsGrow
<1>2. ASSUME NEW u \in Seq(AllLines), NEW x \in AllLines, u \in T  PROVE Append(u, x) \in T
  <2>1. Append(u, x) \in Seq(AllLines)  OBVIOUS
  <2>2. SUFFICES ASSUME AllBlank(Append(u, x))  PROVE WordsOf(Append(u, x)) = 0
      BY <2>1
  <2>3. /\ \A i \in 1 .. Len(u) : Append(u, x)[i] = u[i] /\ i \in DOMAIN Append(u, x)
        /\ Append(u, x)[Len(u) + 1] = x /\ Len(u) + 1 \in DOMAIN Append(u, x)
        /\ DOMAIN u = 1 .. Len(u)
      OBVIOUS
  <2>4. x.kind = "blank" /\ AllBlank(u)  BY <2>2, <2>3 DEF AllBlank
  <2>5. WordsOf(Append(u, x)) = WordsOf(u) + Words(x)  BY WordsGrow
  <2>6. Words(x) = 0 /\ WordsOf(u) = 0  BY <1>2, <2>4 DEF Words
  <2> QED BY <2>5, <2>6
<1>3. Seq(AllLines) \subseteq T
  <2> HIDE DEF T
  <2> QED BY <1>1, <1>2, SequenceInduction
<1> QED BY <1>3 DEF Texts

(* A text without the blank lines at its ends has the same words. *)
LEMMA StripKeeps ==
    ASSUME NEW s \in Texts
    PROVE  Strip(s) \in Texts /\ WordsOf(Strip(s)) = WordsOf(s)
<1> DEFINE k == Len(s)
           S == Visible(s)
           i == Min(S)
           j == Max(S)
           a == SubSeq(s, 1, i - 1)
           part == SubSeq(s, i, j)
           c == SubSeq(s, j + 1, k)
<1>1. /\ s \in Seq(AllLines) /\ k \in Nat /\ DOMAIN s = 1 .. k
      /\ S \subseteq 1 .. k /\ \A n \in 1 .. k : n \notin S => s[n].kind = "blank"
    BY DEF Texts, Visible
<1>2. S \in SUBSET Nat /\ IsFiniteSet(S)
  <2>1. IsFiniteSet(1 .. k)  BY <1>1, FS_Interval
  <2> HIDE DEF S, k
  <2>2. IsFiniteSet(S)  BY <1>1, <2>1, FS_Subset
  <2>3. S \in SUBSET Nat  BY <1>1
  <2> QED BY <2>2, <2>3
<1>3. Strip(s) = IF S = {} THEN <<>> ELSE part  BY DEF Strip
<1> HIDE DEF S
<1>4. CASE S = {}
  <2>1. AllBlank(s)  BY <1>1, <1>4 DEF AllBlank
  <2>2. WordsOf(s) = 0 /\ WordsOf(<<>>) = 0  BY <2>1, BlankWords, WordsGrow
  <2> QED BY <1>3, <1>4, <2>2 DEF Texts
<1>5. CASE S # {}
  <2>1. i \in S /\ \A n \in S : i <= n  BY <1>2, <1>5, LeastIs
  <2>2. j \in S /\ \A n \in S : j >= n  BY <1>2, <1>5, GreatestExists
  <2> HIDE DEF i, j
  <2>3. i \in 1 .. k /\ j \in i .. k /\ j \in Nat  BY <1>1, <2>1, <2>2
  <2>4. \A n \in 1 .. k : n < i \/ n > j => s[n].kind = "blank"
    <3> TAKE n \in 1 .. k
    <3>1. n < i \/ n > j => n \notin S  BY <1>1, <1>2, <2>1, <2>2, <2>3
    <3> QED BY <1>1, <3>1
  <2>5. s = (a \o part) \o c  BY <1>1, <2>3, CutInThree
  <2>6. a \in Seq(AllLines) /\ Len(a) = i - 1 /\ \A n \in 1 .. i - 1 : a[n] = s[n]
    <3>1. 1 \in 1 .. k + 1 /\ i - 1 \in 1 - 1 .. k  BY <1>1, <2>3
    <3>2. /\ a \in Seq(AllLines) /\ Len(a) = (i - 1) - 1 + 1
          /\ \A n \in 1 .. (i - 1) - 1 + 1 : a[n] = s[1 + n - 1]
        BY <1>1, <3>1, PartOf
    <3>3. (i - 1) - 1 + 1 = i - 1 /\ \A n \in 1 .. i - 1 : 1 + n - 1 = n
        BY <2>3
    <3> HIDE DEF a
    <3> QED BY <3>2, <3>3
  <2>7. part \in Seq(AllLines)
    <3>1. i \in 1 .. k + 1 /\ j \in i - 1 .. k  BY <1>1, <2>3
    <3> QED BY <1>1, <3>1, PartOf
  <2>8. c \in Seq(AllLines) /\ Len(c) = k - j /\ \A n \in 1 .. k - j : c[n] = s[j + n]
    <3>1. j + 1 \in 1 .. k + 1 /\ k \in (j + 1) - 1 .. k  BY <1>1, <2>3
    <3>2. /\ c \in Seq(AllLines) /\ Len(c) = k - (j + 1) + 1
          /\ \A n \in 1 .. k - (j + 1) + 1 : c[n] = s[(j + 1) + n - 1]
        BY <1>1, <3>1, PartOf
    <3>3. k - (j + 1) + 1 = k - j /\ \A n \in 1 .. k - j : (j + 1) + n - 1 = j + n
        BY <1>1, <2>3
    <3> HIDE DEF c
    <3> QED BY <3>2, <3>3
  <2> HIDE DEF a, part, c
  <2>9. AllBlank(a)
    <3>1. DOMAIN a = 1 .. i - 1  BY <2>6
    <3>2. \A n \in 1 .. i - 1 : n \in 1 .. k /\ n < i  BY <1>1, <2>3
    <3> QED BY <2>4, <2>6, <3>1, <3>2 DEF AllBlank
  <2>10. AllBlank(c)
    <3>1. DOMAIN c = 1 .. k - j  BY <2>8
    <3>2. \A n \in 1 .. k - j : j + n \in 1 .. k /\ j + n > j  BY <1>1, <2>3
    <3> QED BY <2>4, <2>8, <3>1, <3>2 DEF AllBlank
  <2>11. a \in Texts /\ part \in Texts /\ c \in Texts
      BY <2>6, <2>7, <2>8 DEF Texts
  <2>12. WordsOf(a \o part) = WordsOf(a) + WordsOf(part) /\ a \o part \in Texts /\ WordsOf(part) \in Nat
      BY <2>11, WordsJoined
  <2>13. WordsOf((a \o part) \o c) = WordsOf(a \o part) + WordsOf(c)
      BY <2>11, <2>12, WordsJoined
  <2>14. WordsOf(a) = 0 /\ WordsOf(c) = 0  BY <2>9, <2>10, <2>11, BlankWords
  <2>15. Strip(s) = part  BY <1>3, <1>5 DEF part, i, j
  <2> QED BY <2>5, <2>11, <2>12, <2>13, <2>14, <2>15
<1> QED BY <1>4, <1>5

(* A text file is loaded into roots. *)
LEMMA Utf8Loaded ==
    ASSUME NEW lines \in Texts
    PROVE  LoadUtf8(lines) \in Seq(LoadedRoots)
<1>1. Strip(lines) \in Texts  BY StripKeeps
<1>2. "text_block" \in RootKinds /\ 1 \in Nat /\ 0 \in Nat  BY DEF RootKinds
<1>3. <<LoadedRoot("text_block", 1, 1, 1, Strip(lines), 0)>> \in Seq(LoadedRoots)
    BY <1>1, <1>2, RootMade
<1> QED BY <1>3 DEF LoadUtf8

(* A page of a PDF is loaded into roots, whatever is recognized on it. *)
LEMMA PageLoaded ==
    ASSUME NEW number \in Nat, NEW content \in [text : Texts, enough : BOOLEAN, images : Nat],
           NEW recognized \in Texts
    PROVE  PageRoots(number, content, recognized) \in Seq(LoadedRoots)
<1>1. PageText(content, recognized) \in Texts  BY StripKeeps DEF PageText
<1>2. "page" \in RootKinds /\ 1 \in Nat /\ content.images \in Nat
    BY DEF RootKinds
<1>3. <<LoadedRoot("page", 1, number, number, PageText(content, recognized), content.images)>>
          \in Seq(LoadedRoots)
    BY <1>1, <1>2, RootMade
<1> QED BY <1>3 DEF PageRoots

-----------------------------------------------------------------------------
(* DOCX. *)

(* The elements of a DOCX, and the lists of its sections. *)
Elements == [heading : BOOLEAN, image : BOOLEAN, block : Texts]
SectionLists == {list \in Seq(Texts) : list # <<>>}

(* What one element does to the sections. *)
SectionStep(list, e) ==
    IF e.heading THEN Append(list, <<>>)
    ELSE IF Strip(e.block) = <<>> THEN list
    ELSE Append(Front(list), AddBlock(Last(list), Strip(e.block)))

(* There is always a section to add to. *)
LEMMA SectionStepIs ==
    ASSUME NEW list \in SectionLists, NEW e \in Elements
    PROVE  SectionStep(list, e) \in SectionLists
<1>1. list \in Seq(Texts) /\ list # <<>> /\ e.block \in Texts
    BY DEF SectionLists, Elements
<1>2. \A t \in Texts : Append(list, t) \in SectionLists
    BY <1>1 DEF SectionLists
<1>3. Front(list) \in Seq(Texts) /\ Last(list) \in Texts /\ Strip(e.block) \in Texts
    BY <1>1, FrontAndLast, StripKeeps
<1>4. \A a \in Texts, b \in Texts : AddBlock(a, b) \in Texts
  <2> TAKE a \in Texts, b \in Texts
  <2>1. Empty \in AllLines  BY DEF Empty, AllLines, Kinds
  <2>2. <<Empty>> \in Texts  BY <2>1 DEF Texts
  <2>3. a \o <<Empty>> \in Texts  BY <2>2, TokensJoined
  <2>4. (a \o <<Empty>>) \o b \in Texts  BY <2>3, TokensJoined
  <2> QED BY <2>4 DEF AddBlock
<1>5. AddBlock(Last(list), Strip(e.block)) \in Texts  BY <1>3, <1>4
<1>6. Append(Front(list), AddBlock(Last(list), Strip(e.block))) \in SectionLists
    BY <1>3, <1>5 DEF SectionLists
<1>7. <<>> \in Texts  BY DEF Texts
<1> QED BY <1>2, <1>6, <1>7 DEF SectionStep

(* At first there is one section, without text. *)
LEMMA NoSections == <<<<>>>> \in SectionLists
BY DEF SectionLists, Texts

(* The sections, one more element at a time. *)
LEMMA SectionsGrow ==
    /\ Sections(<<>>) = <<<<>>>>
    /\ \A s \in Seq(Elements) : Sections(s) \in SectionLists
    /\ \A s \in Seq(Elements), e \in Elements : Sections(Append(s, e)) = SectionStep(Sections(s), e)
<1> DEFINE
      X == Elements
      B == SectionLists
      base == <<<<>>>>
      Op(a, e) == SectionStep(a, e)
      next == [p \in B \X X |-> Op(p[1], p[2])]
      F(list, f) == f = [places \in SUBSET DOMAIN list |->
                            IF places = {} THEN base
                            ELSE Op(f[places \ {Max(places)}], list[Max(places)])]
      g(list) == CHOOSE f : F(list, f)
      R == Results(X, B, base, next)
<1>1. \A list : Sections(list) = g(list)[DOMAIN list]
    BY DEF Sections, SectionStep, FoldLeft, MapThenFoldSet
<1>2. base \in B  BY NoSections
<1>3. \A a \in B, y \in X : Op(a, y) \in B  BY SectionStepIs
<1>4. \A s, y : Op(Sections(s), y) = SectionStep(Sections(s), y)  OBVIOUS
<1> HIDE DEF B, Op, base
<1>5. \A a \in B, y \in X : next[<<a, y>>] = Op(a, y) /\ Op(a, y) \in B
    BY <1>3
<1> HIDE DEF next
<1>6. Closed(B, X, next)  BY <1>5 DEF Closed
<1>7. ASSUME NEW list \in Seq(X)  PROVE g(list)[DOMAIN list] = R[list]
  <2>1. ASSUME NEW f, UnfoldingIn(list, X, B, base, next, f)
        PROVE  Unfolded(list, X, B, base, next, g(list))
    <3>1. F(list, f)  BY <1>5, <2>1 DEF UnfoldingIn, Unfolding
    <3> HIDE DEF F
    <3>2. F(list, g(list))  BY <3>1
    <3> HIDE DEF g
    <3> QED BY <1>5, <3>2 DEF Unfolded, F
  <2> HIDE DEF F, g, X
  <2> QED BY <1>2, <1>6, <2>1, FoldIs
<1> HIDE DEF F, g
<1>8. \A list \in Seq(X) : Sections(list) = R[list]  BY <1>1, <1>7
<1>9. <<>> \in Seq(X) /\ \A s \in Seq(X), y \in X : Append(s, y) \in Seq(X)
    OBVIOUS
<1> HIDE DEF X, R
<1>10. Growing(X, B, base, next, R)  BY <1>2, <1>6, ResultsGrow DEF R
<1>11. \A s \in Seq(X) : R[s] \in B  BY <1>10 DEF Growing
<1>12. \A s \in Seq(X), y \in X : R[Append(s, y)] = next[<<R[s], y>>]
    BY <1>10 DEF Growing
<1>13. R[<<>>] = base  BY <1>10 DEF Growing
<1>14. \A s \in Seq(X), y \in X : Sections(Append(s, y)) = Op(Sections(s), y)
  <2> TAKE s \in Seq(X), y \in X
  <2>1. Append(s, y) \in Seq(X)  BY <1>9
  <2>2. Sections(Append(s, y)) = R[Append(s, y)] /\ Sections(s) = R[s]
      BY <1>8, <2>1
  <2>3. R[Append(s, y)] = next[<<R[s], y>>] /\ R[s] \in B  BY <1>11, <1>12
  <2> QED BY <1>5, <2>2, <2>3
<1>15. \A s \in Seq(X) : Sections(s) \in B  BY <1>8, <1>11
<1>16. Sections(<<>>) = base  BY <1>8, <1>9, <1>13
<1>17. \A s \in Seq(X), e \in X : Sections(Append(s, e)) = SectionStep(Sections(s), e)
    BY <1>4, <1>14
<1>18. /\ Sections(<<>>) = base
       /\ \A s \in Seq(X) : Sections(s) \in B
       /\ \A s \in Seq(X), e \in X : Sections(Append(s, e)) = SectionStep(Sections(s), e)
    BY <1>15, <1>16, <1>17
<1> QED BY <1>18, Zenon DEF B, base, X

(* A DOCX is loaded into roots. *)
LEMMA DocxLoaded ==
    ASSUME NEW elements \in Seq(Elements)
    PROVE  LoadDocx(elements) \in Seq(LoadedRoots)
<1> DEFINE sections == Sections(elements)
           list == [s \in DOMAIN sections |->
                       LoadedRoot("section", 1, s, s, sections[s], SectionImages(elements, s))]
           S == {r \in Range(list) : r.text # <<>>}
           k == Len(sections)
<1>1. k \in Nat /\ DOMAIN sections = 1 .. k /\ \A s \in 1 .. k : sections[s] \in Texts
  <2>1. sections \in Seq(Texts)  BY SectionsGrow DEF SectionLists
  <2> QED BY <2>1, ElementOfSeq
<1>2. \A s : SectionImages(elements, s) \in Nat
  <2> TAKE s
  <2> DEFINE I == {i \in DOMAIN elements :
                      /\ elements[i].image
                      /\ s = 1 + Cardinality({j \in 1..i : elements[j].heading})}
  <2>1. I \subseteq 1 .. Len(elements) /\ IsFiniteSet(1 .. Len(elements))
      BY FS_Interval
  <2> HIDE DEF I
  <2>2. Cardinality(I) \in Nat  BY <2>1, FS_Subset, FS_CardinalityType
  <2> QED BY <2>2 DEF SectionImages, I
<1>3. \A s \in 1 .. k : LoadedRoot("section", 1, s, s, sections[s], SectionImages(elements, s)) \in LoadedRoots
  <2>1. "section" \in RootKinds /\ 1 \in Nat  BY DEF RootKinds
  <2> QED BY <1>1, <1>2, <2>1, RootMade
<1>4. list \in Seq(LoadedRoots)
  <2>1. list \in [1 .. k -> LoadedRoots]  BY <1>1, <1>3
  <2> QED BY <1>1, <2>1
<1>5. LoadDocx(elements) = Those(list, S)  BY DEF LoadDocx
<1> HIDE DEF list
<1>6. list \in Seq(Range(list)) /\ Range(list) \subseteq LoadedRoots
    BY <1>4, SeqOfRange, RangeOfSeq
<1>7. S \subseteq LoadedRoots  BY <1>6
<1> HIDE DEF S
<1>8. PICK keep : Keeping(list, S, keep) /\ Those(list, S) = keep[Len(list)]
    BY <1>6, ThoseTaken
<1>9. keep[Len(list)] \in Seq(S)
  <2>1. Len(list) \in 0 .. Len(list)  BY <1>4
  <2> QED BY <1>8, <2>1 DEF Keeping
<1> QED BY <1>5, <1>7, <1>8, <1>9, SeqMonotonic

-----------------------------------------------------------------------------
(* HTML. *)

(* The lines the HTML parser writes. *)
HtmlLines == {Empty, Fenced} \union {TextLine(kind, n) : kind \in {"prose", "row", "rule"}, n \in Nat \ {0}}

(* A line of words, a row or a rule. *)
LEMMA TextLineIs ==
    ASSUME NEW kind \in {"prose", "row", "rule"}, NEW n \in Nat \ {0}
    PROVE  LET line == TextLine(kind, n) IN
           /\ line \in AllLines /\ line \in HtmlLines /\ line.kind = kind /\ line.pieces[1].size = n
           /\ Words(line) = IF kind = "rule" THEN 0 ELSE n
<1> DEFINE line == TextLine(kind, n)
           piece == [size |-> n, ends |-> FALSE]
<1>1. piece \in Pieces /\ piece.size = n  BY DEF Pieces
<1>2. line = [kind |-> kind, pieces |-> <<piece>>, dirt |-> {}]
    BY DEF TextLine
<1> HIDE DEF piece, line
<1>3. <<piece>> \in Seq(Pieces) /\ <<piece>> # <<>> /\ <<piece>> = Append(<<>>, piece)
    BY <1>1
<1>4. line.kind = kind /\ line.pieces = <<piece>> /\ line.dirt = {}  BY <1>2
<1>5. line \in AllLines  BY <1>2, <1>3, <1>4 DEF AllLines, Kinds
<1>6. SizeOf(Append(<<>>, piece)) = SizeOf(<<>>) + piece.size /\ SizeOf(<<>>) = 0
  <2>1. <<>> \in Seq(Pieces)  OBVIOUS
  <2> QED BY <1>1, <2>1, SizeOfGrow
<1>7. LineTokens(line) = n  BY <1>1, <1>3, <1>4, <1>6, TokensOfPieces
<1>8. line \in HtmlLines  BY DEF HtmlLines, line
<1>9. Words(line) = IF kind = "rule" THEN 0 ELSE n  BY <1>4, <1>7 DEF Words
<1>10. line.pieces[1].size = n  BY <1>1, <1>4
<1> QED BY <1>4, <1>5, <1>8, <1>9, <1>10 DEF line

(* Blank lines and fences have no words from data. *)
LEMMA HtmlLinesAre ==
    /\ Empty \in HtmlLines /\ Fenced \in HtmlLines /\ Words(Empty) = 0 /\ Words(Fenced) = 0
    /\ HtmlLines \subseteq AllLines /\ Seq(HtmlLines) \subseteq Texts
<1>1. Empty \in AllLines  BY DEF Empty, AllLines, Kinds
<1>2. Fenced \in AllLines
  <2> DEFINE piece == [size |-> 1, ends |-> FALSE]
  <2>1. piece \in Pieces  BY DEF Pieces
  <2>2. Fenced = [kind |-> "fence", pieces |-> <<piece>>, dirt |-> {}]
      BY DEF Fenced
  <2> HIDE DEF piece
  <2>3. <<piece>> \in Seq(Pieces) /\ <<piece>> # <<>>  BY <2>1
  <2> QED BY <2>2, <2>3 DEF AllLines, Kinds
<1>3. HtmlLines \subseteq AllLines  BY <1>1, <1>2, TextLineIs DEF HtmlLines
<1>4. Words(Empty) = 0 /\ Words(Fenced) = 0  BY DEF Words, Empty, Fenced
<1>5. \A s \in Seq(HtmlLines) : s \in Texts  BY <1>3, SeqMonotonic DEF Texts
<1> QED BY <1>3, <1>4, <1>5 DEF HtmlLines

(* A text of one line. *)
LEMMA OneLine ==
    ASSUME NEW line \in HtmlLines
    PROVE  <<line>> \in Seq(HtmlLines) /\ WordsOf(<<line>>) = Words(line) /\ Words(line) \in Nat
<1>1. <<line>> \in Seq(HtmlLines) /\ line \in AllLines /\ <<>> \in Seq(AllLines)
    BY HtmlLinesAre
<1>2. <<line>> = Append(<<>>, line)  OBVIOUS
<1>3. WordsOf(Append(<<>>, line)) = WordsOf(<<>>) + Words(line) /\ WordsOf(<<>>) = 0
    BY <1>1, WordsGrow
<1>4. Words(line) \in Nat  BY <1>1, LineTokensAre DEF Words
<1> QED BY <1>1, <1>2, <1>3, <1>4

(* The words of lines put together add up. *)
LEMMA HtmlJoined ==
    ASSUME NEW s \in Seq(HtmlLines), NEW t \in Seq(HtmlLines)
    PROVE  /\ s \o t \in Seq(HtmlLines) /\ WordsOf(s \o t) = WordsOf(s) + WordsOf(t)
           /\ WordsOf(s) \in Nat /\ WordsOf(t) \in Nat
<1>1. s \in Texts /\ t \in Texts  BY HtmlLinesAre
<1>2. s \o t \in Seq(HtmlLines)  OBVIOUS
<1> QED BY <1>1, <1>2, WordsJoined

(* The sum of the cells of a row, one more at a time. *)
LEMMA SumGrow ==
    /\ SumOf(<<>>) = 0
    /\ \A s \in Seq(Nat) : SumOf(s) \in Nat
    /\ \A s \in Seq(Nat), n \in Nat : SumOf(Append(s, n)) = SumOf(s) + n
<1> DEFINE
      X == Nat
      B == Nat
      base == 0
      Op(a, n) == a + n
      next == [p \in B \X X |-> Op(p[1], p[2])]
      F(list, f) == f = [places \in SUBSET DOMAIN list |->
                            IF places = {} THEN base
                            ELSE Op(f[places \ {Max(places)}], list[Max(places)])]
      g(list) == CHOOSE f : F(list, f)
      R == Results(X, B, base, next)
<1>1. \A list : SumOf(list) = g(list)[DOMAIN list]
    BY DEF SumOf, FoldLeft, MapThenFoldSet
<1>2. base \in B  OBVIOUS
<1>3. \A a \in B, y \in X : Op(a, y) \in B  OBVIOUS
<1>4. \A s, y : Op(SumOf(s), y) = SumOf(s) + y  OBVIOUS
<1> HIDE DEF B, Op, base
<1>5. \A a \in B, y \in X : next[<<a, y>>] = Op(a, y) /\ Op(a, y) \in B
    BY <1>3
<1> HIDE DEF next
<1>6. Closed(B, X, next)  BY <1>5 DEF Closed
<1>7. ASSUME NEW list \in Seq(X)  PROVE g(list)[DOMAIN list] = R[list]
  <2>1. ASSUME NEW f, UnfoldingIn(list, X, B, base, next, f)
        PROVE  Unfolded(list, X, B, base, next, g(list))
    <3>1. F(list, f)  BY <1>5, <2>1 DEF UnfoldingIn, Unfolding
    <3> HIDE DEF F
    <3>2. F(list, g(list))  BY <3>1
    <3> HIDE DEF g
    <3> QED BY <1>5, <3>2 DEF Unfolded, F
  <2> HIDE DEF F, g, X
  <2> QED BY <1>2, <1>6, <2>1, FoldIs
<1> HIDE DEF F, g
<1>8. \A list \in Seq(X) : SumOf(list) = R[list]  BY <1>1, <1>7
<1>9. <<>> \in Seq(X) /\ \A s \in Seq(X), y \in X : Append(s, y) \in Seq(X)
    OBVIOUS
<1> HIDE DEF X, R
<1>10. Growing(X, B, base, next, R)  BY <1>2, <1>6, ResultsGrow DEF R
<1>11. \A s \in Seq(X) : R[s] \in B  BY <1>10 DEF Growing
<1>12. \A s \in Seq(X), y \in X : R[Append(s, y)] = next[<<R[s], y>>]
    BY <1>10 DEF Growing
<1>13. R[<<>>] = base  BY <1>10 DEF Growing
<1>14. \A s \in Seq(X), y \in X : SumOf(Append(s, y)) = Op(SumOf(s), y)
  <2> TAKE s \in Seq(X), y \in X
  <2>1. Append(s, y) \in Seq(X)  BY <1>9
  <2>2. SumOf(Append(s, y)) = R[Append(s, y)] /\ SumOf(s) = R[s]
      BY <1>8, <2>1
  <2>3. R[Append(s, y)] = next[<<R[s], y>>] /\ R[s] \in B  BY <1>11, <1>12
  <2> QED BY <1>5, <2>2, <2>3
<1>15. \A s \in Seq(X) : SumOf(s) \in B  BY <1>8, <1>11
<1>16. SumOf(<<>>) = base  BY <1>8, <1>9, <1>13
<1>17. \A s \in Seq(X), n \in X : SumOf(Append(s, n)) = SumOf(s) + n
    BY <1>4, <1>14
<1>18. /\ SumOf(<<>>) = base
       /\ \A s \in Seq(X) : SumOf(s) \in B
       /\ \A s \in Seq(X), n \in X : SumOf(Append(s, n)) = SumOf(s) + n
    BY <1>15, <1>16, <1>17
<1> QED BY <1>18, Zenon DEF B, base, X

(* Rows with words, and the words of all of them. *)
TextRows == {row \in Seq(Nat) : SumOf(row) > 0}
RowsSum(rows) == FoldLeft(LAMBDA n, row : n + SumOf(row), 0, rows)

(* A row of a table has words. *)
LEMMA TextRowsAre == \A row \in TextRows : row \in Seq(Nat) /\ SumOf(row) \in Nat \ {0}
<1>1. \A row \in Seq(Nat) : SumOf(row) \in Nat  BY SumGrow
<1> QED BY <1>1 DEF TextRows

(* The words of the rows, one more at a time. *)
LEMMA RowsSumGrow ==
    /\ RowsSum(<<>>) = 0
    /\ \A s \in Seq(TextRows) : RowsSum(s) \in Nat
    /\ \A s \in Seq(TextRows), row \in TextRows : RowsSum(Append(s, row)) = RowsSum(s) + SumOf(row)
<1> DEFINE
      X == TextRows
      B == Nat
      base == 0
      Op(a, row) == a + SumOf(row)
      next == [p \in B \X X |-> Op(p[1], p[2])]
      F(list, f) == f = [places \in SUBSET DOMAIN list |->
                            IF places = {} THEN base
                            ELSE Op(f[places \ {Max(places)}], list[Max(places)])]
      g(list) == CHOOSE f : F(list, f)
      R == Results(X, B, base, next)
<1>1. \A list : RowsSum(list) = g(list)[DOMAIN list]
    BY DEF RowsSum, FoldLeft, MapThenFoldSet
<1>2. base \in B  OBVIOUS
<1>3. \A a \in B, y \in X : Op(a, y) \in B  BY TextRowsAre
<1>4. \A s, y : Op(RowsSum(s), y) = RowsSum(s) + SumOf(y)  OBVIOUS
<1> HIDE DEF B, Op, base
<1>5. \A a \in B, y \in X : next[<<a, y>>] = Op(a, y) /\ Op(a, y) \in B
    BY <1>3
<1> HIDE DEF next
<1>6. Closed(B, X, next)  BY <1>5 DEF Closed
<1>7. ASSUME NEW list \in Seq(X)  PROVE g(list)[DOMAIN list] = R[list]
  <2>1. ASSUME NEW f, UnfoldingIn(list, X, B, base, next, f)
        PROVE  Unfolded(list, X, B, base, next, g(list))
    <3>1. F(list, f)  BY <1>5, <2>1 DEF UnfoldingIn, Unfolding
    <3> HIDE DEF F
    <3>2. F(list, g(list))  BY <3>1
    <3> HIDE DEF g
    <3> QED BY <1>5, <3>2 DEF Unfolded, F
  <2> HIDE DEF F, g, X
  <2> QED BY <1>2, <1>6, <2>1, FoldIs
<1> HIDE DEF F, g
<1>8. \A list \in Seq(X) : RowsSum(list) = R[list]  BY <1>1, <1>7
<1>9. <<>> \in Seq(X) /\ \A s \in Seq(X), y \in X : Append(s, y) \in Seq(X)
    OBVIOUS
<1> HIDE DEF X, R
<1>10. Growing(X, B, base, next, R)  BY <1>2, <1>6, ResultsGrow DEF R
<1>11. \A s \in Seq(X) : R[s] \in B  BY <1>10 DEF Growing
<1>12. \A s \in Seq(X), y \in X : R[Append(s, y)] = next[<<R[s], y>>]
    BY <1>10 DEF Growing
<1>13. R[<<>>] = base  BY <1>10 DEF Growing
<1>14. \A s \in Seq(X), y \in X : RowsSum(Append(s, y)) = Op(RowsSum(s), y)
  <2> TAKE s \in Seq(X), y \in X
  <2>1. Append(s, y) \in Seq(X)  BY <1>9
  <2>2. RowsSum(Append(s, y)) = R[Append(s, y)] /\ RowsSum(s) = R[s]
      BY <1>8, <2>1
  <2>3. R[Append(s, y)] = next[<<R[s], y>>] /\ R[s] \in B  BY <1>11, <1>12
  <2> QED BY <1>5, <2>2, <2>3
<1>15. \A s \in Seq(X) : RowsSum(s) \in B  BY <1>8, <1>11
<1>16. RowsSum(<<>>) = base  BY <1>8, <1>9, <1>13
<1>17. \A s \in Seq(X), row \in X : RowsSum(Append(s, row)) = RowsSum(s) + SumOf(row)
    BY <1>4, <1>14
<1>18. /\ RowsSum(<<>>) = base
       /\ \A s \in Seq(X) : RowsSum(s) \in B
       /\ \A s \in Seq(X), row \in X : RowsSum(Append(s, row)) = RowsSum(s) + SumOf(row)
    BY <1>15, <1>16, <1>17
<1> QED BY <1>18, Zenon DEF B, base, X

(* The lines of the rows. *)
RowLines(rows) == [i \in DOMAIN rows |-> TextLine("row", SumOf(rows[i]))]

(* The lines of the rows have the words of the rows. *)
LEMMA RowLinesAre ==
    ASSUME NEW rows \in Seq(TextRows)
    PROVE  /\ RowLines(rows) \in Seq(HtmlLines) /\ Len(RowLines(rows)) = Len(rows)
           /\ WordsOf(RowLines(rows)) = RowsSum(rows) /\ RowsSum(rows) \in Nat
<1>1. \A s \in Seq(TextRows) :
          /\ RowLines(s) \in Seq(HtmlLines) /\ Len(RowLines(s)) = Len(s)
          /\ \A i \in 1 .. Len(s) : RowLines(s)[i] = TextLine("row", SumOf(s[i]))
  <2> TAKE s \in Seq(TextRows)
  <2>1. Len(s) \in Nat /\ DOMAIN s = 1 .. Len(s) /\ \A i \in 1 .. Len(s) : SumOf(s[i]) \in Nat \ {0}
      BY ElementOfSeq, TextRowsAre
  <2>2. \A i \in 1 .. Len(s) : TextLine("row", SumOf(s[i])) \in HtmlLines
      BY <2>1, TextLineIs
  <2>3. RowLines(s) \in [1 .. Len(s) -> HtmlLines]  BY <2>1, <2>2 DEF RowLines
  <2>4. RowLines(s) \in Seq(HtmlLines) /\ Len(RowLines(s)) = Len(s)
      BY <2>1, <2>3
  <2> QED BY <2>1, <2>4 DEF RowLines
<1> DEFINE T == {s \in Seq(TextRows) : WordsOf(RowLines(s)) = RowsSum(s)}
<1>2. <<>> \in T
  <2>1. Len(RowLines(<<>>)) = 0 /\ RowLines(<<>>) \in Seq(HtmlLines)
    <3>1. <<>> \in Seq(TextRows) /\ Len(<<>>) = 0  OBVIOUS
    <3> QED BY <1>1, <3>1, Zenon
  <2>2. RowLines(<<>>) = <<>>  BY <2>1
  <2> QED BY <2>2, WordsGrow, RowsSumGrow
<1>3. ASSUME NEW s \in Seq(TextRows), NEW row \in TextRows, s \in T  PROVE Append(s, row) \in T
  <2> DEFINE more == Append(s, row)
             line == TextLine("row", SumOf(row))
             k == Len(s)
             b == Append(RowLines(s), line)
  <2>1. /\ more \in Seq(TextRows) /\ Len(more) = k + 1 /\ k \in Nat
        /\ more[k + 1] = row /\ \A i \in 1 .. k : more[i] = s[i]
      OBVIOUS
  <2>2. line \in HtmlLines /\ line \in AllLines /\ Words(line) = SumOf(row)
      BY TextRowsAre, TextLineIs
  <2> HIDE DEF line, more
  <2>3. b \in Seq(HtmlLines) /\ Len(b) = k + 1 /\ b[k + 1] = line
        /\ \A i \in 1 .. k : b[i] = RowLines(s)[i]
      BY <1>1, <2>2
  <2>4. /\ RowLines(more) \in Seq(HtmlLines) /\ Len(RowLines(more)) = k + 1
        /\ \A i \in 1 .. k + 1 : RowLines(more)[i] = TextLine("row", SumOf(more[i]))
      BY <1>1, <2>1
  <2> HIDE DEF b
  <2>5. \A i \in 1 .. k + 1 : RowLines(more)[i] = b[i]
    <3> TAKE i \in 1 .. k + 1
    <3>1. CASE i = k + 1  BY <2>1, <2>3, <2>4, <3>1 DEF line
    <3>2. CASE i # k + 1
      <4>1. i \in 1 .. k  BY <2>1, <3>2
      <4> QED BY <1>1, <2>1, <2>3, <2>4, <4>1
    <3> QED BY <3>1, <3>2
  <2>6. RowLines(more) = b  BY <2>3, <2>4, <2>5, SeqEqual
  <2>7. WordsOf(b) = WordsOf(RowLines(s)) + Words(line)
    <3>1. RowLines(s) \in Seq(AllLines)  BY <1>1, HtmlLinesAre DEF Texts
    <3> QED BY <2>2, <3>1, WordsGrow DEF b
  <2>8. RowsSum(more) = RowsSum(s) + SumOf(row)  BY RowsSumGrow DEF more
  <2>9. WordsOf(RowLines(s)) = RowsSum(s)  BY <1>3
  <2>10. WordsOf(RowLines(more)) = RowsSum(more)
      BY <2>2, <2>6, <2>7, <2>8, <2>9
  <2> QED BY <2>1, <2>10 DEF more
<1>4. Seq(TextRows) \subseteq T
  <2> HIDE DEF T
  <2> QED BY <1>2, <1>3, SequenceInduction
<1> QED BY <1>1, <1>4, RowsSumGrow

(* The words of rows put together add up. *)
LEMMA RowsSumJoined ==
    ASSUME NEW row \in TextRows, NEW rows \in Seq(TextRows)
    PROVE  RowsSum(<<row>> \o rows) = SumOf(row) + RowsSum(rows)
<1> DEFINE T == {s \in Seq(TextRows) : RowsSum(<<row>> \o s) = SumOf(row) + RowsSum(s)}
           one == <<row>>
<1>1. one \in Seq(TextRows) /\ one = Append(<<>>, row) /\ <<>> \in Seq(TextRows)
    OBVIOUS
<1>2. SumOf(row) \in Nat /\ \A s \in Seq(TextRows) : RowsSum(s) \in Nat
    BY TextRowsAre, RowsSumGrow
<1>3. RowsSum(one) = SumOf(row) /\ RowsSum(<<>>) = 0
  <2>1. RowsSum(Append(<<>>, row)) = RowsSum(<<>>) + SumOf(row) /\ RowsSum(<<>>) = 0
      BY <1>1, RowsSumGrow
  <2> QED BY <1>1, <1>2, <2>1
<1>4. <<>> \in T
  <2> HIDE DEF one
  <2>1. one \o <<>> = one  BY <1>1, ConcatEmptySeq
  <2>2. RowsSum(one \o <<>>) = SumOf(row) + RowsSum(<<>>)  BY <1>2, <1>3, <2>1
  <2> QED BY <1>1, <2>2 DEF one
<1>5. ASSUME NEW s \in Seq(TextRows), NEW x \in TextRows, s \in T  PROVE Append(s, x) \in T
  <2> HIDE DEF one
  <2>1. one \o s \in Seq(TextRows) /\ one \o Append(s, x) = Append(one \o s, x)
      BY <1>1, JoinedAppend
  <2>2. RowsSum(Append(one \o s, x)) = RowsSum(one \o s) + SumOf(x)
      BY <2>1, RowsSumGrow
  <2>3. RowsSum(Append(s, x)) = RowsSum(s) + SumOf(x)  BY RowsSumGrow
  <2>4. RowsSum(one \o s) = SumOf(row) + RowsSum(s)  BY <1>5 DEF one
  <2>5. SumOf(x) \in Nat /\ RowsSum(s) \in Nat  BY <1>2, TextRowsAre
  <2>6. RowsSum(one \o Append(s, x)) = SumOf(row) + RowsSum(Append(s, x))
      BY <1>2, <2>1, <2>2, <2>3, <2>4, <2>5
  <2>7. Append(s, x) \in Seq(TextRows)  OBVIOUS
  <2> QED BY <2>6, <2>7 DEF one
<1>6. Seq(TextRows) \subseteq T
  <2> HIDE DEF T, one
  <2> QED BY <1>4, <1>5, SequenceInduction
<1> QED BY <1>6

-----------------------------------------------------------------------------
(* The parser. *)

(* The states of the parser. *)
Parsers ==
    [out : Seq(HtmlLines), blocked : Nat, pre : BOOLEAN, rows : Seq(TextRows),
     inRow : BOOLEAN, row : Seq(Nat), cell : [open : BOOLEAN, tokens : Nat]]

(* The parser with more lines written, and nothing else changed. *)
Wrote(p, q, words) ==
    /\ q \in Parsers /\ q.blocked = p.blocked /\ q.rows = p.rows /\ q.inRow = p.inRow
    /\ q.row = p.row /\ q.cell = p.cell
    /\ WordsOf(q.out) = WordsOf(p.out) + words /\ WordsOf(p.out) \in Nat

(* Writing lines adds their words. *)
LEMMA WrittenIs ==
    ASSUME NEW p \in Parsers, NEW lines \in Seq(HtmlLines)
    PROVE  Wrote(p, Written(p, lines), WordsOf(lines)) /\ WordsOf(lines) \in Nat
<1> DEFINE out == p.out \o lines
           q == [p EXCEPT !.out = out]
<1>1. p.out \in Seq(HtmlLines)  BY DEF Parsers
<1>2. /\ out \in Seq(HtmlLines) /\ WordsOf(out) = WordsOf(p.out) + WordsOf(lines)
      /\ WordsOf(p.out) \in Nat /\ WordsOf(lines) \in Nat
    BY <1>1, HtmlJoined
<1>3. Written(p, lines) = q  BY DEF Written
<1> HIDE DEF out
<1>4. /\ q \in Parsers /\ q.out = out /\ q.blocked = p.blocked /\ q.rows = p.rows
      /\ q.inRow = p.inRow /\ q.row = p.row /\ q.cell = p.cell
    BY <1>2 DEF Parsers
<1> HIDE DEF q
<1> QED BY <1>2, <1>3, <1>4 DEF Wrote

(* A line break adds no words. *)
LEMMA BreakIs ==
    ASSUME NEW p \in Parsers
    PROVE  Wrote(p, Break(p), 0)
<1>1. WordsOf(p.out) \in Nat
  <2>1. p.out \in Seq(HtmlLines)  BY DEF Parsers
  <2> QED BY <2>1, HtmlJoined
<1>2. Wrote(p, p, 0)  BY <1>1 DEF Wrote
<1>3. Wrote(p, Written(p, <<Empty>>), 0)
  <2>1. <<Empty>> \in Seq(HtmlLines) /\ WordsOf(<<Empty>>) = 0
      BY OneLine, HtmlLinesAre
  <2> HIDE DEF Wrote
  <2>2. Wrote(p, Written(p, <<Empty>>), WordsOf(<<Empty>>))
      BY <2>1, WrittenIs
  <2> QED BY <2>1, <2>2
<1> QED BY <1>2, <1>3 DEF Break

(* Nor does a fence. *)
LEMMA FenceIs ==
    ASSUME NEW p \in Parsers, NEW pre \in BOOLEAN
    PROVE  /\ Wrote(p, [Written(Break(p), <<Fenced>>) EXCEPT !.pre = pre], 0)
           /\ Wrote(p, [Written(p, <<Fenced>>) EXCEPT !.pre = pre], 0)
<1>1. ASSUME NEW q, Wrote(p, q, 0)
      PROVE  Wrote(p, [Written(q, <<Fenced>>) EXCEPT !.pre = pre], 0)
  <2> DEFINE r == Written(q, <<Fenced>>)
             s == [r EXCEPT !.pre = pre]
  <2>1. <<Fenced>> \in Seq(HtmlLines) /\ WordsOf(<<Fenced>>) = 0
      BY OneLine, HtmlLinesAre
  <2>2. q \in Parsers  BY <1>1 DEF Wrote
  <2>3. Wrote(q, r, 0)
    <3>1. Wrote(q, r, WordsOf(<<Fenced>>))  BY <2>1, <2>2, WrittenIs
    <3> QED BY <2>1, <3>1
  <2> HIDE DEF r
  <2>4. /\ s \in Parsers /\ s.out = r.out /\ s.blocked = r.blocked /\ s.rows = r.rows
        /\ s.inRow = r.inRow /\ s.row = r.row /\ s.cell = r.cell
    <3>1. r \in Parsers  BY <2>3 DEF Wrote
    <3> QED BY <3>1 DEF Parsers
  <2> HIDE DEF s
  <2>5. Wrote(p, s, 0)  BY <1>1, <2>3, <2>4 DEF Wrote
  <2> QED BY <2>5 DEF r, s
<1>2. Wrote(p, Break(p), 0)  BY BreakIs
<1>3. Wrote(p, p, 0)
  <2>1. p.out \in Seq(HtmlLines)  BY DEF Parsers
  <2>2. WordsOf(p.out) \in Nat  BY <2>1, HtmlJoined
  <2> QED BY <2>2 DEF Wrote
<1> QED BY <1>1, <1>2, <1>3

(* A sequence of two elements. *)
LEMMA TwoIn ==
    ASSUME NEW X, NEW a \in X, NEW b \in X
    PROVE  <<a, b>> = <<a>> \o <<b>>
<1> DEFINE s == <<a>>
           t == <<b>>
           u == <<a, b>>
<1>1. s \in Seq(X) /\ t \in Seq(X) /\ u \in Seq(X) /\ Len(s) = 1 /\ Len(t) = 1 /\ Len(u) = 2
      /\ s[1] = a /\ t[1] = b /\ u[1] = a /\ u[2] = b
    OBVIOUS
<1> HIDE DEF s, t, u
<1>2. s \o t \in Seq(X) /\ Len(s \o t) = 2 /\ (s \o t)[1] = a /\ (s \o t)[2] = b
  <2>1. /\ s \o t \in Seq(X) /\ Len(s \o t) = Len(s) + Len(t)
        /\ \A n \in 1 .. Len(s) + Len(t) : (s \o t)[n] = IF n <= Len(s) THEN s[n] ELSE t[n - Len(s)]
      BY <1>1, ConcatProperties
  <2>2. (s \o t)[1] = s[1]  BY <1>1, <2>1
  <2>3. (s \o t)[2] = t[2 - 1]  BY <1>1, <2>1
  <2> QED BY <1>1, <2>1, <2>2, <2>3
<1>3. \A i \in 1 .. 2 : u[i] = (s \o t)[i]
  <2> TAKE i \in 1 .. 2
  <2>1. i = 1 \/ i = 2  OBVIOUS
  <2> QED BY <1>1, <1>2, <2>1
<1>4. u = s \o t  BY <1>1, <1>2, <1>3, SeqEqual
<1> QED BY <1>4 DEF s, t, u

(* A table that is written adds the words of its rows. *)
LEMMA EmitIs ==
    ASSUME NEW p \in Parsers
    PROVE  LET q == EmitTable(p) IN
           /\ q \in Parsers /\ q.blocked = p.blocked /\ q.rows = <<>> /\ q.inRow = p.inRow
           /\ q.row = p.row /\ q.cell = p.cell
           /\ WordsOf(q.out) = WordsOf(p.out) + RowsSum(p.rows)
<1>1. p.out \in Seq(HtmlLines) /\ p.rows \in Seq(TextRows)  BY DEF Parsers
<1>2. WordsOf(p.out) \in Nat  BY <1>1, HtmlJoined
<1>3. CASE p.rows = <<>>
  <2>1. EmitTable(p) = p  BY <1>3 DEF EmitTable
  <2>2. RowsSum(p.rows) = 0  BY <1>3, RowsSumGrow
  <2> QED BY <1>2, <1>3, <2>1, <2>2
<1>4. CASE p.rows # <<>>
  <2> DEFINE rows == p.rows
             first == Head(rows)
             rest == Tail(rows)
             head == TextLine("row", SumOf(first))
             rule == TextLine("rule", 1)
             top == <<head, rule>>
             body == [i \in 1..(Len(rows) - 1) |-> TextLine("row", SumOf(rows[i + 1]))]
             lines == top \o body \o <<Empty>>
             r == Written(p, lines)
             none == <<>>
             q == [r EXCEPT !.rows = none]
  <2>1. EmitTable(p) = q  BY <1>4 DEF EmitTable
  <2>2. first \in TextRows /\ rest \in Seq(TextRows) /\ Len(rest) = Len(rows) - 1
        /\ (\A i \in 1 .. Len(rest) : rest[i] = rows[i + 1]) /\ Len(rest) \in Nat
        /\ rows = <<first>> \o rest
    <3>1. /\ first \in TextRows /\ rest \in Seq(TextRows) /\ Len(rest) = Len(rows) - 1
          /\ (\A i \in 1 .. Len(rest) : rest[i] = rows[i + 1]) /\ Len(rest) \in Nat
        BY <1>1, <1>4
    <3>2. rows = <<first>> \o rest  BY <1>1, <1>4
    <3> QED BY <3>1, <3>2
  <2>3. RowsSum(rows) = SumOf(first) + RowsSum(rest)  BY <2>2, RowsSumJoined
  <2>4. body = RowLines(rest)
    <3>1. DOMAIN rest = 1 .. Len(rows) - 1  BY <2>2
    <3> QED BY <2>2, <3>1 DEF RowLines
  <2>5. body \in Seq(HtmlLines) /\ WordsOf(body) = RowsSum(rest) /\ RowsSum(rest) \in Nat
      BY <2>2, <2>4, RowLinesAre
  <2>6. SumOf(first) \in Nat \ {0}  BY <2>2, TextRowsAre
  <2>7. head \in HtmlLines /\ Words(head) = SumOf(first)  BY <2>6, TextLineIs
  <2>8. rule \in HtmlLines /\ Words(rule) = 0  BY TextLineIs
  <2> HIDE DEF head, rule, body, first, rest
  <2>9. top \in Seq(HtmlLines) /\ WordsOf(top) = SumOf(first)
    <3>1. top = <<head>> \o <<rule>>  BY <2>7, <2>8, TwoIn
    <3> DEFINE a == <<head>>
               b == <<rule>>
    <3>2. a \in Seq(HtmlLines) /\ b \in Seq(HtmlLines)
          /\ WordsOf(a) = SumOf(first) /\ WordsOf(b) = 0
        BY <2>7, <2>8, OneLine
    <3>4. top = a \o b  BY <3>1
    <3> HIDE DEF top, a, b
    <3>3. WordsOf(a \o b) = WordsOf(a) + WordsOf(b) /\ a \o b \in Seq(HtmlLines)
        BY <3>2, HtmlJoined
    <3> QED BY <2>6, <3>2, <3>3, <3>4
  <2> HIDE DEF top
  <2>10. top \o body \in Seq(HtmlLines) /\ WordsOf(top \o body) = RowsSum(rows)
    <3>1. top \o body \in Seq(HtmlLines) /\ WordsOf(top \o body) = WordsOf(top) + WordsOf(body)
        BY <2>5, <2>9, HtmlJoined
    <3> QED BY <2>3, <2>5, <2>9, <3>1
  <2>11. lines \in Seq(HtmlLines) /\ WordsOf(lines) = RowsSum(rows)
    <3>1. <<Empty>> \in Seq(HtmlLines) /\ WordsOf(<<Empty>>) = 0
        BY OneLine, HtmlLinesAre
    <3>2. lines \in Seq(HtmlLines) /\ WordsOf(lines) = WordsOf(top \o body) + WordsOf(<<Empty>>)
        BY <2>10, <3>1, HtmlJoined
    <3>3. RowsSum(rows) \in Nat  BY <1>1, RowsSumGrow
    <3> HIDE DEF lines
    <3> QED BY <2>10, <3>1, <3>2, <3>3
  <2> HIDE DEF lines
  <2>12. Wrote(p, r, RowsSum(rows))
    <3>1. Wrote(p, r, WordsOf(lines))  BY <2>11, WrittenIs
    <3> QED BY <2>11, <3>1
  <2> HIDE DEF r
  <2>13. r \in Parsers  BY <2>12 DEF Wrote
  <2>a. none \in Seq(TextRows)  OBVIOUS
  <2> HIDE DEF none
  <2>14. /\ q \in Parsers /\ q.out = r.out /\ q.blocked = r.blocked /\ q.rows = none
         /\ q.inRow = r.inRow /\ q.row = r.row /\ q.cell = r.cell
      BY <2>13, <2>a DEF Parsers
  <2> HIDE DEF q
  <2> QED BY <2>1, <2>12, <2>14 DEF Wrote, none
<1> QED BY <1>3, <1>4

(* Data outside blocked tags goes to the open cell, or is written. *)
LEMMA DataIs ==
    ASSUME NEW p \in Parsers, NEW n \in Nat \ {0}, p.blocked = 0
    PROVE  LET q == Data(p, n) IN
           /\ q \in Parsers /\ q.blocked = 0 /\ q.rows = p.rows /\ q.inRow = p.inRow
           /\ q.row = p.row /\ q.cell.open = p.cell.open
           /\ p.cell.open => q.out = p.out /\ q.cell.tokens = p.cell.tokens + n
           /\ ~p.cell.open => WordsOf(q.out) = WordsOf(p.out) + n /\ q.cell = p.cell
<1>0. /\ p.out \in Seq(HtmlLines) /\ p.cell \in [open : BOOLEAN, tokens : Nat]
      /\ WordsOf(p.out) \in Nat
  <2>1. p.out \in Seq(HtmlLines) /\ p.cell \in [open : BOOLEAN, tokens : Nat]
      BY DEF Parsers
  <2> QED BY <2>1, HtmlJoined
<1>1. CASE p.cell.open
  <2> DEFINE more == p.cell.tokens + n
             cell == [p.cell EXCEPT !.tokens = more]
             q == [p EXCEPT !.cell = cell]
  <2>1. Data(p, n) = q  BY <1>1 DEF Data, Parsers
  <2>2. more \in Nat  BY <1>0
  <2> HIDE DEF more
  <2>3. cell \in [open : BOOLEAN, tokens : Nat] /\ cell.open = p.cell.open /\ cell.tokens = more
      BY <1>0, <2>2
  <2> HIDE DEF cell
  <2>4. /\ q \in Parsers /\ q.out = p.out /\ q.blocked = p.blocked /\ q.rows = p.rows
        /\ q.inRow = p.inRow /\ q.row = p.row /\ q.cell = cell
      BY <2>3 DEF Parsers
  <2> HIDE DEF q
  <2> QED BY <1>1, <2>1, <2>3, <2>4 DEF more
<1>2. CASE ~p.cell.open /\ p.out # <<>> /\ Last(p.out).kind = "prose"
  <2> DEFINE out == p.out
             m == Last(out).pieces[1].size
             line == TextLine("prose", m + n)
             new == Append(Front(out), line)
             q == [p EXCEPT !.out = new]
  <2>1. Data(p, n) = q  BY <1>2 DEF Data, Parsers
  <2>2. Front(out) \in Seq(HtmlLines) /\ Last(out) \in HtmlLines /\ out = Append(Front(out), Last(out))
    <3>1. out # <<>>  BY <1>2
    <3> HIDE DEF out
    <3> QED BY <1>0, <3>1, FrontAndLast DEF out
  <2>3. Last(out).kind = "prose"  BY <1>2
  <2>4. m \in Nat /\ Words(Last(out)) = m /\ m + n \in Nat \ {0}
    <3> DEFINE last == Last(out)
    <3>1. last # Empty /\ last # Fenced  BY <2>3 DEF Empty, Fenced
    <3>2. PICK kind \in {"prose", "row", "rule"}, k \in Nat \ {0} : last = TextLine(kind, k)
        BY <2>2, <3>1 DEF HtmlLines
    <3>3. TextLine(kind, k).kind = kind /\ TextLine(kind, k).pieces[1].size = k
          /\ Words(TextLine(kind, k)) = IF kind = "rule" THEN 0 ELSE k
        BY TextLineIs
    <3>4. kind = "prose"  BY <2>3, <3>2, <3>3
    <3> QED BY <3>2, <3>3, <3>4
  <2> HIDE DEF m
  <2>5. line \in HtmlLines /\ Words(line) = m + n /\ line \in AllLines /\ Last(out) \in AllLines
        /\ Front(out) \in Seq(AllLines)
    <3>1. line \in HtmlLines /\ Words(line) = m + n /\ line \in AllLines
        BY <2>4, TextLineIs
    <3>2. Last(out) \in AllLines /\ Front(out) \in Seq(AllLines)
        BY <2>2, HtmlLinesAre DEF Texts
    <3> QED BY <3>1, <3>2
  <2> HIDE DEF line, out
  <2>6. WordsOf(new) = WordsOf(Front(out)) + (m + n)  BY <2>5, WordsGrow
  <2>7. WordsOf(out) = WordsOf(Front(out)) + m
    <3>1. WordsOf(Append(Front(out), Last(out))) = WordsOf(Front(out)) + Words(Last(out))
        BY <2>5, WordsGrow
    <3> QED BY <2>2, <2>4, <3>1
  <2>8. WordsOf(Front(out)) \in Nat /\ new \in Seq(HtmlLines)
      BY <2>2, <2>5, WordsGrow
  <2> HIDE DEF new
  <2>9. WordsOf(new) = WordsOf(out) + n  BY <2>4, <2>6, <2>7, <2>8
  <2>10. /\ q \in Parsers /\ q.out = new /\ q.blocked = p.blocked /\ q.rows = p.rows
         /\ q.inRow = p.inRow /\ q.row = p.row /\ q.cell = p.cell
      BY <2>8 DEF Parsers
  <2> HIDE DEF q
  <2> QED BY <1>2, <2>1, <2>9, <2>10 DEF out
<1>3. CASE ~p.cell.open /\ ~(p.out # <<>> /\ Last(p.out).kind = "prose")
  <2> DEFINE line == TextLine("prose", n)
  <2>1. Data(p, n) = Written(p, <<line>>)  BY <1>3 DEF Data, Parsers
  <2>2. line \in HtmlLines /\ Words(line) = n  BY TextLineIs
  <2> HIDE DEF line
  <2>3. <<line>> \in Seq(HtmlLines) /\ WordsOf(<<line>>) = n  BY <2>2, OneLine
  <2>4. Wrote(p, Written(p, <<line>>), WordsOf(<<line>>))  BY <2>3, WrittenIs
  <2> QED BY <1>3, <2>1, <2>3, <2>4 DEF Wrote
<1> QED BY <1>1, <1>2, <1>3

-----------------------------------------------------------------------------
(* The parser and the page read beside it. *)

(* The states of reading the page. *)
Pages == [blocked : Nat, tokens : Nat, level : 0 .. 4]

(* The words the parser holds: written, in rows, in the open row and cell. *)
Total(p, level) ==
    WordsOf(p.out) + RowsSum(p.rows) + (IF level >= 3 THEN SumOf(p.row) ELSE 0)
        + (IF level = 4 THEN p.cell.tokens ELSE 0)

(* As long as tables are nested well, the parser holds the words read so far. *)
Agree(p, seen) ==
    seen.level # 0 =>
        /\ p.blocked = seen.blocked /\ seen.tokens = Total(p, seen.level)
        /\ seen.level = 1 => p.rows = <<>>
        /\ seen.level >= 3 => p.inRow
        /\ p.cell.open <=> seen.level = 4

(* An event after which parser and page still agree. *)
Kept(p, seen, q, next) ==
    q \in Parsers /\ next \in Pages /\ (Agree(p, seen) => Agree(q, next))

(* The parts of the state of the parser. *)
LEMMA ParserParts ==
    ASSUME NEW p \in Parsers
    PROVE  /\ WordsOf(p.out) \in Nat /\ RowsSum(p.rows) \in Nat /\ SumOf(p.row) \in Nat
           /\ p.cell.tokens \in Nat /\ p.cell.open \in BOOLEAN /\ p.inRow \in BOOLEAN
           /\ p.blocked \in Nat /\ p.row \in Seq(Nat) /\ p.rows \in Seq(TextRows)
<1>1. /\ p.out \in Seq(HtmlLines) /\ p.rows \in Seq(TextRows) /\ p.row \in Seq(Nat)
      /\ p.cell.tokens \in Nat /\ p.cell.open \in BOOLEAN /\ p.inRow \in BOOLEAN /\ p.blocked \in Nat
    BY DEF Parsers
<1>2. WordsOf(p.out) \in Nat  BY <1>1, HtmlJoined
<1> QED BY <1>1, <1>2, RowsSumGrow, SumGrow

(* Lines without words are written, at any place of the page. *)
LEMMA LinesKeep ==
    ASSUME NEW p \in Parsers, NEW seen \in Pages, NEW q, Wrote(p, q, 0)
    PROVE  Kept(p, seen, q, seen)
<1>1. WordsOf(q.out) = WordsOf(p.out) /\ q \in Parsers  BY DEF Wrote
<1>2. \A level : Total(q, level) = Total(p, level)  BY <1>1 DEF Wrote, Total
<1> QED BY <1>1, <1>2 DEF Kept, Agree, Wrote

(* The tags. *)
Tagged == {"nav", "p", "pre", "table", "tr", "td"}

(* How deep a tag leads into a table. *)
LEMMA NestedIs ==
    ASSUME NEW seen \in Pages, NEW type \in {"open", "close"}, NEW tag \in Tagged
    PROVE  LET level == Nested(seen.level, [type |-> type, tag |-> tag]) IN
           /\ level \in 0 .. 4
           /\ seen.level = 0 => level = 0
           /\ tag \in {"p", "pre"} => level = seen.level
           /\ tag = "table" /\ type = "open" => level = 0 \/ (seen.level = 1 /\ level = 2)
           /\ tag = "tr" /\ type = "open" => level = 0 \/ (seen.level = 2 /\ level = 3)
           /\ tag = "td" /\ type = "open" => level = 0 \/ (seen.level = 3 /\ level = 4)
           /\ tag = "table" /\ type = "close" => level = 0 \/ (seen.level = 2 /\ level = 1)
           /\ tag = "tr" /\ type = "close" => level = 0 \/ (seen.level = 3 /\ level = 2)
           /\ tag = "td" /\ type = "close" => level = 0 \/ (seen.level = 4 /\ level = 3)
<1> DEFINE e == [type |-> type, tag |-> tag]
           k == seen.level
<1>1. e.type = type /\ e.tag = tag  OBVIOUS
<1>2. k \in 0 .. 4  BY DEF Pages
<1>3. k = 0 \/ k = 1 \/ k = 2 \/ k = 3 \/ k = 4  BY <1>2
<1>4. Nesting[1] = "" /\ Nesting[2] = "table" /\ Nesting[3] = "tr" /\ Nesting[4] = "td"
    BY DEF Nesting
<1> DEFINE level == Nested(k, e)
<1> HIDE DEF e, k
<1>a. level = IF k = 0 \/ tag \notin {"table", "tr", "td"} THEN k
              ELSE IF type = "open" /\ k < 4 /\ Nesting[k + 1] = tag THEN k + 1
              ELSE IF type = "close" /\ Nesting[k] = tag THEN k - 1
              ELSE 0
    BY <1>1 DEF Nested
<1> DEFINE Goal ==
           /\ level \in 0 .. 4
           /\ k = 0 => level = 0
           /\ tag \in {"p", "pre"} => level = k
           /\ tag = "table" /\ type = "open" => level = 0 \/ (k = 1 /\ level = 2)
           /\ tag = "tr" /\ type = "open" => level = 0 \/ (k = 2 /\ level = 3)
           /\ tag = "td" /\ type = "open" => level = 0 \/ (k = 3 /\ level = 4)
           /\ tag = "table" /\ type = "close" => level = 0 \/ (k = 2 /\ level = 1)
           /\ tag = "tr" /\ type = "close" => level = 0 \/ (k = 3 /\ level = 2)
           /\ tag = "td" /\ type = "close" => level = 0 \/ (k = 4 /\ level = 3)
<1> HIDE DEF level
<1>5. ASSUME k = 0  PROVE Goal  BY <1>a, <1>5
<1>6. ASSUME k = 1  PROVE Goal
  <2>1. level = IF tag \notin {"table", "tr", "td"} THEN 1
                ELSE IF type = "open" /\ "table" = tag THEN 2
                ELSE IF type = "close" /\ "" = tag THEN 0 ELSE 0
    <3>1. Nesting[k] = "" /\ Nesting[k + 1] = "table" /\ k - 1 = 0 /\ k + 1 = 2 /\ k < 4 /\ k # 0
      <4>1. k - 1 = 0 /\ k + 1 = 2 /\ k < 4 /\ k # 0  BY <1>6
      <4> QED BY <1>4, <1>6, <4>1
    <3> QED BY <1>a, <1>6, <3>1
  <2>2. 1 \in 0 .. 4 /\ 2 \in 0 .. 4 /\ 0 \in 0 .. 4  OBVIOUS
  <2> QED BY <1>6, <2>1, <2>2 DEF Tagged
<1>7. ASSUME k = 2  PROVE Goal
  <2>1. Nesting[k] = "table" /\ Nesting[k + 1] = "tr" /\ k - 1 = 1 /\ k + 1 = 3
    <3>1. k - 1 = 1 /\ k + 1 = 3  BY <1>7
    <3> QED BY <1>4, <1>7, <3>1
  <2>2. level = IF tag \notin {"table", "tr", "td"} THEN 2
                ELSE IF type = "open" /\ "tr" = tag THEN 3
                ELSE IF type = "close" /\ "table" = tag THEN 1 ELSE 0
    <3>1. k < 4 /\ k # 0  BY <1>7
    <3> QED BY <1>a, <1>7, <2>1, <3>1
  <2>3. 2 \in 0 .. 4 /\ 1 \in 0 .. 4 /\ 3 \in 0 .. 4 /\ 0 \in 0 .. 4  OBVIOUS
  <2> QED BY <1>7, <2>2, <2>3 DEF Tagged
<1>8. ASSUME k = 3  PROVE Goal
  <2>1. Nesting[k] = "tr" /\ Nesting[k + 1] = "td" /\ k - 1 = 2 /\ k + 1 = 4
    <3>1. k - 1 = 2 /\ k + 1 = 4  BY <1>8
    <3> QED BY <1>4, <1>8, <3>1
  <2>2. level = IF tag \notin {"table", "tr", "td"} THEN 3
                ELSE IF type = "open" /\ "td" = tag THEN 4
                ELSE IF type = "close" /\ "tr" = tag THEN 2 ELSE 0
    <3>1. k < 4 /\ k # 0  BY <1>8
    <3> QED BY <1>a, <1>8, <2>1, <3>1
  <2>3. 3 \in 0 .. 4 /\ 2 \in 0 .. 4 /\ 4 \in 0 .. 4 /\ 0 \in 0 .. 4  OBVIOUS
  <2> QED BY <1>8, <2>2, <2>3 DEF Tagged
<1>9. ASSUME k = 4  PROVE Goal
  <2>1. Nesting[k] = "td" /\ k - 1 = 3 /\ ~(k < 4)
    <3>1. k - 1 = 3 /\ ~(k < 4)  BY <1>9
    <3> QED BY <1>4, <1>9, <3>1
  <2>2. level = IF tag \notin {"table", "tr", "td"} THEN 4
                ELSE IF type = "close" /\ "td" = tag THEN 3 ELSE 0
    <3>1. k # 0  BY <1>9
    <3> QED BY <1>a, <1>9, <2>1, <3>1
  <2>3. 4 \in 0 .. 4 /\ 3 \in 0 .. 4 /\ 0 \in 0 .. 4  OBVIOUS
  <2> QED BY <1>9, <2>2, <2>3 DEF Tagged
<1>10. Goal
  <2> HIDE DEF Goal
  <2> QED BY <1>3, <1>5, <1>6, <1>7, <1>8, <1>9
<1> QED BY <1>10 DEF level, e, k

(* Data outside blocked tags. *)
LEMMA DataKeeps ==
    ASSUME NEW p \in Parsers, NEW seen \in Pages, NEW e \in [type : {"data"}, tokens : Nat \ {0}]
    PROVE  Kept(p, seen, Handle(p, e), Read(seen, e))
<1> DEFINE n == e.tokens
           q == Data(p, n)
           next == IF seen.blocked > 0 THEN seen ELSE [seen EXCEPT !.tokens = @ + n]
<1>1. n \in Nat \ {0} /\ Handle(p, e) = q /\ Read(seen, e) = next
    BY DEF Handle, Read
<1>2. seen.blocked \in Nat /\ seen.tokens \in Nat /\ seen.level \in 0 .. 4 /\ p.blocked \in Nat
    BY DEF Pages, Parsers
<1>3. next \in Pages /\ next.blocked = seen.blocked /\ next.level = seen.level
      /\ next.tokens = IF seen.blocked > 0 THEN seen.tokens ELSE seen.tokens + n
  <2> DEFINE m == seen.tokens + n
             r == [seen EXCEPT !.tokens = m]
  <2>1. m \in Nat  BY <1>1, <1>2
  <2> HIDE DEF m
  <2>2. r \in Pages /\ r.blocked = seen.blocked /\ r.level = seen.level /\ r.tokens = m
      BY <2>1 DEF Pages
  <2>3. next = IF seen.blocked > 0 THEN seen ELSE r  BY DEF m
  <2> HIDE DEF r
  <2> QED BY <2>2, <2>3 DEF m
<1> HIDE DEF next, n
<1>4. CASE p.blocked > 0
  <2>1. q = p  BY <1>4 DEF Data
  <2>2. seen.level # 0 /\ Agree(p, seen) => seen.blocked > 0
      BY <1>4 DEF Agree
  <2>3. seen.level # 0 /\ Agree(p, seen) => next.tokens = seen.tokens
      BY <1>3, <2>2
  <2> QED BY <1>1, <1>3, <2>1, <2>3 DEF Kept, Agree
<1>5. CASE p.blocked = 0
  <2>1. /\ q \in Parsers /\ q.blocked = 0 /\ q.rows = p.rows /\ q.inRow = p.inRow
        /\ q.row = p.row /\ q.cell.open = p.cell.open
        /\ p.cell.open => q.out = p.out /\ q.cell.tokens = p.cell.tokens + n
        /\ ~p.cell.open => WordsOf(q.out) = WordsOf(p.out) + n /\ q.cell = p.cell
      BY <1>1, <1>5, DataIs
  <2> HIDE DEF q
  <2>2. ASSUME seen.level # 0, Agree(p, seen)  PROVE Agree(q, next)
    <3>1. /\ p.blocked = seen.blocked /\ seen.tokens = Total(p, seen.level)
          /\ seen.level = 1 => p.rows = <<>>
          /\ seen.level >= 3 => p.inRow
          /\ p.cell.open <=> seen.level = 4
        BY <2>2 DEF Agree
    <3>2. next.tokens = seen.tokens + n  BY <1>2, <1>3, <1>5, <3>1
    <3>3. /\ WordsOf(p.out) \in Nat /\ RowsSum(p.rows) \in Nat /\ SumOf(p.row) \in Nat
          /\ p.cell.tokens \in Nat
        BY ParserParts
    <3>4. Total(q, seen.level) = Total(p, seen.level) + n
      <4>1. CASE seen.level = 4  BY <1>1, <2>1, <3>1, <3>3, <4>1 DEF Total
      <4>2. CASE seen.level # 4  BY <1>1, <2>1, <3>1, <3>3, <4>2 DEF Total
      <4> QED BY <4>1, <4>2
    <3> QED BY <1>3, <1>5, <2>1, <3>1, <3>2, <3>4 DEF Agree
  <2>3. seen.level = 0 => Agree(q, next)  BY <1>3 DEF Agree
  <2> QED BY <1>1, <1>3, <2>1, <2>2, <2>3 DEF Kept
<1> QED BY <1>2, <1>4, <1>5

(* A blocked tag opens or closes. *)
LEMMA NavKeeps ==
    ASSUME NEW p \in Parsers, NEW seen \in Pages, NEW e \in [type : {"open", "close"}, tag : {"nav"}]
    PROVE  Kept(p, seen, Handle(p, e), Read(seen, e))
<1> DEFINE Depth(b) == IF e.type = "open" THEN b + 1 ELSE IF b > 0 THEN b - 1 ELSE 0
           q == [p EXCEPT !.blocked = Depth(p.blocked)]
           next == [seen EXCEPT !.blocked = Depth(seen.blocked)]
<1>1. seen.blocked \in Nat /\ p.blocked \in Nat /\ e.tag = "nav" /\ e.type \in {"open", "close"}
    BY DEF Pages, Parsers
<1>2. \A b \in Nat : Depth(b) \in Nat  OBVIOUS
<1>3. Read(seen, e) = next  BY <1>1 DEF Read
<1>4. Handle(p, e) = q
  <2>1. [p EXCEPT !.blocked = p.blocked] = p  BY DEF Parsers
  <2>2. CASE e.type = "open" /\ p.blocked > 0
      BY <1>1, <2>2 DEF Handle, StartTag
  <2>3. CASE e.type = "open" /\ p.blocked = 0
      BY <1>1, <2>3 DEF Handle, StartTag
  <2>4. CASE e.type = "close" /\ p.blocked > 0
      BY <1>1, <2>4 DEF Handle, EndTag
  <2>5. CASE e.type = "close" /\ p.blocked = 0
    <3>1. Handle(p, e) = p  BY <1>1, <2>5 DEF Handle, EndTag
    <3>2. Depth(p.blocked) = p.blocked  BY <2>5
    <3> QED BY <2>1, <3>1, <3>2
  <2> QED BY <1>1, <2>2, <2>3, <2>4, <2>5
<1>5. Depth(p.blocked) \in Nat /\ Depth(seen.blocked) \in Nat
      /\ (p.blocked = seen.blocked => Depth(p.blocked) = Depth(seen.blocked))
    BY <1>1, <1>2
<1> DEFINE a == Depth(p.blocked)
           b == Depth(seen.blocked)
<1> HIDE DEF Depth
<1>6. a \in Nat /\ b \in Nat /\ (p.blocked = seen.blocked => a = b)  BY <1>5
<1> HIDE DEF a, b
<1>7. q = [p EXCEPT !.blocked = a] /\ next = [seen EXCEPT !.blocked = b]
    BY DEF a, b
<1> HIDE DEF q, next
<1>8. /\ q \in Parsers /\ q.out = p.out /\ q.blocked = a /\ q.rows = p.rows
      /\ q.inRow = p.inRow /\ q.row = p.row /\ q.cell = p.cell
    BY <1>6, <1>7 DEF Parsers
<1>9. next \in Pages /\ next.blocked = b /\ next.level = seen.level /\ next.tokens = seen.tokens
    BY <1>6, <1>7 DEF Pages
<1>10. \A level : Total(q, level) = Total(p, level)  BY <1>8 DEF Total
<1>11. Agree(p, seen) => Agree(q, next)  BY <1>6, <1>8, <1>9, <1>10 DEF Agree
<1> QED BY <1>3, <1>4, <1>8, <1>9, <1>11 DEF Kept

(* Where the parser is blocked, other tags do nothing. *)
LEMMA BlockedKeeps ==
    ASSUME NEW p \in Parsers, NEW seen \in Pages, p.blocked > 0,
           NEW type \in {"open", "close"}, NEW tag \in Tagged \ {"nav"}
    PROVE  LET e == [type |-> type, tag |-> tag] IN Kept(p, seen, Handle(p, e), Read(seen, e))
<1> DEFINE e == [type |-> type, tag |-> tag]
           level == Nested(seen.level, e)
           r == [seen EXCEPT !.level = level]
<1>1. Handle(p, e) = p  BY DEF Handle, StartTag, EndTag, Tagged
<1>2. level \in 0 .. 4 /\ (seen.level = 0 => level = 0)  BY NestedIs
<1>3. Read(seen, e) = IF seen.blocked > 0 THEN seen ELSE r
    BY DEF Read, Tagged
<1>4. seen.blocked \in Nat  BY DEF Pages
<1> HIDE DEF e, level
<1>5. r \in Pages /\ r.level = level  BY <1>2 DEF Pages
<1> HIDE DEF r
<1>6. CASE seen.blocked > 0
  <2>1. Read(seen, e) = seen  BY <1>3, <1>6
  <2> QED BY <1>1, <2>1 DEF Kept, e
<1>7. CASE seen.blocked = 0
  <2>1. Read(seen, e) = r  BY <1>3, <1>7
  <2>2. Agree(p, seen) => seen.level = 0  BY <1>7 DEF Agree
  <2>3. seen.level = 0 => Agree(p, r)  BY <1>2, <1>5 DEF Agree
  <2> QED BY <1>1, <1>5, <2>1, <2>2, <2>3 DEF Kept, e
<1> QED BY <1>4, <1>6, <1>7

(* What any other tag comes to outside blocked ones. *)
LEMMA OpenKeeps ==
    ASSUME NEW p \in Parsers, NEW seen \in Pages, p.blocked = 0, NEW tag \in Tagged \ {"nav"}
    PROVE  LET e == [type |-> "open", tag |-> tag]
               q == Handle(p, e)
               next == [seen EXCEPT !.level = Nested(seen.level, e)]
           IN  Kept(p, seen, q, next)
<1> DEFINE e == [type |-> "open", tag |-> tag]
           level == Nested(seen.level, e)
           q == Handle(p, e)
           next == [seen EXCEPT !.level = level]
<1>1. q = StartTag(p, tag)  BY DEF Handle
<1>2. /\ level \in 0 .. 4
      /\ seen.level = 0 => level = 0
      /\ tag \in {"p", "pre"} => level = seen.level
      /\ tag = "table" => level = 0 \/ (seen.level = 1 /\ level = 2)
      /\ tag = "tr" => level = 0 \/ (seen.level = 2 /\ level = 3)
      /\ tag = "td" => level = 0 \/ (seen.level = 3 /\ level = 4)
  <2> "open" \in {"open", "close"}  OBVIOUS
  <2> QED BY NestedIs
<1>2a. seen.level \in 0 .. 4 /\ seen.level \in Nat  BY DEF Pages
<1> HIDE DEF level
<1>3. next \in Pages /\ next.level = level /\ next.blocked = seen.blocked /\ next.tokens = seen.tokens
    BY <1>2 DEF Pages
<1> HIDE DEF next, e
<1>4. SUFFICES Kept(p, seen, q, next)  BY DEF level, next, e
<1>5. ASSUME level = 0  PROVE Agree(q, next)  BY <1>3, <1>5 DEF Agree
<1>6. CASE tag \in {"p", "pre"}
  <2>1. Wrote(p, q, 0)
    <3>1. CASE tag = "p"
      <4>1. q = Break(p)  BY <1>1, <3>1 DEF StartTag
      <4> QED BY <4>1, BreakIs
    <3>2. CASE tag = "pre"
      <4>1. q = [Written(Break(p), <<Fenced>>) EXCEPT !.pre = TRUE]
          BY <1>1, <3>2 DEF StartTag
      <4> QED BY <4>1, FenceIs
    <3> QED BY <1>6, <3>1, <3>2
  <2>2. next = seen  BY <1>2, <1>6 DEF next, Pages
  <2> QED BY <2>1, <2>2, LinesKeep
<1>7. CASE tag = "table"
  <2> DEFINE r == Break(p)
             none == <<>>
  <2>1. q = [r EXCEPT !.rows = none]  BY <1>1, <1>7 DEF StartTag
  <2>a. none \in Seq(TextRows) /\ none = <<>>  OBVIOUS
  <2> HIDE DEF none
  <2>2. Wrote(p, r, 0)  BY BreakIs
  <2> HIDE DEF r
  <2>3. r \in Parsers  BY <2>2 DEF Wrote
  <2>4. /\ q \in Parsers /\ q.out = r.out /\ q.blocked = r.blocked /\ q.rows = none
        /\ q.inRow = r.inRow /\ q.row = r.row /\ q.cell = r.cell
      BY <2>1, <2>3, <2>a DEF Parsers
  <2> HIDE DEF q
  <2>5. ASSUME Agree(p, seen), seen.level = 1, level = 2  PROVE Agree(q, next)
    <3>1. /\ p.blocked = seen.blocked /\ seen.tokens = Total(p, 1) /\ p.rows = <<>> /\ ~p.cell.open
        BY <2>5 DEF Agree
    <3>2. Total(q, 2) = Total(p, 1)
        BY <2>2, <2>4, <2>a, <3>1, ParserParts DEF Wrote, Total
    <3> QED BY <1>3, <2>2, <2>4, <2>5, <3>1, <3>2 DEF Agree, Wrote
  <2> QED BY <1>2, <1>3, <1>5, <1>7, <2>4, <2>5 DEF Kept
<1>8. CASE tag = "tr"
  <2> DEFINE none == <<>>
  <2>1. q = [p EXCEPT !.inRow = TRUE, !.row = none]
      BY <1>1, <1>8 DEF StartTag
  <2>a. none \in Seq(Nat) /\ none = <<>>  OBVIOUS
  <2> HIDE DEF none
  <2>2. /\ q \in Parsers /\ q.out = p.out /\ q.blocked = p.blocked /\ q.rows = p.rows
        /\ q.inRow = TRUE /\ q.row = none /\ q.cell = p.cell
      BY <2>1, <2>a DEF Parsers
  <2> HIDE DEF q
  <2>3. ASSUME Agree(p, seen), seen.level = 2, level = 3  PROVE Agree(q, next)
    <3>1. /\ p.blocked = seen.blocked /\ seen.tokens = Total(p, 2) /\ ~p.cell.open
        BY <2>3 DEF Agree
    <3>2. SumOf(<<>>) = 0  BY SumGrow
    <3>3. Total(q, 3) = Total(p, 2)
        BY <2>2, <2>a, <3>2, ParserParts DEF Total
    <3> QED BY <1>3, <2>2, <2>3, <3>1, <3>3 DEF Agree
  <2> QED BY <1>2, <1>3, <1>5, <1>8, <2>2, <2>3 DEF Kept
<1>9. CASE tag = "td"
  <2>1. q = [p EXCEPT !.cell = Opened]  BY <1>1, <1>9 DEF StartTag
  <2>a. Opened \in [open : BOOLEAN, tokens : Nat] /\ Opened.open = TRUE /\ Opened.tokens = 0
      BY DEF Opened
  <2>b. /\ q \in Parsers /\ q.out = p.out /\ q.blocked = p.blocked /\ q.rows = p.rows
        /\ q.inRow = p.inRow /\ q.row = p.row /\ q.cell = Opened
      BY <2>1, <2>a DEF Parsers
  <2>2. /\ q \in Parsers /\ q.out = p.out /\ q.blocked = p.blocked /\ q.rows = p.rows
        /\ q.inRow = p.inRow /\ q.row = p.row /\ q.cell.open = TRUE /\ q.cell.tokens = 0
      BY <2>a, <2>b
  <2> HIDE DEF q
  <2>3. ASSUME Agree(p, seen), seen.level = 3, level = 4  PROVE Agree(q, next)
    <3>1. /\ p.blocked = seen.blocked /\ seen.tokens = Total(p, 3) /\ p.inRow
        BY <2>3 DEF Agree
    <3>2. Total(q, 4) = Total(p, 3)  BY <2>2, ParserParts DEF Total
    <3> QED BY <1>3, <2>2, <2>3, <3>1, <3>2 DEF Agree
  <2> QED BY <1>2, <1>3, <1>5, <1>9, <2>2, <2>3 DEF Kept
<1> QED BY <1>6, <1>7, <1>8, <1>9 DEF Tagged

(* Closing a tag outside the blocked ones. *)
LEMMA CloseKeeps ==
    ASSUME NEW p \in Parsers, NEW seen \in Pages, p.blocked = 0, NEW tag \in Tagged \ {"nav"}
    PROVE  LET e == [type |-> "close", tag |-> tag]
               q == Handle(p, e)
               next == [seen EXCEPT !.level = Nested(seen.level, e)]
           IN  Kept(p, seen, q, next)
<1> DEFINE e == [type |-> "close", tag |-> tag]
           level == Nested(seen.level, e)
           q == Handle(p, e)
           next == [seen EXCEPT !.level = level]
<1>1. q = EndTag(p, tag)  BY DEF Handle
<1>2. /\ level \in 0 .. 4
      /\ seen.level = 0 => level = 0
      /\ tag \in {"p", "pre"} => level = seen.level
      /\ tag = "table" => level = 0 \/ (seen.level = 2 /\ level = 1)
      /\ tag = "tr" => level = 0 \/ (seen.level = 3 /\ level = 2)
      /\ tag = "td" => level = 0 \/ (seen.level = 4 /\ level = 3)
  <2> "close" \in {"open", "close"}  OBVIOUS
  <2> QED BY NestedIs
<1>2a. seen.level \in 0 .. 4 /\ seen.level \in Nat  BY DEF Pages
<1> HIDE DEF level
<1>3. next \in Pages /\ next.level = level /\ next.blocked = seen.blocked /\ next.tokens = seen.tokens
    BY <1>2 DEF Pages
<1> HIDE DEF next, e
<1>4. SUFFICES Kept(p, seen, q, next)  BY DEF level, next, e
<1>5. ASSUME level = 0  PROVE Agree(q, next)  BY <1>3, <1>5 DEF Agree
<1>6. CASE tag \in {"p", "pre"}
  <2>1. Wrote(p, q, 0)
    <3>1. CASE tag = "p"
      <4>1. q = Break(p)  BY <1>1, <3>1 DEF EndTag
      <4> QED BY <4>1, BreakIs
    <3>2. CASE tag = "pre"
      <4>1. q = [Written(p, <<Fenced>>) EXCEPT !.pre = FALSE]
          BY <1>1, <3>2 DEF EndTag
      <4> QED BY <4>1, FenceIs
    <3> QED BY <1>6, <3>1, <3>2
  <2>2. next = seen  BY <1>2, <1>6 DEF next, Pages
  <2> QED BY <2>1, <2>2, LinesKeep
<1>7. CASE tag = "table"
  <2>1. q = EmitTable(p)  BY <1>1, <1>7 DEF EndTag
  <2>2. /\ q \in Parsers /\ q.blocked = p.blocked /\ q.rows = <<>> /\ q.inRow = p.inRow
        /\ q.row = p.row /\ q.cell = p.cell
        /\ WordsOf(q.out) = WordsOf(p.out) + RowsSum(p.rows)
      BY <2>1, EmitIs
  <2> HIDE DEF q
  <2>3. ASSUME Agree(p, seen), seen.level = 2, level = 1  PROVE Agree(q, next)
    <3>1. /\ p.blocked = seen.blocked /\ seen.tokens = Total(p, 2) /\ ~p.cell.open
        BY <2>3 DEF Agree
    <3>2. RowsSum(<<>>) = 0  BY RowsSumGrow
    <3>3. Total(q, 1) = Total(p, 2)  BY <2>2, <3>2, ParserParts DEF Total
    <3> QED BY <1>3, <2>2, <2>3, <3>1, <3>3 DEF Agree
  <2> QED BY <1>2, <1>3, <1>5, <1>7, <2>2, <2>3 DEF Kept
<1>8. CASE tag = "tr"
  <2> DEFINE rows == IF p.inRow /\ SumOf(p.row) > 0 THEN Append(p.rows, p.row) ELSE p.rows
  <2>1. q = [p EXCEPT !.inRow = FALSE, !.rows = rows]
      BY <1>1, <1>8 DEF EndTag
  <2>2. /\ p.rows \in Seq(TextRows) /\ p.row \in Seq(Nat) /\ SumOf(p.row) \in Nat
        /\ RowsSum(p.rows) \in Nat
      BY ParserParts
  <2>3. rows \in Seq(TextRows) /\ (p.inRow => RowsSum(rows) = RowsSum(p.rows) + SumOf(p.row))
    <3>1. CASE SumOf(p.row) > 0
      <4>1. p.row \in TextRows  BY <2>2, <3>1 DEF TextRows
      <4>2. Append(p.rows, p.row) \in Seq(TextRows)  BY <2>2, <4>1
      <4> QED BY <2>2, <3>1, <4>1, <4>2, RowsSumGrow
    <3>2. CASE ~(SumOf(p.row) > 0)  BY <2>2, <3>2
    <3> QED BY <3>1, <3>2
  <2> HIDE DEF rows
  <2>4. /\ q \in Parsers /\ q.out = p.out /\ q.blocked = p.blocked /\ q.rows = rows
        /\ q.row = p.row /\ q.cell = p.cell
      BY <2>1, <2>3 DEF Parsers
  <2> HIDE DEF q
  <2>5. ASSUME Agree(p, seen), seen.level = 3, level = 2  PROVE Agree(q, next)
    <3>1. /\ p.blocked = seen.blocked /\ seen.tokens = Total(p, 3) /\ ~p.cell.open /\ p.inRow
        BY <2>5 DEF Agree
    <3>2. Total(q, 2) = Total(p, 3)
        BY <2>3, <2>4, <3>1, ParserParts DEF Total
    <3> QED BY <1>3, <2>4, <2>5, <3>1, <3>2 DEF Agree
  <2> QED BY <1>2, <1>3, <1>5, <1>8, <2>4, <2>5 DEF Kept
<1>9. CASE tag = "td"
  <2> DEFINE row == IF p.inRow /\ p.cell.open THEN Append(p.row, p.cell.tokens) ELSE p.row
  <2>1. q = [p EXCEPT !.cell = None, !.row = row]  BY <1>1, <1>9 DEF EndTag
  <2>2. row \in Seq(Nat) /\ (p.inRow /\ p.cell.open => SumOf(row) = SumOf(p.row) + p.cell.tokens)
    <3>1. p.row \in Seq(Nat) /\ p.cell.tokens \in Nat  BY ParserParts
    <3>2. Append(p.row, p.cell.tokens) \in Seq(Nat)  BY <3>1
    <3> QED BY <3>1, <3>2, SumGrow
  <2> HIDE DEF row
  <2>a. None \in [open : BOOLEAN, tokens : Nat] /\ None.open = FALSE
      BY DEF None
  <2>b. /\ q \in Parsers /\ q.out = p.out /\ q.blocked = p.blocked /\ q.rows = p.rows
        /\ q.inRow = p.inRow /\ q.row = row /\ q.cell = None
      BY <2>1, <2>2, <2>a DEF Parsers
  <2>3. /\ q \in Parsers /\ q.out = p.out /\ q.blocked = p.blocked /\ q.rows = p.rows
        /\ q.inRow = p.inRow /\ q.row = row /\ q.cell.open = FALSE
      BY <2>a, <2>b
  <2> HIDE DEF q
  <2>4. ASSUME Agree(p, seen), seen.level = 4, level = 3  PROVE Agree(q, next)
    <3>1. /\ p.blocked = seen.blocked /\ seen.tokens = Total(p, 4) /\ p.cell.open /\ p.inRow
        BY <2>4 DEF Agree
    <3>2. Total(q, 3) = Total(p, 4)
        BY <2>2, <2>3, <3>1, ParserParts DEF Total
    <3> QED BY <1>3, <2>3, <2>4, <3>1, <3>2 DEF Agree
  <2> QED BY <1>2, <1>3, <1>5, <1>9, <2>3, <2>4 DEF Kept
<1> QED BY <1>6, <1>7, <1>8, <1>9 DEF Tagged

(* Every event keeps parser and page in agreement. *)
LEMMA EventKeeps ==
    ASSUME NEW p \in Parsers, NEW seen \in Pages, NEW e \in Events
    PROVE  Kept(p, seen, Handle(p, e), Read(seen, e))
<1>1. CASE e \in [type : {"data"}, tokens : Nat \ {0}]  BY <1>1, DataKeeps
<1>2. CASE e \in [type : {"open", "close"}, tag : Tagged]
  <2> DEFINE type == e.type
             tag == e.tag
  <2>1. e = [type |-> type, tag |-> tag] /\ type \in {"open", "close"} /\ tag \in Tagged
      BY <1>2
  <2>2. CASE tag = "nav"
    <3>1. e \in [type : {"open", "close"}, tag : {"nav"}]  BY <2>1, <2>2
    <3> QED BY <3>1, NavKeeps
  <2>3. CASE tag # "nav" /\ p.blocked > 0
    <3> HIDE DEF type, tag
    <3>1. tag \in Tagged \ {"nav"}  BY <2>1, <2>3
    <3> QED BY <2>1, <2>3, <3>1, BlockedKeeps
  <2>4. CASE tag # "nav" /\ p.blocked = 0
    <3> DEFINE next == [seen EXCEPT !.level = Nested(seen.level, e)]
    <3>0. tag \in Tagged \ {"nav"} /\ p.blocked = 0  BY <2>1, <2>4
    <3>1. Kept(p, seen, Handle(p, e), next)
      <4> HIDE DEF type, tag
      <4>1. CASE type = "open"  BY <2>1, <3>0, <4>1, OpenKeeps
      <4>2. CASE type = "close"  BY <2>1, <3>0, <4>2, CloseKeeps
      <4> QED BY <2>1, <4>1, <4>2
    <3>2. Read(seen, e) = IF seen.blocked > 0 THEN seen ELSE next
        BY <2>1, <2>4 DEF Read
    <3>3. seen.blocked \in Nat  BY DEF Pages
    <3>4. CASE seen.blocked = 0
      <4>1. Read(seen, e) = next  BY <3>2, <3>4
      <4> QED BY <3>1, <4>1
    <3>5. CASE seen.blocked > 0
      <4>1. Read(seen, e) = seen  BY <3>2, <3>5
      <4>2. Agree(p, seen) => seen.level = 0  BY <3>0, <3>5 DEF Agree
      <4>3. seen.level = 0 => Agree(Handle(p, e), seen)  BY DEF Agree
      <4> QED BY <3>1, <4>1, <4>2, <4>3 DEF Kept
    <3> QED BY <3>3, <3>4, <3>5
  <2>5. p.blocked \in Nat  BY DEF Parsers
  <2> QED BY <2>2, <2>3, <2>4, <2>5
<1> QED BY <1>1, <1>2 DEF Events, Tagged

(* The parser and the page after a list of events. *)
Parsing(events) == FoldLeft(Handle, ParserStart, events)
PageStart == [blocked |-> 0, tokens |-> 0, level |-> 1]

(* Parser and page agree at first. *)
LEMMA Starts == ParserStart \in Parsers /\ PageStart \in Pages /\ Agree(ParserStart, PageStart)
<1>1. <<>> \in Seq(HtmlLines) /\ <<>> \in Seq(TextRows) /\ <<>> \in Seq(Nat)
    OBVIOUS
<1>2. ParserStart \in Parsers  BY <1>1 DEF ParserStart, Parsers, None
<1>3. PageStart \in Pages  BY DEF PageStart, Pages
<1>4. /\ ParserStart.out = <<>> /\ ParserStart.rows = <<>> /\ ParserStart.blocked = 0
      /\ ParserStart.cell.open = FALSE
    BY DEF ParserStart, None
<1>5. PageStart.level = 1 /\ PageStart.tokens = 0 /\ PageStart.blocked = 0
    BY DEF PageStart
<1>6. Total(ParserStart, 1) = 0  BY <1>4, WordsGrow, RowsSumGrow DEF Total
<1> QED BY <1>2, <1>3, <1>4, <1>5, <1>6 DEF Agree

(* The parser after one more event. *)
LEMMA ParsingGrow ==
    /\ Parsing(<<>>) = ParserStart
    /\ \A s \in Seq(Events) : Parsing(s) \in Parsers
    /\ \A s \in Seq(Events), event \in Events : Parsing(Append(s, event)) = Handle(Parsing(s), event)
<1> DEFINE
      X == Events
      B == Parsers
      base == ParserStart
      Op(a, event) == Handle(a, event)
      next == [p \in B \X X |-> Op(p[1], p[2])]
      F(list, f) == f = [places \in SUBSET DOMAIN list |->
                            IF places = {} THEN base
                            ELSE Op(f[places \ {Max(places)}], list[Max(places)])]
      g(list) == CHOOSE f : F(list, f)
      R == Results(X, B, base, next)
<1>1. \A list : Parsing(list) = g(list)[DOMAIN list]
    BY DEF Parsing, FoldLeft, MapThenFoldSet
<1>2. base \in B  BY Starts
<1>3. \A a \in B, y \in X : Op(a, y) \in B  BY EventKeeps, Starts DEF Kept
<1>4. \A s, y : Op(Parsing(s), y) = Handle(Parsing(s), y)  OBVIOUS
<1> HIDE DEF B, Op, base
<1>5. \A a \in B, y \in X : next[<<a, y>>] = Op(a, y) /\ Op(a, y) \in B
    BY <1>3
<1> HIDE DEF next
<1>6. Closed(B, X, next)  BY <1>5 DEF Closed
<1>7. ASSUME NEW list \in Seq(X)  PROVE g(list)[DOMAIN list] = R[list]
  <2>1. ASSUME NEW f, UnfoldingIn(list, X, B, base, next, f)
        PROVE  Unfolded(list, X, B, base, next, g(list))
    <3>1. F(list, f)  BY <1>5, <2>1 DEF UnfoldingIn, Unfolding
    <3> HIDE DEF F
    <3>2. F(list, g(list))  BY <3>1
    <3> HIDE DEF g
    <3> QED BY <1>5, <3>2 DEF Unfolded, F
  <2> HIDE DEF F, g, X
  <2> QED BY <1>2, <1>6, <2>1, FoldIs
<1> HIDE DEF F, g
<1>8. \A list \in Seq(X) : Parsing(list) = R[list]  BY <1>1, <1>7
<1>9. <<>> \in Seq(X) /\ \A s \in Seq(X), y \in X : Append(s, y) \in Seq(X)
    OBVIOUS
<1> HIDE DEF X, R
<1>10. Growing(X, B, base, next, R)  BY <1>2, <1>6, ResultsGrow DEF R
<1>11. \A s \in Seq(X) : R[s] \in B  BY <1>10 DEF Growing
<1>12. \A s \in Seq(X), y \in X : R[Append(s, y)] = next[<<R[s], y>>]
    BY <1>10 DEF Growing
<1>13. R[<<>>] = base  BY <1>10 DEF Growing
<1>14. \A s \in Seq(X), y \in X : Parsing(Append(s, y)) = Op(Parsing(s), y)
  <2> TAKE s \in Seq(X), y \in X
  <2>1. Append(s, y) \in Seq(X)  BY <1>9
  <2>2. Parsing(Append(s, y)) = R[Append(s, y)] /\ Parsing(s) = R[s]
      BY <1>8, <2>1
  <2>3. R[Append(s, y)] = next[<<R[s], y>>] /\ R[s] \in B  BY <1>11, <1>12
  <2> QED BY <1>5, <2>2, <2>3
<1>15. \A s \in Seq(X) : Parsing(s) \in B  BY <1>8, <1>11
<1>16. Parsing(<<>>) = base  BY <1>8, <1>9, <1>13
<1>17. \A s \in Seq(X), event \in X : Parsing(Append(s, event)) = Handle(Parsing(s), event)
    BY <1>4, <1>14
<1>18. /\ Parsing(<<>>) = base
       /\ \A s \in Seq(X) : Parsing(s) \in B
       /\ \A s \in Seq(X), event \in X : Parsing(Append(s, event)) = Handle(Parsing(s), event)
    BY <1>15, <1>16, <1>17
<1> QED BY <1>18, Zenon DEF B, base, X

(* The page after one more event. *)
LEMMA ReadingGrow ==
    /\ Reading(<<>>) = PageStart
    /\ \A s \in Seq(Events) : Reading(s) \in Pages
    /\ \A s \in Seq(Events), event \in Events : Reading(Append(s, event)) = Read(Reading(s), event)
<1> DEFINE
      X == Events
      B == Pages
      base == PageStart
      Op(a, event) == Read(a, event)
      next == [p \in B \X X |-> Op(p[1], p[2])]
      F(list, f) == f = [places \in SUBSET DOMAIN list |->
                            IF places = {} THEN base
                            ELSE Op(f[places \ {Max(places)}], list[Max(places)])]
      g(list) == CHOOSE f : F(list, f)
      R == Results(X, B, base, next)
<1>1. \A list : Reading(list) = g(list)[DOMAIN list]
    BY DEF Reading, PageStart, FoldLeft, MapThenFoldSet
<1>2. base \in B  BY Starts
<1>3. \A a \in B, y \in X : Op(a, y) \in B  BY EventKeeps, Starts DEF Kept
<1>4. \A s, y : Op(Reading(s), y) = Read(Reading(s), y)  OBVIOUS
<1> HIDE DEF B, Op, base
<1>5. \A a \in B, y \in X : next[<<a, y>>] = Op(a, y) /\ Op(a, y) \in B
    BY <1>3
<1> HIDE DEF next
<1>6. Closed(B, X, next)  BY <1>5 DEF Closed
<1>7. ASSUME NEW list \in Seq(X)  PROVE g(list)[DOMAIN list] = R[list]
  <2>1. ASSUME NEW f, UnfoldingIn(list, X, B, base, next, f)
        PROVE  Unfolded(list, X, B, base, next, g(list))
    <3>1. F(list, f)  BY <1>5, <2>1 DEF UnfoldingIn, Unfolding
    <3> HIDE DEF F
    <3>2. F(list, g(list))  BY <3>1
    <3> HIDE DEF g
    <3> QED BY <1>5, <3>2 DEF Unfolded, F
  <2> HIDE DEF F, g, X
  <2> QED BY <1>2, <1>6, <2>1, FoldIs
<1> HIDE DEF F, g
<1>8. \A list \in Seq(X) : Reading(list) = R[list]  BY <1>1, <1>7
<1>9. <<>> \in Seq(X) /\ \A s \in Seq(X), y \in X : Append(s, y) \in Seq(X)
    OBVIOUS
<1> HIDE DEF X, R
<1>10. Growing(X, B, base, next, R)  BY <1>2, <1>6, ResultsGrow DEF R
<1>11. \A s \in Seq(X) : R[s] \in B  BY <1>10 DEF Growing
<1>12. \A s \in Seq(X), y \in X : R[Append(s, y)] = next[<<R[s], y>>]
    BY <1>10 DEF Growing
<1>13. R[<<>>] = base  BY <1>10 DEF Growing
<1>14. \A s \in Seq(X), y \in X : Reading(Append(s, y)) = Op(Reading(s), y)
  <2> TAKE s \in Seq(X), y \in X
  <2>1. Append(s, y) \in Seq(X)  BY <1>9
  <2>2. Reading(Append(s, y)) = R[Append(s, y)] /\ Reading(s) = R[s]
      BY <1>8, <2>1
  <2>3. R[Append(s, y)] = next[<<R[s], y>>] /\ R[s] \in B  BY <1>11, <1>12
  <2> QED BY <1>5, <2>2, <2>3
<1>15. \A s \in Seq(X) : Reading(s) \in B  BY <1>8, <1>11
<1>16. Reading(<<>>) = base  BY <1>8, <1>9, <1>13
<1>17. \A s \in Seq(X), event \in X : Reading(Append(s, event)) = Read(Reading(s), event)
    BY <1>4, <1>14
<1>18. /\ Reading(<<>>) = base
       /\ \A s \in Seq(X) : Reading(s) \in B
       /\ \A s \in Seq(X), event \in X : Reading(Append(s, event)) = Read(Reading(s), event)
    BY <1>15, <1>16, <1>17
<1> QED BY <1>18, Zenon DEF B, base, X

(* The text of a page whose tables are closed has the words of the page. *)
LEMMA PageRead ==
    ASSUME NEW events \in Seq(Events)
    PROVE  /\ Markdown(events) \in Texts
           /\ Reading(events).level = 1 => WordsOf(Markdown(events)) = Reading(events).tokens
<1> DEFINE T == {s \in Seq(Events) : Agree(Parsing(s), Reading(s))}
<1>1. <<>> \in T  BY ParsingGrow, ReadingGrow, Starts
<1>2. ASSUME NEW s \in Seq(Events), NEW e \in Events, s \in T  PROVE Append(s, e) \in T
  <2>1. Parsing(s) \in Parsers /\ Parsing(Append(s, e)) = Handle(Parsing(s), e)
      BY ParsingGrow
  <2>2. Reading(s) \in Pages /\ Reading(Append(s, e)) = Read(Reading(s), e)
      BY ReadingGrow
  <2>3. Agree(Parsing(s), Reading(s))  BY <1>2
  <2>4. Kept(Parsing(s), Reading(s), Handle(Parsing(s), e), Read(Reading(s), e))
      BY <2>1, <2>2, EventKeeps
  <2>5. Append(s, e) \in Seq(Events)  OBVIOUS
  <2> QED BY <2>1, <2>2, <2>3, <2>4, <2>5 DEF Kept
<1>3. Seq(Events) \subseteq T
  <2> HIDE DEF T
  <2> QED BY <1>1, <1>2, SequenceInduction
<1> DEFINE p == Parsing(events)
           seen == Reading(events)
<1>4. p \in Parsers /\ seen \in Pages /\ Agree(p, seen)
    BY <1>3, ParsingGrow, ReadingGrow
<1>5. Markdown(events) = p.out  BY DEF Markdown, Parsing
<1> HIDE DEF p, seen
<1>6. p.out \in Texts
  <2>1. p.out \in Seq(HtmlLines)  BY <1>4 DEF Parsers
  <2> QED BY <2>1, HtmlLinesAre
<1>7. ASSUME seen.level = 1  PROVE WordsOf(p.out) = seen.tokens
  <2>1. seen.tokens = Total(p, 1) /\ p.rows = <<>>  BY <1>4, <1>7 DEF Agree
  <2>2. RowsSum(<<>>) = 0 /\ WordsOf(p.out) \in Nat
      BY <1>4, RowsSumGrow, ParserParts
  <2> QED BY <2>1, <2>2 DEF Total
<1> QED BY <1>5, <1>6, <1>7 DEF seen

(* So has the root it is loaded into. *)
LEMMA HtmlLoaded ==
    ASSUME NEW events \in Seq(Events)
    PROVE  LET loaded == LoadHtml(events) IN
           /\ loaded \in Seq(LoadedRoots) /\ Len(loaded) <= 1
           /\ Reading(events).level = 1 =>
                  WordsOf(IF loaded = <<>> THEN <<>> ELSE loaded[1].text) = Reading(events).tokens
<1> DEFINE text == Strip(Markdown(events))
           root == LoadedRoot("section", 1, 1, 1, text, 0)
           loaded == LoadHtml(events)
<1>1. text \in Texts /\ (Reading(events).level = 1 => WordsOf(text) = Reading(events).tokens)
    BY PageRead, StripKeeps
<1>2. loaded = IF text = <<>> THEN <<>> ELSE <<root>>  BY DEF LoadHtml
<1> HIDE DEF text
<1>3. root.text = text /\ <<root>> \in Seq(LoadedRoots)
  <2>1. "section" \in RootKinds /\ 1 \in Nat /\ 0 \in Nat  BY DEF RootKinds
  <2> QED BY <1>1, <2>1, RootMade
<1> HIDE DEF root, loaded
<1>4. CASE text = <<>>
  <2>1. loaded = <<>>  BY <1>2, <1>4
  <2> QED BY <1>1, <1>4, <2>1 DEF loaded
<1>5. CASE text # <<>>
  <2>1. loaded = <<root>>  BY <1>2, <1>5
  <2>2. loaded # <<>> /\ loaded[1] = root /\ Len(loaded) = 1  BY <2>1
  <2> QED BY <1>1, <1>3, <2>1, <2>2 DEF loaded
<1> QED BY <1>4, <1>5

-----------------------------------------------------------------------------
(* Spreadsheets. *)

(* The rows of a sheet with cells, under their numbers. *)
DataRows == [number : Nat \ {0}, tokens : Nat \ {0}]

(* The rows with text among the first n, under their numbers and in order. *)
Trimmed(rows, n, kept) ==
    /\ kept \in Seq(DataRows)
    /\ \A k \in 1 .. Len(kept) : kept[k].number \in 1 .. n /\ kept[k].tokens = rows[kept[k].number]
    /\ \A k, l \in 1 .. Len(kept) : k < l => kept[k].number < kept[l].number
    /\ \A i \in 1 .. n : rows[i] > 0 => \E k \in 1 .. Len(kept) : kept[k].number = i

(* One more row of the sheet. *)
LEMMA OneTrimmed ==
    ASSUME NEW rows \in Seq(Nat), NEW n \in 0 .. Len(rows) - 1, NEW kept, Trimmed(rows, n, kept),
           NEW x, x = [number |-> n + 1, tokens |-> rows[n + 1]]
    PROVE  Trimmed(rows, n + 1, IF x.tokens > 0 THEN Append(kept, x) ELSE kept)
<1>1. x.number = n + 1 /\ x.tokens = rows[n + 1] /\ rows[n + 1] \in Nat /\ n \in Nat
    OBVIOUS
<1>2. /\ kept \in Seq(DataRows)
      /\ \A k \in 1 .. Len(kept) : kept[k].number \in 1 .. n /\ kept[k].tokens = rows[kept[k].number]
      /\ \A k, l \in 1 .. Len(kept) : k < l => kept[k].number < kept[l].number
      /\ \A i \in 1 .. n : rows[i] > 0 => \E k \in 1 .. Len(kept) : kept[k].number = i
    BY DEF Trimmed
<1>3. CASE x.tokens > 0
  <2> DEFINE more == Append(kept, x)
             m == Len(kept)
  <2>1. x \in DataRows  BY <1>1, <1>3 DEF DataRows
  <2>2. /\ more \in Seq(DataRows) /\ Len(more) = m + 1 /\ m \in Nat
        /\ more[m + 1] = x /\ \A k \in 1 .. m : more[k] = kept[k]
      BY <1>2, <2>1
  <2> HIDE DEF more
  <2>3. ASSUME NEW k \in 1 .. Len(more)
        PROVE  more[k].number \in 1 .. n + 1 /\ more[k].tokens = rows[more[k].number]
    <3>1. CASE k = m + 1  BY <1>1, <2>2, <3>1
    <3>2. CASE k # m + 1
      <4>1. k \in 1 .. m  BY <2>2, <3>2
      <4>2. kept[k].number \in 1 .. n /\ kept[k].tokens = rows[kept[k].number] /\ more[k] = kept[k]
          BY <1>2, <2>2, <4>1
      <4>3. kept[k].number \in 1 .. n + 1  BY <1>1, <4>2
      <4> QED BY <4>2, <4>3
    <3> QED BY <3>1, <3>2
  <2>4. ASSUME NEW k \in 1 .. Len(more), NEW l \in 1 .. Len(more), k < l
        PROVE  more[k].number < more[l].number
    <3>1. k \in 1 .. m  BY <2>2, <2>4
    <3>2. CASE l = m + 1
      <4>1. more[k] = kept[k] /\ kept[k].number \in 1 .. n
          BY <1>2, <2>2, <3>1
      <4>2. more[l].number = n + 1  BY <1>1, <2>2, <3>2
      <4> QED BY <1>1, <4>1, <4>2
    <3>3. CASE l # m + 1
      <4>1. l \in 1 .. m  BY <2>2, <3>3
      <4> QED BY <1>2, <2>2, <2>4, <3>1, <4>1
    <3> QED BY <3>2, <3>3
  <2>5. ASSUME NEW i \in 1 .. n + 1, rows[i] > 0  PROVE \E k \in 1 .. Len(more) : more[k].number = i
    <3>1. CASE i = n + 1
      <4>1. m + 1 \in 1 .. Len(more)  BY <2>2
      <4> QED BY <1>1, <2>2, <3>1, <4>1
    <3>2. CASE i # n + 1
      <4>1. i \in 1 .. n  BY <1>1, <3>2
      <4>2. PICK k \in 1 .. m : kept[k].number = i  BY <1>2, <2>5, <4>1
      <4>3. k \in 1 .. Len(more) /\ more[k].number = i  BY <2>2, <4>2
      <4> QED BY <4>3
    <3> QED BY <3>1, <3>2
  <2>6. Trimmed(rows, n + 1, more)  BY <2>2, <2>3, <2>4, <2>5 DEF Trimmed
  <2> QED BY <1>3, <2>6 DEF more
<1>4. CASE ~(x.tokens > 0)
  <2>1. ASSUME NEW i \in 1 .. n + 1, rows[i] > 0  PROVE i \in 1 .. n
      BY <1>1, <1>4, <2>1
  <2>2. \A j \in 1 .. n : j \in 1 .. n + 1  BY <1>1
  <2>3. Trimmed(rows, n + 1, kept)  BY <1>2, <2>1, <2>2 DEF Trimmed
  <2> QED BY <1>4, <2>3
<1> QED BY <1>3, <1>4

(* Trimming keeps the rows with cells, each under its number. *)
LEMMA TrimSheetIs ==
    ASSUME NEW rows \in Seq(Nat)
    PROVE  Trimmed(rows, Len(rows), TrimSheet(rows))
<1> DEFINE numbered == [i \in DOMAIN rows |-> [number |-> i, tokens |-> rows[i]]]
           S == {row \in Range(numbered) : row.tokens > 0}
           m == Len(rows)
           X == [number : Nat, tokens : Nat]
<1>1. m \in Nat /\ DOMAIN rows = 1 .. m /\ \A i \in 1 .. m : rows[i] \in Nat
    BY ElementOfSeq
<1>2. TrimSheet(rows) = Those(numbered, S)  BY DEF TrimSheet
<1>3. \A i \in 1 .. m : numbered[i] = [number |-> i, tokens |-> rows[i]]
    BY <1>1
<1>4. numbered \in Seq(X) /\ Len(numbered) = m
  <2>1. \A i \in 1 .. m : [number |-> i, tokens |-> rows[i]] \in X  BY <1>1
  <2>2. numbered \in [1 .. m -> X]  BY <1>1, <2>1
  <2> HIDE DEF X, numbered
  <2> QED BY <1>1, <2>2
<1> HIDE DEF numbered, X
<1>5. numbered \in Seq(Range(numbered))  BY <1>4, SeqOfRange
<1>6. \A i \in 1 .. m : numbered[i] \in Range(numbered)
    BY <1>4, <1>5, ElementOfSeq
<1>7. \A i \in 1 .. m : numbered[i] \in S <=> numbered[i].tokens > 0  BY <1>6
<1> HIDE DEF S
<1>8. PICK keep : Keeping(numbered, S, keep) /\ Those(numbered, S) = keep[Len(numbered)]
    BY <1>5, ThoseTaken
<1> DEFINE T == {n \in Nat : n <= m => Trimmed(rows, n, keep[n])}
<1>9. 0 \in T
  <2>1. keep[0] = <<>>  BY <1>8 DEF Keeping
  <2>2. <<>> \in Seq(DataRows) /\ Len(<<>>) = 0  OBVIOUS
  <2>3. Trimmed(rows, 0, <<>>)  BY <2>2 DEF Trimmed
  <2> QED BY <2>1, <2>3
<1>10. ASSUME NEW n \in Nat, n \in T  PROVE n + 1 \in T
  <2> SUFFICES ASSUME n + 1 <= m  PROVE Trimmed(rows, n + 1, keep[n + 1])
      OBVIOUS
  <2> DEFINE x == numbered[n + 1]
  <2>1. n \in 0 .. m - 1 /\ n + 1 \in 1 .. m /\ Trimmed(rows, n, keep[n])
      BY <1>1, <1>10
  <2>2. x = [number |-> n + 1, tokens |-> rows[n + 1]] /\ (x \in S <=> x.tokens > 0)
      BY <1>3, <1>7, <2>1
  <2>3. keep[n + 1] = IF x \in S THEN Append(keep[n], x) ELSE keep[n]
      BY <1>4, <1>8, <2>1 DEF Keeping
  <2> HIDE DEF x, T, m
  <2>4. Trimmed(rows, n + 1, IF x.tokens > 0 THEN Append(keep[n], x) ELSE keep[n])
      BY <2>1, <2>2, OneTrimmed DEF m
  <2> QED BY <2>2, <2>3, <2>4
<1>11. Nat \subseteq T
  <2> HIDE DEF T
  <2> QED BY <1>9, <1>10, NumberInduction
<1> QED BY <1>1, <1>2, <1>4, <1>8, <1>11

-----------------------------------------------------------------------------
(* The blocks of the data rows: from which to which each is. *)
BlockFrom(b) == (b - 1) * RowsPerRoot + 1

(* The last row of a block, and how many blocks there are. *)
BlockTo(b, count) == IF b * RowsPerRoot <= count THEN b * RowsPerRoot ELSE count
BlockCount(count) == (count + RowsPerRoot - 1) \div RowsPerRoot

(* The blocks follow one another, and every row is in one. *)
LEMMA BlockRanges ==
    ASSUME NEW count \in Nat \ {0}
    PROVE  /\ BlockCount(count) \in Nat
           /\ \A b \in 1 .. BlockCount(count) :
                  /\ BlockFrom(b) \in 1 .. count /\ BlockTo(b, count) \in 1 .. count
                  /\ BlockFrom(b) <= BlockTo(b, count)
           /\ \A a, b \in 1 .. BlockCount(count) : a < b => BlockTo(a, count) < BlockFrom(b)
           /\ \A d \in 1 .. count : \E b \in 1 .. BlockCount(count) :
                  BlockFrom(b) <= d /\ d <= BlockTo(b, count)
<1> DEFINE R == RowsPerRoot
           parts == BlockCount(count)
<1>1. R \in Nat \ {0}  BY RowsPerRootAssumption
<1>2. /\ parts \in Nat \ {0}
      /\ parts * R >= count
      /\ \A i \in 0 .. parts : i * R \in Nat /\ (i + 1) * R = i * R + R
      /\ \A i \in 0 .. parts - 1 : i * R < count
    BY <1>1, Cuts DEF BlockCount
<1> HIDE DEF parts
<1>3. ASSUME NEW b \in 1 .. parts
      PROVE  /\ BlockFrom(b) \in 1 .. count /\ BlockTo(b, count) \in 1 .. count
             /\ BlockFrom(b) <= BlockTo(b, count)
  <2>1. b - 1 \in 0 .. parts /\ b - 1 \in 0 .. parts - 1 /\ b \in 0 .. parts /\ (b - 1) + 1 = b
      BY <1>2
  <2>2. (b - 1) * R \in Nat /\ b * R = (b - 1) * R + R /\ (b - 1) * R < count /\ b * R \in Nat
      BY <1>2, <2>1
  <2> DEFINE x == (b - 1) * R
             y == b * R
  <2>3. BlockFrom(b) = x + 1 /\ BlockTo(b, count) = IF y <= count THEN y ELSE count
      BY DEF BlockFrom, BlockTo
  <2>4. x \in Nat /\ y \in Nat /\ y = x + R /\ x < count  BY <2>2
  <2> HIDE DEF x, y
  <2> QED BY <1>1, <2>3, <2>4
<1>4. ASSUME NEW a \in 1 .. parts, NEW b \in 1 .. parts, a < b  PROVE BlockTo(a, count) < BlockFrom(b)
  <2>1. a \in Int /\ b - 1 \in Int /\ a <= b - 1  BY <1>2, <1>4
  <2>2. a * R \in Int /\ (b - 1) * R \in Int /\ a * R <= (b - 1) * R
      BY <1>1, <2>1, Products
  <2> DEFINE x == a * R
             y == (b - 1) * R
  <2>3. BlockFrom(b) = y + 1 /\ BlockTo(a, count) = IF x <= count THEN x ELSE count
      BY DEF BlockFrom, BlockTo
  <2>4. x \in Int /\ y \in Int /\ x <= y  BY <2>2
  <2> HIDE DEF x, y
  <2> QED BY <2>3, <2>4
<1>5. ASSUME NEW d \in 1 .. count
      PROVE  \E b \in 1 .. parts : BlockFrom(b) <= d /\ d <= BlockTo(b, count)
  <2> DEFINE c == d - 1
             q == c \div R
  <2>1. c \in Int /\ 0 <= c /\ c < count /\ c + 1 = d  OBVIOUS
  <2> HIDE DEF c
  <2>2. q \in Int /\ R * q <= c /\ c < R * q + R  BY <1>1, <2>1, Dividing
  <2> HIDE DEF q
  <2>3. R * q = q * R /\ q * R \in Int  BY <1>1, <2>2
  <2>4. 0 <= q
    <3> SUFFICES ASSUME q + 1 <= 0  PROVE FALSE  BY <2>2
    <3>1. (q + 1) * R <= 0 * R  BY <1>1, <2>2, Products
    <3>2. (q + 1) * R = q * R + R /\ 0 * R = 0  BY <1>1, <2>2
    <3> QED BY <1>1, <2>1, <2>2, <2>3, <3>1, <3>2
  <2>5. q < parts
    <3> SUFFICES ASSUME parts <= q  PROVE FALSE  BY <1>2, <2>2
    <3>1. parts * R <= q * R /\ parts * R \in Int
        BY <1>1, <1>2, <2>2, Products
    <3> QED BY <1>2, <2>1, <2>2, <2>3, <3>1
  <2>6. q \in 0 .. parts /\ q + 1 \in 1 .. parts /\ (q + 1) - 1 = q
      BY <1>2, <2>2, <2>4, <2>5
  <2>7. (q + 1) * R = q * R + R  BY <1>2, <2>6
  <2> DEFINE x == q * R
             b == q + 1
  <2>8. BlockFrom(b) = x + 1 /\ BlockTo(b, count) = IF x + R <= count THEN x + R ELSE count
      BY <2>6, <2>7 DEF BlockFrom, BlockTo
  <2>9. x \in Int /\ x <= c /\ c < x + R  BY <2>2, <2>3
  <2> HIDE DEF x, b
  <2>10. BlockFrom(b) <= d /\ d <= BlockTo(b, count)
      BY <1>1, <2>1, <2>8, <2>9
  <2> QED BY <2>6, <2>10 DEF b
<1> QED BY <1>2, <1>3, <1>4, <1>5 DEF parts

-----------------------------------------------------------------------------
(* The roots of a sheet: where a row is. *)

(* The range of a root holds row i; the rows with cells in a range. *)
Holds(root, part, i) == root.part = part /\ root.from <= i /\ i <= root.to
FilledFrom(rows, from, to) == {i \in {j \in DOMAIN rows : rows[j] > 0} : from <= i /\ i <= to}

(* One root holds row i of the sheet, and it has as many lines as that takes. *)
Landed(list, part, rows, i, r) ==
    /\ r \in 1 .. Len(list) /\ Holds(list[r], part, i)
    /\ \A q \in 1 .. Len(list) : Holds(list[q], part, i) => q = r
    /\ Len(list[r].text) = 2 + Cardinality(FilledFrom(rows, list[r].from, list[r].to))

(* Every data row of the sheet has its root. *)
SheetLanded(list, part, rows) ==
    \A i \in DOMAIN rows :
        rows[i] > 0 /\ (\E j \in DOMAIN rows : rows[j] > 0 /\ j < i) =>
            \E r : Landed(list, part, rows, i, r)

(* As many rows are filled from one trimmed row to another as there are trimmed rows. *)
LEMMA FilledCounted ==
    ASSUME NEW rows \in Seq(Nat), NEW sheet, Trimmed(rows, Len(rows), sheet),
           NEW a \in 1 .. Len(sheet), NEW b \in 1 .. Len(sheet), a <= b
    PROVE  Cardinality(FilledFrom(rows, sheet[a].number, sheet[b].number)) = b - a + 1
<1> DEFINE m == Len(sheet)
           S == a .. b
           T == FilledFrom(rows, sheet[a].number, sheet[b].number)
           f == [k \in S |-> sheet[k].number]
<1>1. /\ sheet \in Seq(DataRows) /\ m \in Nat
      /\ \A k \in 1 .. m : sheet[k].number \in 1 .. Len(rows) /\ sheet[k].tokens = rows[sheet[k].number]
      /\ \A k, l \in 1 .. m : k < l => sheet[k].number < sheet[l].number
      /\ \A i \in 1 .. Len(rows) : rows[i] > 0 => \E k \in 1 .. m : sheet[k].number = i
    BY DEF Trimmed
<1>2. DOMAIN rows = 1 .. Len(rows) /\ Len(rows) \in Nat /\ \A i \in 1 .. Len(rows) : rows[i] \in Nat
    BY ElementOfSeq
<1>3. \A k \in 1 .. m : sheet[k].tokens \in Nat \ {0}
  <2>1. \A k \in 1 .. m : sheet[k] \in DataRows  BY <1>1, ElementOfSeq
  <2> QED BY <2>1 DEF DataRows
<1>4. S \subseteq 1 .. m  BY <1>1
<1>5. \A k, l \in 1 .. m : sheet[k].number <= sheet[l].number <=> k <= l
  <2> TAKE k, l \in 1 .. m
  <2>1. sheet[k].number \in Int /\ sheet[l].number \in Int  BY <1>1
  <2>2. CASE k = l  BY <2>1, <2>2
  <2>3. CASE k < l  BY <1>1, <2>1, <2>3
  <2>4. CASE l < k  BY <1>1, <2>1, <2>4
  <2> QED BY <2>2, <2>3, <2>4
<1>6. \A k \in S : sheet[k].number \in T
  <2> TAKE k \in S
  <2>1. k \in 1 .. m /\ a <= k /\ k <= b  BY <1>4
  <2>2. sheet[a].number <= sheet[k].number /\ sheet[k].number <= sheet[b].number
      BY <1>5, <2>1
  <2>3. sheet[k].number \in DOMAIN rows /\ rows[sheet[k].number] > 0
      BY <1>1, <1>2, <1>3, <2>1
  <2> QED BY <2>2, <2>3 DEF FilledFrom
<1>7. \A i \in T : \E k \in S : sheet[k].number = i
  <2> TAKE i \in T
  <2>1. i \in 1 .. Len(rows) /\ rows[i] > 0 /\ sheet[a].number <= i /\ i <= sheet[b].number
      BY <1>2 DEF FilledFrom
  <2>2. PICK k \in 1 .. m : sheet[k].number = i  BY <1>1, <2>1
  <2>3. a <= k /\ k <= b  BY <1>5, <2>1, <2>2
  <2>4. k \in S  BY <2>3
  <2> QED BY <2>2, <2>4
<1> HIDE DEF T
<1>8. f \in Bijection(S, T)
  <2>1. f \in [S -> T]  BY <1>6
  <2>2. \A k, l \in S : f[k] = f[l] => k = l
    <3> TAKE k, l \in S
    <3>1. k \in 1 .. m /\ l \in 1 .. m /\ k \in Int /\ l \in Int  BY <1>4
    <3>2. sheet[k].number = sheet[l].number => k <= l /\ l <= k
        BY <1>1, <1>5, <3>1
    <3> QED BY <3>1, <3>2
  <2>3. \A i \in T : \E k \in S : f[k] = i  BY <1>7
  <2> HIDE DEF f, S
  <2> QED BY <2>1, <2>2, <2>3 DEF Bijection, Injection, Surjection, IsInjective
<1>9. IsFiniteSet(S) /\ Cardinality(S) = b - a + 1  BY FS_Interval
<1> HIDE DEF S, f
<1>10. Cardinality(T) = Cardinality(S)
    BY <1>8, <1>9, FS_Bijection DEF ExistsBijection
<1> QED BY <1>9, <1>10 DEF T

(* A table has a line for its header, its rule and each row. *)
LEMMA TableIs ==
    ASSUME NEW header \in Nat \ {0}, NEW rows \in Seq(DataRows)
    PROVE  MarkdownTable(header, rows) \in Texts /\ Len(MarkdownTable(header, rows)) = 2 + Len(rows)
<1> DEFINE head == RowLine(header)
           body == [i \in DOMAIN rows |-> RowLine(rows[i].tokens)]
           top == <<head, RuleLine>>
<1>1. \A n \in Nat \ {0} : RowLine(n) \in AllLines
  <2> TAKE n \in Nat \ {0}
  <2>1. RowLine(n) = TextLine("row", n)  BY DEF RowLine, TextLine
  <2> QED BY <2>1, TextLineIs
<1>2. RuleLine \in AllLines
  <2>1. RuleLine = TextLine("rule", 1)  BY DEF RuleLine, TextLine
  <2> QED BY <2>1, TextLineIs
<1>3. Len(rows) \in Nat /\ DOMAIN rows = 1 .. Len(rows)
      /\ \A i \in 1 .. Len(rows) : rows[i].tokens \in Nat \ {0}
  <2>1. Len(rows) \in Nat /\ DOMAIN rows = 1 .. Len(rows) /\ \A i \in 1 .. Len(rows) : rows[i] \in DataRows
      BY ElementOfSeq
  <2> QED BY <2>1 DEF DataRows
<1>4. body \in Seq(AllLines) /\ Len(body) = Len(rows)
  <2>1. body \in [1 .. Len(rows) -> AllLines]  BY <1>1, <1>3
  <2> QED BY <1>3, <2>1
<1>5. top \in Seq(AllLines) /\ Len(top) = 2
  <2>1. head \in AllLines  BY <1>1
  <2> HIDE DEF head
  <2> QED BY <1>2, <2>1
<1>6. MarkdownTable(header, rows) = top \o body  BY DEF MarkdownTable
<1> HIDE DEF top, body
<1>7. top \o body \in Seq(AllLines) /\ Len(top \o body) = Len(top) + Len(body)
    BY <1>4, <1>5, ConcatProperties
<1> QED BY <1>4, <1>5, <1>6, <1>7 DEF Texts

(* What a sheet's roots are, and that its rows are in them. *)
SheetSound(list, part, rows) ==
    /\ list \in Seq(LoadedRoots)
    /\ \A r \in 1 .. Len(list) : list[r].part = part
    /\ SheetLanded(list, part, rows)

(* The roots of a sheet hold its rows, each once. *)
LEMMA SheetRootsSound ==
    ASSUME NEW part \in Nat, NEW rows \in Seq(Nat)
    PROVE  SheetSound(SheetRoots(part, rows), part, rows)
<1> DEFINE sheet == TrimSheet(rows)
           data == Tail(sheet)
           blocks == Blocks(data)
           m == Len(sheet)
           Table(block) ==
               LoadedRoot("sheet_rows", part,
                          IF block = <<>> THEN sheet[1].number ELSE Head(block).number,
                          IF block = <<>> THEN sheet[1].number ELSE Last(block).number,
                          MarkdownTable(sheet[1].tokens, block), 0)
           found == SheetRoots(part, rows)
<1>1. Trimmed(rows, Len(rows), sheet)  BY TrimSheetIs
<1>2. found = IF sheet = <<>> THEN <<>> ELSE [b \in DOMAIN blocks |-> Table(blocks[b])]
    BY DEF SheetRoots
<1> HIDE DEF sheet, found
<1>3. /\ sheet \in Seq(DataRows) /\ m \in Nat
      /\ \A k \in 1 .. m : sheet[k].number \in 1 .. Len(rows)
      /\ \A k, l \in 1 .. m : k < l => sheet[k].number < sheet[l].number
      /\ \A i \in 1 .. Len(rows) : rows[i] > 0 => \E k \in 1 .. m : sheet[k].number = i
    BY <1>1 DEF Trimmed
<1>4. DOMAIN rows = 1 .. Len(rows) /\ Len(rows) \in Nat  BY ElementOfSeq
<1>5. \A k \in 1 .. m : sheet[k].number \in Nat \ {0} /\ sheet[k].tokens \in Nat \ {0}
  <2>1. \A k \in 1 .. m : sheet[k] \in DataRows  BY <1>3, ElementOfSeq
  <2> QED BY <2>1 DEF DataRows
<1>6. ASSUME NEW i \in DOMAIN rows, rows[i] > 0, \E j \in DOMAIN rows : rows[j] > 0 /\ j < i
      PROVE  \E k \in 2 .. m : sheet[k].number = i
  <2>1. PICK j \in 1 .. Len(rows) : rows[j] > 0 /\ j < i  BY <1>4, <1>6
  <2>2. PICK k \in 1 .. m : sheet[k].number = i  BY <1>3, <1>4, <1>6
  <2>3. PICK l \in 1 .. m : sheet[l].number = j  BY <1>3, <2>1
  <2>4. k # 1
    <3> SUFFICES ASSUME k = 1  PROVE FALSE  OBVIOUS
    <3>1. l = 1 \/ 1 < l  OBVIOUS
    <3>2. sheet[k].number \in Nat /\ sheet[l].number \in Nat  BY <1>5
    <3>3. CASE l = 1  BY <2>1, <2>2, <2>3, <3>2, <3>3
    <3>4. CASE 1 < l
      <4>1. sheet[k].number < sheet[l].number  BY <1>3, <3>4
      <4> QED BY <2>1, <2>2, <2>3, <3>2, <4>1
    <3> QED BY <3>1, <3>3, <3>4
  <2>5. k \in 2 .. m  BY <1>3, <2>4
  <2> QED BY <2>2, <2>5
<1>7. CASE sheet = <<>>
  <2>1. found = <<>> /\ m = 0  BY <1>2, <1>7
  <2>2. found \in Seq(LoadedRoots) /\ Len(found) = 0  BY <2>1
  <2>3. \A i \in DOMAIN rows : ~(rows[i] > 0 /\ \E j \in DOMAIN rows : rows[j] > 0 /\ j < i)
      BY <1>6, <2>1
  <2> QED BY <2>2, <2>3 DEF SheetSound, SheetLanded, found
<1>8. CASE sheet # <<>>
  <2> DEFINE count == m - 1
             header == sheet[1].tokens
  <2>1. /\ data \in Seq(DataRows) /\ Len(data) = count /\ count \in Nat /\ m \in Nat \ {0}
        /\ \A d \in 1 .. count : data[d] = sheet[d + 1]
      BY <1>3, <1>8
  <2>2. header \in Nat \ {0} /\ sheet[1].number \in Nat  BY <1>5, <2>1
  <2>3. found = [b \in DOMAIN blocks |-> Table(blocks[b])]  BY <1>2, <1>8
  <2>4. "sheet_rows" \in RootKinds /\ 0 \in Nat  BY DEF RootKinds
  <2> HIDE DEF data, header
  <2>5. CASE count = 0
    <3>1. data = <<>> /\ m = 1
      <4>1. data \in Seq(DataRows) /\ Len(data) = count /\ m \in Nat  BY <2>1
      <4>2. Len(data) = 0 /\ m = 1
        <5> HIDE DEF m
        <5> QED BY <2>5, <4>1
      <4> QED BY <4>1, <4>2
    <3>2. blocks = <<<<>>>>  BY <3>1 DEF Blocks
    <3> DEFINE none == <<>>
               root == Table(none)
    <3>3. found = <<root>>  BY <2>3, <3>2
    <3>4. none \in Seq(DataRows) /\ none = <<>>  OBVIOUS
    <3>5. root = LoadedRoot("sheet_rows", part, sheet[1].number, sheet[1].number,
                            MarkdownTable(header, none), 0)
        BY DEF header
    <3> HIDE DEF none, root
    <3>6. MarkdownTable(header, none) \in Texts  BY <2>2, <3>4, TableIs
    <3>7. root.part = part /\ <<root>> \in Seq(LoadedRoots)
      <4> DEFINE number == sheet[1].number
                 text == MarkdownTable(header, none)
                 made == LoadedRoot("sheet_rows", part, number, number, text, 0)
      <4>1. number \in Nat /\ text \in Texts  BY <2>2, <3>6
      <4>2. root = made  BY <3>5
      <4> HIDE DEF number, text
      <4>3. made.part = part /\ <<made>> \in Seq(LoadedRoots)
          BY <2>4, <4>1, RootMade
      <4> QED BY <4>2, <4>3
    <3>8. \A i \in DOMAIN rows : ~(rows[i] > 0 /\ \E j \in DOMAIN rows : rows[j] > 0 /\ j < i)
      <4>2. 2 .. m = {}  BY <3>1
      <4> QED BY <1>6, <4>2
    <3>9. SheetLanded(found, part, rows)  BY <3>8 DEF SheetLanded
    <3>10. \A r \in 1 .. Len(<<root>>) : <<root>>[r] = root  OBVIOUS
    <3> QED BY <3>3, <3>7, <3>9, <3>10 DEF SheetSound, found
  <2>6. CASE count # 0
    <3> DEFINE parts == BlockCount(count)
               Block(b) == SubSeq(data, BlockFrom(b), BlockTo(b, count))
    <3>1. /\ parts \in Nat
          /\ \A b \in 1 .. parts :
                 /\ BlockFrom(b) \in 1 .. count /\ BlockTo(b, count) \in 1 .. count
                 /\ BlockFrom(b) <= BlockTo(b, count)
          /\ \A a, b \in 1 .. parts : a < b => BlockTo(a, count) < BlockFrom(b)
          /\ \A d \in 1 .. count : \E b \in 1 .. parts : BlockFrom(b) <= d /\ d <= BlockTo(b, count)
        BY <2>1, <2>6, BlockRanges
    <3>2. blocks = [b \in 1 .. parts |-> Block(b)]
      <4>1. data # <<>>  BY <2>1, <2>6
      <4> QED BY <2>1, <4>1 DEF Blocks, BlockFrom, BlockTo, BlockCount
    <3> HIDE DEF parts, blocks, count
    <3>3. ASSUME NEW b \in 1 .. parts
          PROVE  /\ Block(b) \in Seq(DataRows) /\ Len(Block(b)) = BlockTo(b, count) - BlockFrom(b) + 1
                 /\ Block(b) # <<>>
                 /\ Head(Block(b)) = sheet[BlockFrom(b) + 1] /\ Last(Block(b)) = sheet[BlockTo(b, count) + 1]
      <4> DEFINE lo == BlockFrom(b)
                 hi == BlockTo(b, count)
                 block == Block(b)
      <4>1. lo \in 1 .. count /\ hi \in 1 .. count /\ lo <= hi /\ count \in Nat
          BY <2>1, <3>1
      <4>2. data[lo] = sheet[lo + 1] /\ data[hi] = sheet[hi + 1]
          BY <2>1, <4>1
      <4> HIDE DEF lo, hi
      <4>3. block = SubSeq(data, lo, hi)  BY DEF lo, hi
      <4> HIDE DEF block
      <4>4. /\ block \in Seq(DataRows) /\ Len(block) = hi - lo + 1
            /\ \A i \in 1 .. hi - lo + 1 : block[i] = data[lo + i - 1]
          BY <2>1, <4>1, <4>3, SubSeqProperties
      <4>5. /\ 1 \in 1 .. hi - lo + 1 /\ hi - lo + 1 \in 1 .. hi - lo + 1 /\ lo + 1 - 1 = lo
            /\ lo + (hi - lo + 1) - 1 = hi /\ hi - lo + 1 > 0
          BY <4>1
      <4>6. block[1] = data[lo] /\ block[Len(block)] = data[hi]  BY <4>4, <4>5
      <4>7. block # <<>> /\ Head(block) = block[1] /\ Last(block) = block[Len(block)]
          BY <4>4, <4>5 DEF Last
      <4> QED BY <4>2, <4>4, <4>6, <4>7 DEF block, lo, hi
    <3>4. ASSUME NEW b \in 1 .. parts
          PROVE  /\ found[b] \in LoadedRoots /\ found[b].part = part
                 /\ found[b].from = sheet[BlockFrom(b) + 1].number
                 /\ found[b].to = sheet[BlockTo(b, count) + 1].number
                 /\ Len(found[b].text) = 2 + (BlockTo(b, count) - BlockFrom(b) + 1)
                 /\ BlockFrom(b) + 1 \in 2 .. m /\ BlockTo(b, count) + 1 \in 2 .. m
      <4> DEFINE block == Block(b)
                 from == sheet[BlockFrom(b) + 1].number
                 to == sheet[BlockTo(b, count) + 1].number
                 text == MarkdownTable(header, block)
      <4>1. found[b] = Table(block)  BY <2>3, <3>2
      <4>2. /\ block \in Seq(DataRows) /\ Len(block) = BlockTo(b, count) - BlockFrom(b) + 1
            /\ block # <<>> /\ Head(block).number = from /\ Last(block).number = to
          BY <3>3
      <4> HIDE DEF block
      <4>3. BlockFrom(b) + 1 \in 2 .. m /\ BlockTo(b, count) + 1 \in 2 .. m
          BY <2>1, <3>1 DEF count
      <4>4. from \in Nat /\ to \in Nat
        <5>1. BlockFrom(b) + 1 \in 1 .. m /\ BlockTo(b, count) + 1 \in 1 .. m
            BY <4>3
        <5> QED BY <1>5, <5>1
      <4>5. found[b] = LoadedRoot("sheet_rows", part, from, to, text, 0)
        <5>1. Table(block) = LoadedRoot("sheet_rows", part, Head(block).number, Last(block).number,
                                        MarkdownTable(sheet[1].tokens, block), 0)
            BY <4>2
        <5> QED BY <4>1, <4>2, <5>1 DEF header
      <4>6. text \in Texts /\ Len(text) = 2 + Len(block)
          BY <2>2, <4>2, TableIs
      <4> HIDE DEF from, to, text
      <4>7. /\ found[b] \in LoadedRoots /\ found[b].part = part /\ found[b].from = from
            /\ found[b].to = to /\ found[b].text = text
        <5> DEFINE made == LoadedRoot("sheet_rows", part, from, to, text, 0)
        <5>1. /\ made \in LoadedRoots /\ made.part = part /\ made.from = from
              /\ made.to = to /\ made.text = text
            BY <2>4, <4>4, <4>6 DEF LoadedRoot, LoadedRoots
        <5> QED BY <4>5, <5>1
      <4> QED BY <4>2, <4>3, <4>6, <4>7 DEF from, to
    <3>5. found \in Seq(LoadedRoots) /\ Len(found) = parts
      <4>1. found = [b \in 1 .. parts |-> found[b]] /\ parts \in Nat
          BY <2>3, <3>1, <3>2
      <4>2. found \in [1 .. parts -> LoadedRoots]  BY <3>4, <4>1
      <4> QED BY <4>1, <4>2
    <3>6. \A k, l \in 1 .. m : sheet[k].number <= sheet[l].number <=> k <= l
      <4> TAKE k, l \in 1 .. m
      <4>1. sheet[k].number \in Int /\ sheet[l].number \in Int  BY <1>5
      <4>2. CASE k = l  BY <4>1, <4>2
      <4>3. CASE k < l  BY <1>3, <4>1, <4>3
      <4>4. CASE l < k  BY <1>3, <4>1, <4>4
      <4> QED BY <4>2, <4>3, <4>4
    <3>7. ASSUME NEW k \in 2 .. m, NEW b \in 1 .. parts
          PROVE  Holds(found[b], part, sheet[k].number)
                     <=> BlockFrom(b) <= k - 1 /\ k - 1 <= BlockTo(b, count)
      <4> DEFINE lo == BlockFrom(b) + 1
                 hi == BlockTo(b, count) + 1
      <4>1. lo \in 1 .. m /\ hi \in 1 .. m /\ k \in 1 .. m /\ BlockFrom(b) \in Int /\ BlockTo(b, count) \in Int
        <5>1. BlockFrom(b) \in 1 .. count /\ BlockTo(b, count) \in 1 .. count
            BY <3>1
        <5>2. lo \in 2 .. m /\ hi \in 2 .. m  BY <3>4
        <5> HIDE DEF lo, hi
        <5> QED BY <2>1, <5>1, <5>2
      <4>2. Holds(found[b], part, sheet[k].number) <=>
                sheet[lo].number <= sheet[k].number /\ sheet[k].number <= sheet[hi].number
          BY <3>4 DEF Holds
      <4>3. Holds(found[b], part, sheet[k].number) <=> lo <= k /\ k <= hi
        <5> HIDE DEF lo, hi
        <5> QED BY <3>6, <4>1, <4>2
      <4> QED BY <4>1, <4>3
    <3>8. ASSUME NEW i \in DOMAIN rows, rows[i] > 0, \E j \in DOMAIN rows : rows[j] > 0 /\ j < i
          PROVE  \E r : Landed(found, part, rows, i, r)
      <4>1. PICK k \in 2 .. m : sheet[k].number = i  BY <1>6, <3>8
      <4>2. k - 1 \in 1 .. count  BY <2>1 DEF count
      <4>3. PICK b \in 1 .. parts : BlockFrom(b) <= k - 1 /\ k - 1 <= BlockTo(b, count)
          BY <3>1, <4>2
      <4>4. Holds(found[b], part, i)  BY <3>7, <4>1, <4>3
      <4>5. ASSUME NEW a \in 1 .. parts, Holds(found[a], part, i)  PROVE a = b
        <5>1. BlockFrom(a) <= k - 1 /\ k - 1 <= BlockTo(a, count)
            BY <3>7, <4>1, <4>5
        <5>2. /\ BlockFrom(a) \in Int /\ BlockTo(a, count) \in Int
              /\ BlockFrom(b) \in Int /\ BlockTo(b, count) \in Int /\ a \in Int /\ b \in Int
            BY <3>1
        <5>3. ~(a < b)
          <6> SUFFICES ASSUME a < b  PROVE FALSE  OBVIOUS
          <6>1. BlockTo(a, count) < BlockFrom(b)  BY <3>1
          <6> QED BY <4>3, <5>1, <5>2, <6>1
        <5>4. ~(b < a)
          <6> SUFFICES ASSUME b < a  PROVE FALSE  OBVIOUS
          <6>1. BlockTo(b, count) < BlockFrom(a)  BY <3>1
          <6> QED BY <4>3, <5>1, <5>2, <6>1
        <5> QED BY <5>2, <5>3, <5>4
      <4>6. Len(found[b].text) = 2 + Cardinality(FilledFrom(rows, found[b].from, found[b].to))
        <5> DEFINE lo == BlockFrom(b) + 1
                   hi == BlockTo(b, count) + 1
        <5>1. lo \in 1 .. m /\ hi \in 1 .. m /\ lo <= hi
              /\ hi - lo + 1 = BlockTo(b, count) - BlockFrom(b) + 1
          <6>1. BlockFrom(b) \in 1 .. count /\ BlockTo(b, count) \in 1 .. count
                /\ BlockFrom(b) <= BlockTo(b, count)
              BY <3>1
          <6>2. lo \in 2 .. m /\ hi \in 2 .. m  BY <3>4
          <6>3. lo <= hi /\ hi - lo + 1 = BlockTo(b, count) - BlockFrom(b) + 1
              BY <6>1
          <6> HIDE DEF lo, hi
          <6> QED BY <2>1, <6>2, <6>3
        <5>2. Cardinality(FilledFrom(rows, sheet[lo].number, sheet[hi].number)) = hi - lo + 1
          <6> HIDE DEF lo, hi
          <6> QED BY <1>1, <5>1, FilledCounted
        <5> QED BY <3>4, <5>1, <5>2
      <4>7. Landed(found, part, rows, i, b)
          BY <3>5, <4>4, <4>5, <4>6 DEF Landed
      <4> QED BY <4>7
    <3>9. SheetLanded(found, part, rows)  BY <3>8 DEF SheetLanded
    <3>10. \A r \in 1 .. Len(found) : found[r].part = part  BY <3>4, <3>5
    <3> QED BY <3>5, <3>9, <3>10 DEF SheetSound, found
  <2> QED BY <2>5, <2>6
<1> QED BY <1>7, <1>8

-----------------------------------------------------------------------------
(* All the sheets. *)

(* Lists joined, and the roots of each sheet. *)
Joining(lists) == FoldLeft(LAMBDA all, some : all \o some, <<>>, lists)
SheetsOf(sheets) == [part \in DOMAIN sheets |-> SheetRoots(part, sheets[part])]

(* Lists joined, one more at a time. *)
LEMMA JoiningGrow ==
    /\ Joining(<<>>) = <<>>
    /\ \A s \in Seq(Seq(LoadedRoots)) : Joining(s) \in Seq(LoadedRoots)
    /\ \A s \in Seq(Seq(LoadedRoots)), list \in Seq(LoadedRoots) : Joining(Append(s, list)) = Joining(s) \o list
<1> DEFINE
      X == Seq(LoadedRoots)
      B == Seq(LoadedRoots)
      base == <<>>
      Op(a, list) == a \o list
      next == [p \in B \X X |-> Op(p[1], p[2])]
      F(list, f) == f = [places \in SUBSET DOMAIN list |->
                            IF places = {} THEN base
                            ELSE Op(f[places \ {Max(places)}], list[Max(places)])]
      g(list) == CHOOSE f : F(list, f)
      R == Results(X, B, base, next)
<1>1. \A list : Joining(list) = g(list)[DOMAIN list]
    BY DEF Joining, FoldLeft, MapThenFoldSet
<1>2. base \in B  OBVIOUS
<1>3. \A a \in B, y \in X : Op(a, y) \in B  BY ConcatProperties
<1>4. \A s, y : Op(Joining(s), y) = Joining(s) \o y  OBVIOUS
<1> HIDE DEF B, Op, base
<1>5. \A a \in B, y \in X : next[<<a, y>>] = Op(a, y) /\ Op(a, y) \in B
    BY <1>3
<1> HIDE DEF next
<1>6. Closed(B, X, next)  BY <1>5 DEF Closed
<1>7. ASSUME NEW list \in Seq(X)  PROVE g(list)[DOMAIN list] = R[list]
  <2>1. ASSUME NEW f, UnfoldingIn(list, X, B, base, next, f)
        PROVE  Unfolded(list, X, B, base, next, g(list))
    <3>1. F(list, f)  BY <1>5, <2>1 DEF UnfoldingIn, Unfolding
    <3> HIDE DEF F
    <3>2. F(list, g(list))  BY <3>1
    <3> HIDE DEF g
    <3> QED BY <1>5, <3>2 DEF Unfolded, F
  <2> HIDE DEF F, g, X
  <2> QED BY <1>2, <1>6, <2>1, FoldIs
<1> HIDE DEF F, g
<1>8. \A list \in Seq(X) : Joining(list) = R[list]  BY <1>1, <1>7
<1>9. <<>> \in Seq(X) /\ \A s \in Seq(X), y \in X : Append(s, y) \in Seq(X)
    OBVIOUS
<1> HIDE DEF X, R
<1>10. Growing(X, B, base, next, R)  BY <1>2, <1>6, ResultsGrow DEF R
<1>11. \A s \in Seq(X) : R[s] \in B  BY <1>10 DEF Growing
<1>12. \A s \in Seq(X), y \in X : R[Append(s, y)] = next[<<R[s], y>>]
    BY <1>10 DEF Growing
<1>13. R[<<>>] = base  BY <1>10 DEF Growing
<1>14. \A s \in Seq(X), y \in X : Joining(Append(s, y)) = Op(Joining(s), y)
  <2> TAKE s \in Seq(X), y \in X
  <2>1. Append(s, y) \in Seq(X)  BY <1>9
  <2>2. Joining(Append(s, y)) = R[Append(s, y)] /\ Joining(s) = R[s]
      BY <1>8, <2>1
  <2>3. R[Append(s, y)] = next[<<R[s], y>>] /\ R[s] \in B  BY <1>11, <1>12
  <2> QED BY <1>5, <2>2, <2>3
<1>15. \A s \in Seq(X) : Joining(s) \in B  BY <1>8, <1>11
<1>16. Joining(<<>>) = base  BY <1>8, <1>9, <1>13
<1>17. \A s \in Seq(X), list \in X : Joining(Append(s, list)) = Joining(s) \o list
    BY <1>4, <1>14
<1>18. /\ Joining(<<>>) = base
       /\ \A s \in Seq(X) : Joining(s) \in B
       /\ \A s \in Seq(X), list \in X : Joining(Append(s, list)) = Joining(s) \o list
    BY <1>15, <1>16, <1>17
<1> QED BY <1>18, Zenon DEF B, base, X

(* Roots of other sheets after those of a sheet change nothing for it. *)
LEMMA LandedBefore ==
    ASSUME NEW list \in Seq(LoadedRoots), NEW more \in Seq(LoadedRoots), NEW part, NEW rows,
           \A q \in 1 .. Len(more) : more[q].part # part, SheetLanded(list, part, rows)
    PROVE  SheetLanded(list \o more, part, rows)
<1> DEFINE all == list \o more
           k == Len(list)
           m == Len(more)
<1>1. /\ k \in Nat /\ m \in Nat /\ Len(all) = k + m
      /\ \A q \in 1 .. k + m : all[q] = IF q <= k THEN list[q] ELSE more[q - k]
    BY ConcatProperties
<1> HIDE DEF all
<1>2. ASSUME NEW i, NEW r, Landed(list, part, rows, i, r)  PROVE Landed(all, part, rows, i, r)
  <2>1. /\ r \in 1 .. k /\ Holds(list[r], part, i)
        /\ \A q \in 1 .. k : Holds(list[q], part, i) => q = r
        /\ Len(list[r].text) = 2 + Cardinality(FilledFrom(rows, list[r].from, list[r].to))
      BY <1>2 DEF Landed
  <2>2. r \in 1 .. k + m /\ all[r] = list[r]  BY <1>1, <2>1
  <2>3. ASSUME NEW q \in 1 .. k + m, Holds(all[q], part, i)  PROVE q = r
    <3>1. CASE q <= k
      <4>1. q \in 1 .. k /\ all[q] = list[q]  BY <1>1, <3>1
      <4> QED BY <2>1, <2>3, <4>1
    <3>2. CASE ~(q <= k)
      <4>1. q - k \in 1 .. m /\ all[q] = more[q - k]  BY <1>1, <3>2
      <4> QED BY <2>3, <4>1 DEF Holds
    <3> QED BY <3>1, <3>2
  <2> QED BY <1>1, <2>1, <2>2, <2>3 DEF Landed
<1>3. SheetLanded(all, part, rows)  BY <1>2 DEF SheetLanded
<1> QED BY <1>3 DEF all

(* Nor do those before. *)
LEMMA LandedAfter ==
    ASSUME NEW list \in Seq(LoadedRoots), NEW more \in Seq(LoadedRoots), NEW part, NEW rows,
           \A q \in 1 .. Len(list) : list[q].part # part, SheetLanded(more, part, rows)
    PROVE  SheetLanded(list \o more, part, rows)
<1> DEFINE all == list \o more
           k == Len(list)
           m == Len(more)
<1>1. /\ k \in Nat /\ m \in Nat /\ Len(all) = k + m
      /\ \A q \in 1 .. k + m : all[q] = IF q <= k THEN list[q] ELSE more[q - k]
    BY ConcatProperties
<1> HIDE DEF all
<1>2. ASSUME NEW i, NEW r, Landed(more, part, rows, i, r)  PROVE Landed(all, part, rows, i, k + r)
  <2>1. /\ r \in 1 .. m /\ Holds(more[r], part, i)
        /\ \A q \in 1 .. m : Holds(more[q], part, i) => q = r
        /\ Len(more[r].text) = 2 + Cardinality(FilledFrom(rows, more[r].from, more[r].to))
      BY <1>2 DEF Landed
  <2>2. k + r \in 1 .. k + m /\ all[k + r] = more[r]
    <3>1. k + r \in 1 .. k + m /\ ~(k + r <= k) /\ (k + r) - k = r
        BY <1>1, <2>1
    <3> QED BY <1>1, <3>1
  <2>3. ASSUME NEW q \in 1 .. k + m, Holds(all[q], part, i)  PROVE q = k + r
    <3>1. CASE q <= k
      <4>1. q \in 1 .. k /\ all[q] = list[q]  BY <1>1, <3>1
      <4> QED BY <2>3, <4>1 DEF Holds
    <3>2. CASE ~(q <= k)
      <4>1. q - k \in 1 .. m /\ all[q] = more[q - k]  BY <1>1, <3>2
      <4>2. q - k = r  BY <2>1, <2>3, <4>1
      <4> QED BY <1>1, <2>1, <4>2
    <3> QED BY <3>1, <3>2
  <2> QED BY <1>1, <2>1, <2>2, <2>3 DEF Landed
<1>3. SheetLanded(all, part, rows)  BY <1>2 DEF SheetLanded
<1> QED BY <1>3 DEF all

(* The roots of a workbook hold the rows of each sheet. *)
SheetsSound(list, sheets) ==
    /\ list \in Seq(LoadedRoots)
    /\ \A r \in 1 .. Len(list) : list[r].part \in 1 .. Len(sheets)
    /\ \A part \in 1 .. Len(sheets) : SheetLanded(list, part, sheets[part])

(* The roots of the sheets, one more sheet at a time. *)
LEMMA SheetsOfGrow ==
    /\ SheetsOf(<<>>) = <<>>
    /\ \A s \in Seq(Seq(Nat)) : SheetsOf(s) \in Seq(Seq(LoadedRoots))
    /\ \A s \in Seq(Seq(Nat)), rows \in Seq(Nat) :
           SheetsOf(Append(s, rows)) = Append(SheetsOf(s), SheetRoots(Len(s) + 1, rows))
<1> DEFINE X == Seq(Nat)
           L == Seq(LoadedRoots)
<1>1. \A s \in Seq(X) : /\ SheetsOf(s) \in Seq(L) /\ Len(SheetsOf(s)) = Len(s)
                        /\ \A i \in 1 .. Len(s) : SheetsOf(s)[i] = SheetRoots(i, s[i])
  <2> TAKE s \in Seq(X)
  <2>1. Len(s) \in Nat /\ DOMAIN s = 1 .. Len(s) /\ \A i \in 1 .. Len(s) : s[i] \in X
      BY ElementOfSeq
  <2>2. \A i \in 1 .. Len(s) : SheetRoots(i, s[i]) \in L
      BY <2>1, SheetRootsSound DEF SheetSound
  <2> HIDE DEF X, L
  <2>3. SheetsOf(s) \in [1 .. Len(s) -> L]  BY <2>1, <2>2 DEF SheetsOf
  <2>4. SheetsOf(s) \in Seq(L) /\ Len(SheetsOf(s)) = Len(s)  BY <2>1, <2>3
  <2> QED BY <2>1, <2>4 DEF SheetsOf
<1>2. \A rows \in X, n \in Nat : SheetRoots(n, rows) \in L
    BY SheetRootsSound DEF SheetSound
<1> HIDE DEF X, L
<1>3. ASSUME NEW s \in Seq(X), s = <<>>  PROVE SheetsOf(s) = s
  <2>1. Len(s) = 0  BY <1>3
  <2>2. SheetsOf(s) \in Seq(L) /\ Len(SheetsOf(s)) = 0  BY <1>1, <2>1
  <2>3. SheetsOf(s) = <<>>  BY <2>2
  <2> QED BY <1>3, <2>3
<1>4. SheetsOf(<<>>) = <<>>
  <2>1. <<>> \in Seq(X)  OBVIOUS
  <2> QED BY <1>3, <2>1, Zenon
<1>5. ASSUME NEW s \in Seq(X), NEW rows \in X
      PROVE  SheetsOf(Append(s, rows)) = Append(SheetsOf(s), SheetRoots(Len(s) + 1, rows))
  <2> DEFINE more == Append(s, rows)
             k == Len(s)
             list == SheetRoots(k + 1, rows)
             b == Append(SheetsOf(s), list)
  <2>1. /\ more \in Seq(X) /\ Len(more) = k + 1 /\ k \in Nat
        /\ more[k + 1] = rows /\ \A i \in 1 .. k : more[i] = s[i]
      OBVIOUS
  <2>2. list \in L  BY <1>2, <2>1
  <2> HIDE DEF list, more
  <2>3. b \in Seq(L) /\ Len(b) = k + 1 /\ b[k + 1] = list /\ \A i \in 1 .. k : b[i] = SheetsOf(s)[i]
      BY <1>1, <2>2
  <2>4. /\ SheetsOf(more) \in Seq(L) /\ Len(SheetsOf(more)) = k + 1
        /\ \A i \in 1 .. k + 1 : SheetsOf(more)[i] = SheetRoots(i, more[i])
      BY <1>1, <2>1
  <2> HIDE DEF b
  <2>5. \A i \in 1 .. k + 1 : SheetsOf(more)[i] = b[i]
    <3> TAKE i \in 1 .. k + 1
    <3>1. CASE i = k + 1  BY <2>1, <2>3, <2>4, <3>1 DEF list
    <3>2. CASE i # k + 1
      <4>1. i \in 1 .. k  BY <2>1, <3>2
      <4> QED BY <1>1, <2>1, <2>3, <2>4, <4>1
    <3> QED BY <3>1, <3>2
  <2>6. SheetsOf(more) = b  BY <2>3, <2>4, <2>5, SeqEqual
  <2> QED BY <2>6 DEF more, b, list
<1>6. \A s \in Seq(X), rows \in X :
          SheetsOf(Append(s, rows)) = Append(SheetsOf(s), SheetRoots(Len(s) + 1, rows))
    BY <1>5
<1>7. /\ SheetsOf(<<>>) = <<>>
      /\ \A s \in Seq(X) : SheetsOf(s) \in Seq(L)
    BY <1>1, <1>4
<1> QED BY <1>6, <1>7 DEF X, L

(* A workbook is loaded so. *)
LEMMA SheetsLoaded ==
    ASSUME NEW sheets \in Seq(Seq(Nat))
    PROVE  SheetsSound(LoadSheets(sheets), sheets)
<1> DEFINE T == {s \in Seq(Seq(Nat)) : SheetsSound(Joining(SheetsOf(s)), s)}
<1>1. \A s : LoadSheets(s) = Joining(SheetsOf(s))
    BY DEF LoadSheets, Joining, SheetsOf
<1>2. <<>> \in T
  <2>1. Joining(SheetsOf(<<>>)) = <<>>  BY SheetsOfGrow, JoiningGrow
  <2>2. <<>> \in Seq(LoadedRoots) /\ Len(<<>>) = 0 /\ <<>> \in Seq(Seq(Nat))
      OBVIOUS
  <2>3. SheetsSound(<<>>, <<>>)  BY <2>2 DEF SheetsSound
  <2> QED BY <2>1, <2>2, <2>3
<1>3. ASSUME NEW s \in Seq(Seq(Nat)), NEW rows \in Seq(Nat), s \in T  PROVE Append(s, rows) \in T
  <2> DEFINE n == Len(s)
             list == Joining(SheetsOf(s))
             more == SheetRoots(n + 1, rows)
             sheets2 == Append(s, rows)
             all == list \o more
  <2>1. /\ n \in Nat /\ sheets2 \in Seq(Seq(Nat)) /\ Len(sheets2) = n + 1 /\ sheets2[n + 1] = rows
        /\ \A part \in 1 .. n : sheets2[part] = s[part]
      OBVIOUS
  <2>2. /\ list \in Seq(LoadedRoots)
        /\ \A r \in 1 .. Len(list) : list[r].part \in 1 .. n
        /\ \A part \in 1 .. n : SheetLanded(list, part, s[part])
      BY <1>3 DEF SheetsSound
  <2>3. /\ more \in Seq(LoadedRoots)
        /\ \A r \in 1 .. Len(more) : more[r].part = n + 1
        /\ SheetLanded(more, n + 1, rows)
    <3>1. n + 1 \in Nat  BY <2>1
    <3> DEFINE next == n + 1
    <3> HIDE DEF next
    <3>2. SheetSound(SheetRoots(next, rows), next, rows)
        BY <3>1, SheetRootsSound DEF next
    <3> QED BY <3>2 DEF SheetSound, next
  <2>4. Joining(SheetsOf(sheets2)) = all
    <3>1. SheetsOf(sheets2) = Append(SheetsOf(s), more) /\ SheetsOf(s) \in Seq(Seq(LoadedRoots))
        BY SheetsOfGrow
    <3> QED BY <2>3, <3>1, JoiningGrow
  <2> HIDE DEF list, more, sheets2, n
  <2>5. /\ all \in Seq(LoadedRoots) /\ Len(all) = Len(list) + Len(more)
        /\ \A q \in 1 .. Len(list) + Len(more) :
               all[q] = IF q <= Len(list) THEN list[q] ELSE more[q - Len(list)]
        /\ Len(list) \in Nat /\ Len(more) \in Nat
      BY <2>2, <2>3, ConcatProperties
  <2>6. ASSUME NEW r \in 1 .. Len(all)  PROVE all[r].part \in 1 .. n + 1
    <3>1. CASE r <= Len(list)
      <4>1. r \in 1 .. Len(list) /\ all[r] = list[r]  BY <2>5, <3>1
      <4>2. all[r].part \in 1 .. n  BY <2>2, <4>1
      <4> QED BY <2>1, <4>2
    <3>2. CASE ~(r <= Len(list))
      <4>1. r - Len(list) \in 1 .. Len(more) /\ all[r] = more[r - Len(list)]
          BY <2>5, <3>2
      <4>2. all[r].part = n + 1  BY <2>3, <4>1
      <4> QED BY <2>1, <4>2
    <3> QED BY <3>1, <3>2
  <2>7. ASSUME NEW part \in 1 .. n + 1  PROVE SheetLanded(all, part, sheets2[part])
    <3>1. CASE part = n + 1
      <4>1. \A q \in 1 .. Len(list) : list[q].part # part
        <5> TAKE q \in 1 .. Len(list)
        <5>1. list[q].part \in 1 .. n  BY <2>2
        <5> QED BY <2>1, <3>1, <5>1
      <4>2. SheetLanded(more, part, rows)  BY <2>3, <3>1
      <4>3. SheetLanded(all, part, rows)
          BY <2>2, <2>3, <4>1, <4>2, LandedAfter
      <4> QED BY <2>1, <3>1, <4>3
    <3>2. CASE part # n + 1
      <4>1. part \in 1 .. n  BY <2>1, <3>2
      <4>2. \A q \in 1 .. Len(more) : more[q].part # part  BY <2>3, <3>2
      <4>3. SheetLanded(list, part, s[part])  BY <2>2, <4>1
      <4>4. SheetLanded(all, part, s[part])
          BY <2>2, <2>3, <4>2, <4>3, LandedBefore
      <4> QED BY <2>1, <4>1, <4>4
    <3> QED BY <3>1, <3>2
  <2>8. SheetsSound(all, sheets2)  BY <2>1, <2>5, <2>6, <2>7 DEF SheetsSound
  <2> QED BY <2>1, <2>4, <2>8 DEF sheets2
<1>4. Seq(Seq(Nat)) \subseteq T
  <2> HIDE DEF T
  <2> QED BY <1>2, <1>3, SequenceInduction
<1> QED BY <1>1, <1>4

-----------------------------------------------------------------------------
(* The roots of a file in every state. *)

(* The file is never changed, and its roots are what loading makes of it. *)
LoadedInv ==
    /\ file \in Files /\ roots \in Seq(LoadedRoots) /\ page \in Nat \ {0}
    /\ file.format # "pdf" =>
           /\ stage = "load" => roots = <<>>
           /\ stage # "load" => roots = Loaded

(* What a parser makes of a file of each format. *)
LEMMA FileIs ==
    ASSUME NEW f \in Files
    PROVE  /\ f.format \in {"text", "html", "docx", "sheet", "pdf"}
           /\ f.format = "text" => f.content \in Texts
           /\ f.format = "html" => f.content \in Seq(Events)
           /\ f.format = "docx" => f.content \in Seq(Elements)
           /\ f.format = "sheet" => f.content \in Seq(Seq(Nat))
           /\ f.format = "pdf" => f.content \in Seq([text : Texts, enough : BOOLEAN, images : Nat])
<1>1. f.format \in DOMAIN Contents /\ f.content \in Contents[f.format]
    BY FilesAssumption
<1>2. DOMAIN Contents = {"text", "html", "docx", "sheet", "pdf"}
    BY DEF Contents
<1>3. /\ Contents["text"] = Texts /\ Contents["html"] = Seq(Events)
      /\ Contents["docx"] = Seq(Elements) /\ Contents["sheet"] = Seq(Seq(Nat))
      /\ Contents["pdf"] = Seq([text : Texts, enough : BOOLEAN, images : Nat])
    BY DEF Contents, Elements
<1> QED BY <1>1, <1>2, <1>3

(* What is loaded at once are roots. *)
LEMMA LoadedIs ==
    ASSUME LoadedInv, file.format # "pdf"
    PROVE  Loaded \in Seq(LoadedRoots)
<1>1. file \in Files  BY DEF LoadedInv
<1>2. file.format \in {"text", "html", "docx", "sheet"}  BY <1>1, FileIs
<1>3. CASE file.format = "text"  BY <1>1, <1>3, FileIs, Utf8Loaded DEF Loaded
<1>4. CASE file.format = "html"  BY <1>1, <1>4, FileIs, HtmlLoaded DEF Loaded
<1>5. CASE file.format = "docx"  BY <1>1, <1>5, FileIs, DocxLoaded DEF Loaded
<1>6. CASE file.format = "sheet"
    BY <1>1, <1>6, FileIs, SheetsLoaded DEF Loaded, SheetsSound
<1> QED BY <1>2, <1>3, <1>4, <1>5, <1>6

(* Every step keeps the roots what loading made of the file. *)
LEMMA LoadedStays == ASSUME LoadedInv, [Next]_vars  PROVE LoadedInv'
<1> USE DEF LoadedInv
<1>1. ASSUME file' = file, roots' = roots, page' = page, stage # "load", stage' # "load"
      PROVE  LoadedInv'
    BY <1>1 DEF Loaded
<1>2. CASE Load
  <2>1. file' = file /\ page' = page /\ file.format # "pdf" /\ stage' # "load" /\ roots = <<>>
        /\ roots' = Loaded
    <3>1. CASE Loaded = <<>>  BY <1>2, <3>1 DEF Load, Fail
    <3>2. CASE Loaded # <<>>  BY <1>2, <3>2 DEF Load
    <3> QED BY <3>1, <3>2
  <2>2. Loaded \in Seq(LoadedRoots) /\ Loaded' = Loaded
      BY <2>1, LoadedIs DEF Loaded
  <2> QED BY <2>1, <2>2
<1>3. CASE LoadPage
  <2>1. /\ file.format = "pdf" /\ file \in Files /\ page \in 1 .. Len(file.content)
        /\ file' = file /\ stage' = stage /\ page' = page + 1
      BY <1>3 DEF LoadPage
  <2>2. file.content \in Seq([text : Texts, enough : BOOLEAN, images : Nat])
      BY <2>1, FileIs
  <2>3. PICK recognized \in Recognized : roots' = roots \o PageRoots(page, file.content[page], recognized)
      BY <1>3 DEF LoadPage
  <2>4. recognized \in Texts  BY FilesAssumption
  <2>5. file.content[page] \in [text : Texts, enough : BOOLEAN, images : Nat]
      BY <2>1, <2>2, ElementOfSeq
  <2>6. PageRoots(page, file.content[page], recognized) \in Seq(LoadedRoots)
      BY <2>1, <2>4, <2>5, PageLoaded
  <2>7. roots' \in Seq(LoadedRoots)  BY <2>3, <2>6, ConcatProperties
  <2> QED BY <2>1, <2>7
<1>4. CASE LoadLastPage  BY <1>4 DEF LoadLastPage, Fail
<1>5. CASE EnrichRoot  BY <1>1, <1>5 DEF EnrichRoot
<1>6. CASE Clean  BY <1>1, <1>6 DEF Clean, Fail
<1>7. CASE BeginRoot  BY <1>1, <1>7 DEF BeginRoot, Fail
<1>8. CASE NextChunk  BY <1>1, <1>8 DEF NextChunk, Fail
<1>9. CASE Finish  BY <1>1, <1>9 DEF Finish
<1>10. CASE UNCHANGED vars  BY <1>10 DEF vars, Loaded
<1> QED BY <1>2, <1>3, <1>4, <1>5, <1>6, <1>7, <1>8, <1>9, <1>10 DEF Next

(* There are no roots at first. *)
LEMMA LoadedStarts == ASSUME Init  PROVE LoadedInv
BY DEF Init, LoadedInv

(* Roots that are what loading makes of a file hold all of it. *)
LEMMA InvLoadedWhole == ASSUME LoadedInv  PROVE LoadedWhole
<1>1. RowsLandOnce
  <2> SUFFICES ASSUME file.format = "sheet", roots # <<>>, NEW part \in DOMAIN file.content,
                      NEW row \in DOMAIN file.content[part],
                      file.content[part][row] > 0,
                      NEW i \in DOMAIN file.content[part], file.content[part][i] > 0, i < row
               PROVE  LET filled == {j \in DOMAIN file.content[part] : file.content[part][j] > 0}
                          within == {r \in DOMAIN roots : roots[r].part = part
                                         /\ roots[r].from <= row /\ row <= roots[r].to}
                      IN  /\ Cardinality(within) = 1
                          /\ \A r \in within :
                                 Len(roots[r].text) = 2 + Cardinality(
                                     {j \in filled : roots[r].from <= j /\ j <= roots[r].to})
      BY DEF RowsLandOnce
  <2> DEFINE sheets == file.content
             rows == sheets[part]
             within == {r \in DOMAIN roots : Holds(roots[r], part, row)}
  <2>1. sheets \in Seq(Seq(Nat)) /\ roots = LoadSheets(sheets)
    <3>1. file \in Files /\ stage # "load" /\ roots = Loaded  BY DEF LoadedInv
    <3> QED BY <3>1, FileIs DEF Loaded
  <2>2. SheetsSound(roots, sheets)  BY <2>1, SheetsLoaded
  <2>3. part \in 1 .. Len(sheets)  BY <2>1
  <2>4. SheetLanded(roots, part, rows)  BY <2>2, <2>3 DEF SheetsSound
  <2>5. PICK r : Landed(roots, part, rows, row, r)  BY <2>4 DEF SheetLanded
  <2>6. DOMAIN roots = 1 .. Len(roots)  BY <2>2 DEF SheetsSound
  <2>7. within = {r}  BY <2>5, <2>6 DEF Landed
  <2>8. Cardinality(within) = 1  BY <2>7, FS_Singleton
  <2>9. \A q \in within : Len(roots[q].text) = 2 + Cardinality(FilledFrom(rows, roots[q].from, roots[q].to))
      BY <2>5, <2>7 DEF Landed
  <2> QED BY <2>8, <2>9 DEF Holds, FilledFrom
<1>2. VisibleTextLoaded
  <2> SUFFICES ASSUME file.format = "html", Reading(file.content).level = 1,
                      roots # <<>> \/ stage = "failed"
               PROVE  WordsOf(IF roots = <<>> THEN <<>> ELSE roots[1].text)
                          = Reading(file.content).tokens
      BY DEF VisibleTextLoaded
  <2>1. file \in Files /\ roots = LoadHtml(file.content)
      BY DEF LoadedInv, Loaded
  <2>2. file.content \in Seq(Events)  BY <2>1, FileIs
  <2> QED BY <2>1, <2>2, HtmlLoaded
<1> QED BY <1>1, <1>2 DEF LoadedWhole

(* Loading takes sheets and pages into the roots whole and once: every data row
   of a sheet is in exactly one root under its own number, and of a page whose
   tables are closed every word outside the blocked tags is loaded and none
   inside (the spreadsheet and HTML loaders, for every file). *)
THEOREM FilesLoadedWhole == Spec => []LoadedWhole
<1>1. Init => LoadedInv  BY LoadedStarts
<1>2. LoadedInv /\ [Next]_vars => LoadedInv'  BY LoadedStays
<1>3. LoadedInv => LoadedWhole  BY InvLoadedWhole
<1> QED BY <1>1, <1>2, <1>3, PTL DEF Spec

-----------------------------------------------------------------------------
(* The clean texts in every state. *)

(* The texts of a list of roots. *)
TextsOf(list) == [r \in DOMAIN list |-> list[r].text]

(* The clean texts are what cleaning makes of the roots, and none is empty. *)
Washed(texts, list) ==
    /\ texts = CleanAll(TextsOf(list)) /\ Len(texts) = Len(list)
    /\ \A r \in DOMAIN texts : texts[r] # <<>>

(* What is known of the clean texts and the captions at each stage. *)
CleanInv ==
    /\ LoadedInv
    /\ stage \in {"load", "images", "split", "done", "failed"}
    /\ captions \in Seq(Nat)
    /\ stage = "load" => captions = <<>>
    /\ stage = "images" => roots # <<>>
    /\ stage \in {"load", "images"} => clean = <<>>
    /\ stage \in {"split", "done"} => clean # <<>>
    /\ clean = <<>> => leaves = <<>> /\ start = 0
    /\ clean # <<>> => Washed(clean, roots) /\ Len(captions) = Len(roots)

(* They are texts, one for each root. *)
LEMMA TextsAre ==
    ASSUME NEW list \in Seq(LoadedRoots)
    PROVE  TextsOf(list) \in Seq(Texts) /\ Len(TextsOf(list)) = Len(list)
<1>1. Len(list) \in Nat /\ DOMAIN list = 1 .. Len(list) /\ \A r \in 1 .. Len(list) : list[r] \in LoadedRoots
    BY ElementOfSeq
<1>2. \A r \in 1 .. Len(list) : list[r].text \in Texts
    BY <1>1 DEF LoadedRoots
<1>3. TextsOf(list) \in [1 .. Len(list) -> Texts]  BY <1>1, <1>2 DEF TextsOf
<1> QED BY <1>1, <1>3

(* What cleaning the roots of a document gives. *)
LEMMA WashedIs ==
    ASSUME NEW list \in Seq(LoadedRoots), NEW texts, texts = CleanAll(TextsOf(list))
    PROVE  /\ Cleaned(TextsOf(list), texts) /\ texts \in Seq(Seq(Clear)) /\ Len(texts) = Len(list)
           /\ DOMAIN texts = 1 .. Len(list) /\ DOMAIN list = 1 .. Len(list) /\ Len(list) \in Nat
<1>1. TextsOf(list) \in Seq(Texts) /\ Len(TextsOf(list)) = Len(list)
    BY TextsAre
<1>2. Cleaned(TextsOf(list), texts)  BY <1>1, CleanedAll
<1>3. texts \in Seq(Seq(Clear)) /\ Len(texts) = Len(list)
    BY <1>1, <1>2 DEF Cleaned
<1> QED BY <1>2, <1>3

(* There are no clean texts at first. *)
LEMMA CleanStarts == ASSUME Init  PROVE CleanInv
<1>1. <<>> \in Seq(Nat)  OBVIOUS
<1>2. LoadedInv  BY LoadedStarts
<1> QED BY <1>1, <1>2 DEF Init, CleanInv

(* Every step keeps the clean texts what cleaning made of the roots. *)
LEMMA CleanStays == ASSUME CleanInv, [Next]_vars  PROVE CleanInv'
<1>1. LoadedInv'  BY LoadedStays DEF CleanInv
<1> DEFINE Rest ==
               /\ stage \in {"load", "images", "split", "done", "failed"}
               /\ captions \in Seq(Nat)
               /\ stage = "load" => captions = <<>>
               /\ stage = "images" => roots # <<>>
               /\ stage \in {"load", "images"} => clean = <<>>
               /\ stage \in {"split", "done"} => clean # <<>>
               /\ clean = <<>> => leaves = <<>> /\ start = 0
               /\ clean # <<>> => Washed(clean, roots) /\ Len(captions) = Len(roots)
<1>2. Rest  BY DEF CleanInv
<1> SUFFICES Rest'  BY <1>1 DEF CleanInv
<1>3. CASE Load  BY <1>2, <1>3 DEF Load, Fail
<1>4. CASE LoadPage  BY <1>2, <1>4 DEF LoadPage
<1>5. CASE LoadLastPage  BY <1>2, <1>5 DEF LoadLastPage, Fail
<1>6. CASE EnrichRoot
  <2>1. Len(captions) \in Nat /\ roots \in Seq(LoadedRoots) /\ Len(captions) < Len(roots) /\ captions \in Seq(Nat)
      BY <1>2, <1>6 DEF EnrichRoot, CleanInv, LoadedInv
  <2>2. roots[Len(captions) + 1].images \in Nat
    <3>1. Len(captions) + 1 \in 1 .. Len(roots)  BY <2>1
    <3>2. roots[Len(captions) + 1] \in LoadedRoots
        BY <2>1, <3>1, ElementOfSeq
    <3> QED BY <3>2 DEF LoadedRoots
  <2>3. PICK described \in 0 .. roots[Len(captions) + 1].images :
            captions' = Append(captions, described * CaptionTokens)
      BY <1>6 DEF EnrichRoot
  <2>4. described * CaptionTokens \in Nat  BY <2>2, FilesAssumption
  <2> DEFINE cost == described * CaptionTokens
  <2> HIDE DEF cost
  <2>5. captions' = Append(captions, cost) /\ cost \in Nat
      BY <2>3, <2>4 DEF cost
  <2>6. captions' \in Seq(Nat)  BY <2>1, <2>5
  <2>7. stage = "images" /\ UNCHANGED <<file, stage, roots, clean, segments, start, leaves, page>>
      BY <1>6 DEF EnrichRoot
  <2> QED BY <1>2, <2>6, <2>7
<1>7. CASE Clean
  <2> DEFINE cleaned == CleanAll([r \in DOMAIN roots |-> roots[r].text])
  <2>1. stage = "images" /\ Len(captions) = Len(roots) /\ roots \in Seq(LoadedRoots) /\ clean = <<>>
        /\ leaves = <<>> /\ start = 0 /\ roots # <<>>
      BY <1>2, <1>7 DEF Clean, CleanInv, LoadedInv
  <2>2. CASE \E r \in DOMAIN cleaned : cleaned[r] = <<>>
    <3>1. Fail  BY <1>7, <2>2 DEF Clean
    <3> QED BY <1>2, <2>1, <3>1 DEF Fail
  <2>3. CASE ~\E r \in DOMAIN cleaned : cleaned[r] = <<>>
    <3>1. stage' = "split" /\ clean' = cleaned
          /\ UNCHANGED <<file, roots, captions, segments, start, leaves, page>>
        BY <1>7, <2>3 DEF Clean
    <3>2. cleaned = CleanAll(TextsOf(roots))  BY DEF TextsOf
    <3> HIDE DEF cleaned
    <3>3. Washed(cleaned, roots) /\ Len(cleaned) = Len(roots)
        BY <2>1, <2>3, <3>2, WashedIs DEF Washed
    <3>4. cleaned # <<>>  BY <2>1, <3>3
    <3>5. Washed(clean', roots')  BY <3>1, <3>3
    <3>6. clean' # <<>>  BY <3>1, <3>4
    <3>7. Len(captions') = Len(roots')  BY <2>1, <3>1
    <3> QED BY <1>2, <3>1, <3>5, <3>6, <3>7
  <2> QED BY <2>2, <2>3
<1>8. ASSUME clean' = clean, roots' = roots, captions' = captions, stage = "split",
             stage' \in {"split", "done", "failed"}
      PROVE  Rest'
    BY <1>2, <1>8
<1>9. CASE BeginRoot  BY <1>8, <1>9 DEF BeginRoot, Fail
<1>10. CASE NextChunk  BY <1>8, <1>10 DEF NextChunk, Fail
<1>11. CASE Finish  BY <1>8, <1>11 DEF Finish
<1>12. CASE UNCHANGED vars  BY <1>2, <1>12 DEF vars
<1> HIDE DEF Rest
<1> QED BY <1>3, <1>4, <1>5, <1>6, <1>7, <1>9, <1>10, <1>11, <1>12 DEF Next

(* Texts that are what cleaning makes of the roots keep words and code. *)
LEMMA InvWordsSurvive == ASSUME CleanInv  PROVE WordsSurvive
<1> DEFINE raw == TextsOf(roots)
<1>1. CASE clean = <<>>
    BY <1>1 DEF WordsSurvive, OnlyEdgesRemoved, CodeSurvives
<1>2. CASE clean # <<>>
  <2>1. roots \in Seq(LoadedRoots) /\ clean = CleanAll(raw) /\ \A r \in DOMAIN clean : clean[r] # <<>>
      BY <1>2 DEF CleanInv, LoadedInv, Washed
  <2>2. Cleaned(raw, clean) /\ Len(clean) = Len(roots) /\ DOMAIN clean = 1 .. Len(roots)
        /\ DOMAIN roots = 1 .. Len(roots) /\ Len(roots) \in Nat
      BY <2>1, WashedIs
  <2>3. raw \in Seq(Texts) /\ Len(raw) = Len(roots) /\ DOMAIN raw = DOMAIN roots
        /\ \A r \in DOMAIN roots : raw[r] = roots[r].text
    <3>1. DOMAIN raw = DOMAIN roots /\ \A r \in DOMAIN roots : raw[r] = roots[r].text
        BY DEF TextsOf
    <3> QED BY <2>1, <3>1, TextsAre
  <2> HIDE DEF raw
  <2>4. /\ Len(raw) < 2 => clean = [r \in DOMAIN raw |-> CleanRoot(raw[r])]
        /\ \A r \in DOMAIN raw :
               LET base == CleanRoot(raw[r])
                   first == base[FirstFilled(base)]
                   last  == base[LastFilled(base)]
               IN  /\ Filled(clean[r]) # {}
                   /\ TextTokens(clean[r]) \in Nat /\ TextTokens(raw[r]) \in Nat
                   /\ LostOf(raw, first) \in Nat /\ LostOf(raw, last) \in Nat
                   /\ TextTokens(raw[r])
                          <= TextTokens(clean[r]) + (LostOf(raw, first) + LostOf(raw, last))
      BY <2>1, <2>2 DEF Cleaned
  <2>5. CodeSurvives
    <3> SUFFICES ASSUME Len(clean) = 1  PROVE CodeOf(clean[1]) = CodeOf(RemoveControls(roots[1].text))
        BY DEF CodeSurvives
    <3>1. clean = [r \in DOMAIN raw |-> CleanRoot(raw[r])] /\ 1 \in DOMAIN raw
        BY <2>2, <2>3, <2>4
    <3>2. clean[1] = CleanRoot(raw[1]) /\ raw[1] \in Texts /\ raw[1] = roots[1].text
      <4>1. clean[1] = CleanRoot(raw[1])  BY <3>1
      <4>2. raw[1] \in Texts  BY <2>3, <3>1, ElementOfSeq
      <4> QED BY <2>3, <3>1, <4>1, <4>2
    <3> QED BY <3>2, CleanRootKeeps
  <2>6. OnlyEdgesRemoved
    <3> DEFINE sharing(line) == {q \in DOMAIN roots :
                   LET other == CleanRoot(roots[q].text)
                   IN  Stripped(line) \in {Stripped(other[FirstFilled(other)]),
                                           Stripped(other[LastFilled(other)])}}
               Lost(line) == IF Cardinality(sharing(line)) >= Threshold(Len(roots))
                             THEN LineTokens(line) ELSE 0
    <3>1. ASSUME NEW line  PROVE sharing(line) = SharedBy(raw, line)
        BY <2>3 DEF SharedBy, EdgesOf
    <3>2. \A line : Lost(line) = LostOf(raw, line)  BY <2>3, <3>1 DEF LostOf
    <3> HIDE DEF Lost
    <3>3. ASSUME NEW r \in DOMAIN clean
          PROVE  LET base == CleanRoot(roots[r].text)
                     first == base[FirstFilled(base)]
                     last  == base[LastFilled(base)]
                 IN  /\ Filled(clean[r]) # {}
                     /\ TextTokens(clean[r]) + (Lost(first) + Lost(last)) >= TextTokens(roots[r].text)
      <4> DEFINE base == CleanRoot(raw[r])
                 first == base[FirstFilled(base)]
                 last  == base[LastFilled(base)]
      <4>1. r \in DOMAIN raw /\ raw[r] = roots[r].text  BY <2>2, <2>3
      <4>2. /\ Filled(clean[r]) # {}
            /\ TextTokens(clean[r]) \in Nat /\ TextTokens(raw[r]) \in Nat
            /\ LostOf(raw, first) \in Nat /\ LostOf(raw, last) \in Nat
            /\ TextTokens(raw[r])
                   <= TextTokens(clean[r]) + (LostOf(raw, first) + LostOf(raw, last))
          BY <2>4, <4>1
      <4>3. Lost(first) = LostOf(raw, first) /\ Lost(last) = LostOf(raw, last)
          BY <3>2
      <4> HIDE DEF first, last, base
      <4>4. TextTokens(clean[r]) + (Lost(first) + Lost(last)) >= TextTokens(raw[r])
          BY <4>2, <4>3
      <4> QED BY <4>1, <4>2, <4>4 DEF first, last, base
    <3> QED BY <3>3 DEF OnlyEdgesRemoved, Lost
  <2> QED BY <2>5, <2>6 DEF WordsSurvive
<1> QED BY <1>1, <1>2

(* Cleaning removes no words but whole edge lines that enough roots share,
   never all the text of a root, and changes no code between fences
   (adapters/cleaners/deterministic.py, for all texts). *)
THEOREM CleaningKeepsWords == Spec => []WordsSurvive
<1>1. Init => CleanInv  BY CleanStarts
<1>2. CleanInv /\ [Next]_vars => CleanInv'  BY CleanStays
<1>3. CleanInv => WordsSurvive  BY InvWordsSurvive
<1> QED BY <1>1, <1>2, <1>3, PTL DEF Spec

-----------------------------------------------------------------------------
(* The leaves of a root while it is being split. *)

(* The leaves. *)
LeafRecords ==
    [ordinal : Nat, from : Nat, to : Nat, header : BOOLEAN, tokens : Nat, boundary : SegmentKinds]

(* Each leaf begins in or right after the one before it, and beyond its start. *)
Linked(mine, header) ==
    /\ mine \in Seq(LeafRecords)
    /\ mine # <<>> => mine[1].from = 0
    /\ \A k \in DOMAIN mine : k > 1 =>
           /\ mine[k].from <= mine[k - 1].to
           /\ mine[k].from > mine[k - 1].from
           /\ header = 0 => mine[k].to >= mine[k - 1].to
           /\ OverlapTokens = 0 => mine[k].from = mine[k - 1].to

(* What a leaf shares with the one before it. *)
SharesLittle(before, leaf, segs) ==
    LET shared == before.to - leaf.from
    IN  \/ shared = 0
        \/ OverlapTokens > 0 /\ CountTokens(shared) <= OverlapTokens
        \/ /\ OverlapTokens > 0
           /\ \E s \in DOMAIN segs :
                  /\ segs[s].from = leaf.from
                  /\ segs[s].to = before.to
                  /\ segs[s].kind \in {"sentence", "paragraph"}

(* So with all leaves of a root. *)
ShareLittle(mine, segs) ==
    \A k \in DOMAIN mine : k > 1 => SharesLittle(mine[k - 1], mine[k], segs)

(* The last leaf is the chunk that began at segment `first`. *)
ChunkFrom(leaf, segs, header, first) ==
    /\ ~ChunkFails(segs, header, first)
    /\ leaf.from = segs[first].from
    /\ leaf.to = segs[ChunkEnd(segs, header, first)].to

(* A root whose next chunk begins at segment `next`. *)
Unfinished(mine, segs, header, next) ==
    /\ next \in 1 .. Len(segs)
    /\ mine = <<>> => next = 1
    /\ mine # <<>> =>
           \E first \in 1 .. Len(segs) :
               /\ ChunkFrom(mine[Len(mine)], segs, header, first)
               /\ ChunkEnd(segs, header, first) < Len(segs)
               /\ next = OverlapStart(segs, first, ChunkEnd(segs, header, first))

(* The leaves reach the end of the text. *)
Covered(mine, text) == mine # <<>> /\ mine[Len(mine)].to = TextTokens(text)

(* The segments a root is packed from. *)
CutOf(text, header) == ExpandOverlong(StructureSegments(text), header)

(* They cover its text, and fit beside a header with room for one token. *)
LEMMA CutCovers ==
    ASSUME NEW text \in Texts, NEW header \in Nat
    PROVE  /\ Covering(CutOf(text, header), 0, TextTokens(text)) /\ TextTokens(text) \in Nat
           /\ RoomForOne(header) => AllFit(CutOf(text, header), header)
<1>1. TextTokens(text) \in Nat /\ Covering(StructureSegments(text), 0, TextTokens(text))
    BY SegmentsCover
<1> QED BY <1>1, ExpandedCovers DEF CutOf

(* A root that has words starts with its first segment. *)
LEMMA RootBegins ==
    ASSUME NEW text \in Texts, TextTokens(text) > 0, NEW header \in Nat
    PROVE  /\ Linked(<<>>, header) /\ ShareLittle(<<>>, CutOf(text, header))
           /\ Unfinished(<<>>, CutOf(text, header), header, 1)
<1> DEFINE segs == CutOf(text, header)
<1>1. Covering(segs, 0, TextTokens(text)) /\ TextTokens(text) \in Nat
    BY CutCovers
<1> HIDE DEF segs
<1>2. segs # <<>> /\ segs \in Seq(Segments)  BY <1>1 DEF Covering
<1>3. 1 \in 1 .. Len(segs)  BY <1>2
<1>4. Unfinished(<<>>, segs, header, 1)  BY <1>3 DEF Unfinished
<1>5. Linked(<<>>, header) /\ ShareLittle(<<>>, segs)
    BY DEF Linked, ShareLittle
<1> QED BY <1>4, <1>5 DEF segs

(* Without a header a chunk that begins inside another ends no earlier. *)
LEMMA EndsNoEarlier ==
    ASSUME NEW segs, NEW b, Covering(segs, 0, b), NEW header \in Nat, header = 0,
           NEW first \in 1 .. Len(segs),
           ~ChunkFails(segs, header, first),
           NEW next \in first .. ChunkEnd(segs, header, first)
    PROVE  ChunkEnd(segs, header, next) >= ChunkEnd(segs, header, first)
<1> DEFINE end == ChunkEnd(segs, header, first)
<1>1. Packed(segs, header, first, end) /\ end \in first .. Len(segs)
    BY ChunkEndIs
<1> HIDE DEF end
<1>2. next \in 1 .. Len(segs) /\ next \in first .. end /\ end \in next .. Len(segs)
      /\ first \in Nat /\ next \in Nat /\ end \in Nat /\ Len(segs) \in Nat
    BY <1>1 DEF end, Covering
<1>3. ASSUME NEW e \in next .. end
      PROVE  Cost(segs, header, next, e) <= Cost(segs, header, first, e)
             /\ Cost(segs, header, next, e) \in Nat /\ Cost(segs, header, first, e) \in Nat
  <2>1. e \in next .. Len(segs) /\ e \in first .. Len(segs)  BY <1>2
  <2>2. segs[first].from <= segs[next].from  BY <1>2, SegmentsFollow
  <2>3. HeaderCost(header) = 0  BY HeaderCostIs
  <2>4. /\ Cost(segs, header, first, e) =
               segs[e].to - segs[first].from + SpecialTokens
                   + (IF first > 1 THEN HeaderCost(header) ELSE 0)
        /\ Cost(segs, header, first, e) \in Nat
      BY <2>1, CostIs
  <2>5. /\ Cost(segs, header, next, e) =
               segs[e].to - segs[next].from + SpecialTokens
                   + (IF next > 1 THEN HeaderCost(header) ELSE 0)
        /\ Cost(segs, header, next, e) \in Nat
      BY <1>2, <2>1, CostIs
  <2>6. segs[e].to \in Nat /\ segs[first].from \in Nat /\ segs[next].from \in Nat
    <3>1. segs[e] \in Segments /\ segs[first] \in Segments /\ segs[next] \in Segments
      <4>1. e \in 1 .. Len(segs)  BY <1>2, <2>1
      <4> QED BY <1>2, <4>1 DEF Covering
    <3> QED BY <3>1 DEF Segments
  <2> QED BY <2>2, <2>3, <2>4, <2>5, <2>6, SplittingAssumption
<1>4. Packed(segs, header, next, end)
  <2>1. Cost(segs, header, next, end) <= MaxTokens
    <3>1. end \in next .. end /\ Cost(segs, header, first, end) <= MaxTokens
        BY <1>1, <1>2 DEF Packed
    <3> QED BY <1>3, <3>1, SplittingAssumption
  <2>2. ASSUME NEW e \in next .. (end - 1)  PROVE Cost(segs, header, next, e) < TargetTokens
    <3>1. e \in first .. (end - 1) /\ e \in next .. end  BY <1>2
    <3>2. Cost(segs, header, first, e) < TargetTokens
        BY <1>1, <3>1 DEF Packed
    <3> QED BY <1>3, <3>1, <3>2, SplittingAssumption
  <2> QED BY <1>2, <2>1, <2>2 DEF Packed
<1>5. end <= ChunkEnd(segs, header, next) /\ ChunkEnd(segs, header, next) \in next .. Len(segs)
    BY <1>2, <1>4, ChunkEndIs
<1> QED BY <1>2, <1>5 DEF end

(* The chunk that begins at a segment, and its leaf. *)
ChunkAt(segs, header, next) ==
    [from |-> segs[next].from, to |-> segs[ChunkEnd(segs, header, next)].to,
     kind |-> segs[ChunkEnd(segs, header, next)].kind]

(* The leaf of the chunk that begins at segment `next`. *)
LeafSound(segs, header, next, ordinal, more) ==
    LET end  == ChunkEnd(segs, header, next)
        leaf == Leaf(ChunkAt(segs, header, next), ordinal, header, more)
    IN  /\ end \in next .. Len(segs)
        /\ leaf \in LeafRecords
        /\ leaf.from = segs[next].from /\ leaf.to = segs[end].to
        /\ leaf.tokens = LeafTokens(ChunkAt(segs, header, next), ordinal, header, more)

(* Every chunk has such a leaf. *)
LEMMA LeafIs ==
    ASSUME NEW segs, NEW b, Covering(segs, 0, b), NEW header \in Nat,
           NEW next \in 1 .. Len(segs), NEW ordinal \in Nat, NEW more \in Nat
    PROVE  LeafSound(segs, header, next, ordinal, more)
<1> DEFINE end  == ChunkEnd(segs, header, next)
           chunk == ChunkAt(segs, header, next)
           leaf == Leaf(chunk, ordinal, header, more)
           tokens == LeafTokens(chunk, ordinal, header, more)
<1>1. end \in next .. Len(segs)  BY ChunkEndIs
<1>2. chunk = [from |-> segs[next].from, to |-> segs[end].to, kind |-> segs[end].kind]
    BY DEF ChunkAt
<1> HIDE DEF end, chunk
<1>3. segs[next] \in Segments /\ segs[end] \in Segments /\ segs[next].from < segs[end].to
  <2>1. end \in 1 .. Len(segs) /\ next <= end  BY <1>1 DEF Covering
  <2> QED BY <2>1, SegmentsFollow
<1>4. /\ segs[next].from \in Nat /\ segs[end].to \in Nat /\ segs[end].kind \in SegmentKinds
      /\ chunk.to - chunk.from \in Nat
    BY <1>2, <1>3 DEF Segments
<1>5. tokens \in Nat
  <2> DEFINE body == chunk.to - chunk.from
  <2>1. body \in Nat  BY <1>4
  <2>2. tokens = IF ordinal = 0 /\ more > 0 /\ CountTokens(body + more) <= MaxTokens
                 THEN CountTokens(body + more)
                 ELSE CountTokens(body + (IF ordinal > 0 THEN header ELSE 0))
      BY DEF LeafTokens
  <2> HIDE DEF body, tokens
  <2>3. body + more \in Nat /\ body + (IF ordinal > 0 THEN header ELSE 0) \in Nat
      BY <2>1
  <2>4. CountTokens(body + more) \in Nat  BY <2>3, Counted
  <2>5. CountTokens(body + (IF ordinal > 0 THEN header ELSE 0)) \in Nat
      BY <2>3, Counted
  <2> QED BY <2>2, <2>4, <2>5
<1>6. leaf = [ordinal |-> ordinal, from |-> chunk.from, to |-> chunk.to,
              header |-> header > 0 /\ ordinal > 0, tokens |-> tokens, boundary |-> chunk.kind]
    BY DEF Leaf
<1> HIDE DEF leaf, tokens
<1>7. leaf \in LeafRecords
  <2>1. chunk.from \in Nat /\ chunk.to \in Nat /\ chunk.kind \in SegmentKinds
      BY <1>2, <1>4
  <2>2. (header > 0 /\ ordinal > 0) \in BOOLEAN  OBVIOUS
  <2> QED BY <1>5, <1>6, <2>1, <2>2 DEF LeafRecords
<1>8. leaf.from = segs[next].from /\ leaf.to = segs[end].to /\ leaf.tokens = tokens
    BY <1>2, <1>6
<1> QED BY <1>1, <1>7, <1>8 DEF end, chunk, leaf, tokens, LeafSound

(* Where the next chunk begins after one of the root. *)
LEMMA NextAfter ==
    ASSUME NEW segs, NEW b, Covering(segs, 0, b), NEW header \in Nat, NEW mine, NEW next,
           Unfinished(mine, segs, header, next), mine # <<>>
    PROVE  \E first \in 1 .. Len(segs) :
               LET end == ChunkEnd(segs, header, first) IN
               /\ ChunkFrom(mine[Len(mine)], segs, header, first)
               /\ end \in first .. Len(segs) - 1
               /\ next \in first + 1 .. end + 1
               /\ next > 1
               /\ OverlapTokens = 0 => next = end + 1
               /\ next <= end =>
                     /\ OverlapTokens > 0
                     /\ \/ CountTokens(segs[end].to - segs[next].from) <= OverlapTokens
                        \/ next = end /\ segs[end].kind \in {"sentence", "paragraph"}
<1>1. PICK first \in 1 .. Len(segs) :
          /\ ChunkFrom(mine[Len(mine)], segs, header, first)
          /\ ChunkEnd(segs, header, first) < Len(segs)
          /\ next = OverlapStart(segs, first, ChunkEnd(segs, header, first))
    BY DEF Unfinished
<1> DEFINE end == ChunkEnd(segs, header, first)
<1>2. end \in first .. Len(segs) /\ segs \in Seq(Segments)
    BY ChunkEndIs DEF Covering
<1>3. end < Len(segs) /\ next = OverlapStart(segs, first, end)  BY <1>1
<1> HIDE DEF end
<1>4. /\ next \in (first + 1) .. (end + 1)
      /\ OverlapTokens = 0 => next = end + 1
      /\ next <= end =>
            /\ OverlapTokens > 0
            /\ \/ CountTokens(segs[end].to - segs[next].from) <= OverlapTokens
               \/ next = end /\ segs[end].kind \in {"sentence", "paragraph"}
    BY <1>2, <1>3, OverlapStartIs
<1>5. end \in first .. Len(segs) - 1 /\ next > 1  BY <1>2, <1>3, <1>4
<1> QED BY <1>1, <1>4, <1>5 DEF end

(* With room for one token beside the header no chunk and no leaf fails. *)
LEMMA ChunkFits ==
    ASSUME NEW text \in Texts, NEW header \in Nat, RoomForOne(header), NEW mine, NEW next,
           Linked(mine, header), NEW more \in Nat,
           Unfinished(mine, CutOf(text, header), header, next)
    PROVE  LET segs == CutOf(text, header) IN
           /\ ~ChunkFails(segs, header, next)
           /\ LeafTokens(ChunkAt(segs, header, next), Len(mine), header, more) <= MaxTokens
<1> DEFINE segs == CutOf(text, header)
           end == ChunkEnd(segs, header, next)
           chunk == ChunkAt(segs, header, next)
<1>1. Covering(segs, 0, TextTokens(text)) /\ AllFit(segs, header)
    BY CutCovers
<1>2. Unfinished(mine, segs, header, next)  OBVIOUS
<1> HIDE DEF segs
<1>3. next \in 1 .. Len(segs) /\ next \in next .. Len(segs) /\ segs \in Seq(Segments)
    BY <1>1, <1>2 DEF Unfinished, Covering
<1>4. HeaderCost(header) \in Nat /\ MaxTokens \in Nat /\ SpecialTokens \in Nat
    BY HeaderCostIs, SplittingAssumption
<1>5. Cost(segs, header, next, next) <= MaxTokens
  <2>1. CountTokens(segs[next].to - segs[next].from) + HeaderCost(header) <= MaxTokens
      BY <1>1, <1>3 DEF AllFit, Fits
  <2>2. segs[next].to - segs[next].from \in Nat  BY <1>1, <1>3, CostIs
  <2>3. CountTokens(segs[next].to - segs[next].from) \in Nat  BY <2>2, Counted
  <2> QED BY <1>4, <2>1, <2>3 DEF Cost
<1>6. Packed(segs, header, next, next)
  <2>1. next .. (next - 1) = {}  BY <1>3
  <2> QED BY <1>3, <1>5, <2>1 DEF Packed
<1>7. ~ChunkFails(segs, header, next) /\ end \in next .. Len(segs)
    BY <1>1, <1>3, <1>6, ChunkEndIs
<1>8. Cost(segs, header, next, end) <= MaxTokens
  <2>1. Packed(segs, header, next, end)  BY <1>1, <1>3, <1>7, ChunkEndIs
  <2> QED BY <2>1 DEF Packed
<1>9. chunk.to - chunk.from = segs[end].to - segs[next].from  BY DEF ChunkAt
<1> HIDE DEF end, chunk
<1> DEFINE body == chunk.to - chunk.from
<1>10. /\ body \in Nat /\ body > 0
       /\ Cost(segs, header, next, end) =
              body + SpecialTokens + (IF next > 1 THEN HeaderCost(header) ELSE 0)
    BY <1>1, <1>3, <1>7, <1>9, CostIs
<1> HIDE DEF body
<1>11. Len(mine) \in Nat  BY DEF Linked
<1>12. Len(mine) > 0 => next > 1
  <2>1. ASSUME mine # <<>>  PROVE next > 1  BY <1>1, <1>2, <2>1, NextAfter
  <2>2. mine = <<>> => Len(mine) = 0  OBVIOUS
  <2> QED BY <2>1, <2>2
<1> DEFINE repeated == IF Len(mine) > 0 THEN header ELSE 0
<1>13. repeated \in Nat /\ repeated <= IF next > 1 THEN HeaderCost(header) ELSE 0
  <2>1. header <= HeaderCost(header)  BY <1>4, HeaderCostIs
  <2> QED BY <1>4, <1>11, <1>12, <2>1
<1>14. LeafTokens(chunk, Len(mine), header, more) =
           IF Len(mine) = 0 /\ more > 0 /\ CountTokens(body + more) <= MaxTokens
           THEN CountTokens(body + more) ELSE CountTokens(body + repeated)
    BY DEF LeafTokens, body
<1> HIDE DEF repeated
<1>15. CountTokens(body + repeated) <= MaxTokens
  <2>1. body + repeated \in Nat /\ body + repeated > 0  BY <1>10, <1>13
  <2>2. CountTokens(body + repeated) = body + repeated + SpecialTokens
      BY <2>1, Counted
  <2> QED BY <1>4, <1>8, <1>10, <1>13, <2>2
<1>16. LeafTokens(chunk, Len(mine), header, more) <= MaxTokens
    BY <1>14, <1>15
<1> QED BY <1>7, <1>16 DEF segs, chunk

(* The leaves of a root and one more. *)
LEMMA LeafJoins ==
    ASSUME NEW mine \in Seq(LeafRecords), NEW leaf \in LeafRecords
    PROVE  /\ Append(mine, leaf) \in Seq(LeafRecords) /\ Append(mine, leaf) # <<>>
           /\ Len(Append(mine, leaf)) = Len(mine) + 1 /\ Len(mine) \in Nat
           /\ DOMAIN Append(mine, leaf) = 1 .. Len(mine) + 1
           /\ DOMAIN mine = 1 .. Len(mine)
           /\ \A k \in 1 .. Len(mine) : Append(mine, leaf)[k] = mine[k]
           /\ Append(mine, leaf)[Len(mine) + 1] = leaf
           /\ mine # <<>> <=> Len(mine) > 0
OBVIOUS

(* A leaf follows the last one as it should. *)
LEMMA LeafFollows ==
    ASSUME NEW segs, NEW b, Covering(segs, 0, b), NEW header \in Nat, NEW mine, NEW next,
           Linked(mine, header), Unfinished(mine, segs, header, next), mine # <<>>,
           NEW leaf \in LeafRecords, ChunkFrom(leaf, segs, header, next)
    PROVE  LET before == mine[Len(mine)] IN
           /\ leaf.from <= before.to
           /\ leaf.from > before.from
           /\ header = 0 => leaf.to >= before.to
           /\ OverlapTokens = 0 => leaf.from = before.to
           /\ SharesLittle(before, leaf, segs)
<1> DEFINE before == mine[Len(mine)]
<1>1. PICK first \in 1 .. Len(segs) :
          LET end == ChunkEnd(segs, header, first) IN
          /\ ChunkFrom(mine[Len(mine)], segs, header, first)
          /\ end \in first .. Len(segs) - 1
          /\ next \in first + 1 .. end + 1
          /\ next > 1
          /\ OverlapTokens = 0 => next = end + 1
          /\ next <= end =>
                /\ OverlapTokens > 0
                /\ \/ CountTokens(segs[end].to - segs[next].from) <= OverlapTokens
                   \/ next = end /\ segs[end].kind \in {"sentence", "paragraph"}
    BY NextAfter
<1> DEFINE end == ChunkEnd(segs, header, first)
           last == ChunkEnd(segs, header, next)
<1>2. /\ ~ChunkFails(segs, header, first)
      /\ before.from = segs[first].from /\ before.to = segs[end].to
      /\ end \in first .. Len(segs) - 1
      /\ next \in first + 1 .. end + 1
      /\ OverlapTokens = 0 => next = end + 1
      /\ next <= end =>
            /\ OverlapTokens > 0
            /\ \/ CountTokens(segs[end].to - segs[next].from) <= OverlapTokens
               \/ next = end /\ segs[end].kind \in {"sentence", "paragraph"}
    BY <1>1 DEF ChunkFrom
<1>3. segs \in Seq(Segments) /\ Len(segs) \in Nat /\ first \in Nat
    BY <1>1 DEF Covering
<1>4. leaf.from = segs[next].from /\ leaf.to = segs[last].to  BY DEF ChunkFrom
<1>5. next \in 1 .. Len(segs)  BY DEF Unfinished
<1>6. last \in next .. Len(segs)  BY <1>5, ChunkEndIs
<1>7. header = 0 /\ next <= end => last >= end
  <2> SUFFICES ASSUME header = 0, next <= end  PROVE last >= end  OBVIOUS
  <2>1. next \in first .. end  BY <1>2, <1>3
  <2> QED BY <1>2, <2>1, EndsNoEarlier
<1> HIDE DEF end, last, before
<1>8. /\ end \in Nat /\ next \in Nat /\ last \in Nat /\ first < next /\ next <= end + 1 /\ next <= last
      /\ end \in 1 .. Len(segs) /\ end + 1 \in 1 .. Len(segs) /\ last \in 1 .. Len(segs)
      /\ end \in 1 .. Len(segs) - 1
    BY <1>2, <1>3, <1>5, <1>6
<1>9. /\ segs[first] \in Segments /\ segs[next] \in Segments /\ segs[end] \in Segments
      /\ segs[end + 1] \in Segments /\ segs[last] \in Segments
    BY <1>3, <1>5, <1>8
<1>10. /\ segs[first].from \in Nat /\ segs[next].from \in Nat /\ segs[end].to \in Nat
       /\ segs[end + 1].from \in Nat /\ segs[last].to \in Nat
    BY <1>9 DEF Segments
<1>11. segs[end].to = segs[end + 1].from  BY <1>8 DEF Covering
<1>12. leaf.from <= before.to
  <2>1. segs[next].from <= segs[end + 1].from  BY <1>5, <1>8, SegmentsFollow
  <2> QED BY <1>2, <1>4, <1>11, <2>1
<1>13. leaf.from > before.from
  <2>1. segs[first].from < segs[next].from
      BY <1>3, <1>5, <1>8, SegmentsFollow
  <2> QED BY <1>2, <1>4, <1>10, <2>1
<1>14. ASSUME header = 0  PROVE leaf.to >= before.to
  <2>1. last >= end  BY <1>7, <1>8, <1>14
  <2>2. segs[end].to <= segs[last].to  BY <1>8, <2>1, SegmentsFollow
  <2> QED BY <1>2, <1>4, <1>10, <2>2
<1>15. next = end + 1 => leaf.from = before.to  BY <1>2, <1>4, <1>11
<1>16. SharesLittle(before, leaf, segs)
  <2>1. CASE next = end + 1
    <3>1. before.to - leaf.from = 0  BY <1>2, <1>10, <1>15, <2>1
    <3> QED BY <3>1 DEF SharesLittle
  <2>2. CASE next <= end
    <3>1. OverlapTokens > 0  BY <1>2, <2>2
    <3>2. CASE CountTokens(segs[end].to - segs[next].from) <= OverlapTokens
        BY <1>2, <1>4, <3>1, <3>2 DEF SharesLittle
    <3>3. CASE next = end /\ segs[end].kind \in {"sentence", "paragraph"}
      <4>1. end \in DOMAIN segs  BY <1>3, <1>8
      <4>2. /\ segs[end].from = leaf.from /\ segs[end].to = before.to
            /\ segs[end].kind \in {"sentence", "paragraph"}
          BY <1>2, <1>4, <3>3
      <4> QED BY <3>1, <4>1, <4>2 DEF SharesLittle
    <3> QED BY <1>2, <2>2, <3>2, <3>3
  <2> QED BY <1>8, <2>1, <2>2
<1> QED BY <1>2, <1>12, <1>13, <1>14, <1>15, <1>16 DEF before

(* A chunk that does not fail takes its root one leaf further. *)
LEMMA ChunkLinks ==
    ASSUME NEW text \in Texts, NEW header \in Nat, NEW mine, NEW next, NEW leaf \in LeafRecords,
           Linked(mine, header), ShareLittle(mine, CutOf(text, header)),
           Unfinished(mine, CutOf(text, header), header, next),
           ChunkFrom(leaf, CutOf(text, header), header, next)
    PROVE  LET segs == CutOf(text, header)
               end  == ChunkEnd(segs, header, next)
               longer == Append(mine, leaf) IN
           /\ Linked(longer, header) /\ ShareLittle(longer, segs)
           /\ end = Len(segs) => Covered(longer, text)
           /\ end # Len(segs) =>
                  /\ Unfinished(longer, segs, header, OverlapStart(segs, next, end))
                  /\ OverlapStart(segs, next, end) \in Nat \ {0}
<1> DEFINE segs == CutOf(text, header)
           end == ChunkEnd(segs, header, next)
           longer == Append(mine, leaf)
           k == Len(mine)
<1>1. Covering(segs, 0, TextTokens(text))  BY CutCovers
<1>2. /\ Unfinished(mine, segs, header, next) /\ ShareLittle(mine, segs)
      /\ ChunkFrom(leaf, segs, header, next)
    OBVIOUS
<1> HIDE DEF segs
<1>3. next \in 1 .. Len(segs) /\ segs \in Seq(Segments) /\ Len(segs) \in Nat
    BY <1>1, <1>2 DEF Unfinished, Covering
<1>4. end \in next .. Len(segs) /\ leaf.from = segs[next].from /\ leaf.to = segs[end].to
    BY <1>1, <1>2, <1>3, ChunkEndIs DEF ChunkFrom
<1>5. mine \in Seq(LeafRecords)  BY DEF Linked
<1>6. /\ longer \in Seq(LeafRecords) /\ longer # <<>> /\ Len(longer) = k + 1 /\ k \in Nat
      /\ DOMAIN longer = 1 .. k + 1 /\ DOMAIN mine = 1 .. k
      /\ \A n \in 1 .. k : longer[n] = mine[n]
      /\ longer[k + 1] = leaf
      /\ mine # <<>> <=> k > 0
    BY <1>5, LeafJoins
<1> HIDE DEF longer
<1>7. ASSUME NEW n \in DOMAIN longer, n > 1
      PROVE  /\ longer[n].from <= longer[n - 1].to
             /\ longer[n].from > longer[n - 1].from
             /\ header = 0 => longer[n].to >= longer[n - 1].to
             /\ OverlapTokens = 0 => longer[n].from = longer[n - 1].to
             /\ SharesLittle(longer[n - 1], longer[n], segs)
  <2>1. CASE n = k + 1
    <3>1. n - 1 \in 1 .. k /\ n - 1 = k /\ mine # <<>>  BY <1>6, <1>7, <2>1
    <3>2. longer[n] = leaf /\ longer[n - 1] = mine[k]  BY <1>6, <2>1, <3>1
    <3>3. /\ leaf.from <= mine[k].to
          /\ leaf.from > mine[k].from
          /\ header = 0 => leaf.to >= mine[k].to
          /\ OverlapTokens = 0 => leaf.from = mine[k].to
          /\ SharesLittle(mine[k], leaf, segs)
        BY <1>1, <1>2, <3>1, LeafFollows
    <3> QED BY <3>2, <3>3
  <2>2. CASE n # k + 1
    <3>1. n \in 1 .. k /\ n - 1 \in 1 .. k  BY <1>6, <1>7, <2>2
    <3>2. longer[n] = mine[n] /\ longer[n - 1] = mine[n - 1] /\ n \in DOMAIN mine
        BY <1>6, <3>1
    <3>3. /\ mine[n].from <= mine[n - 1].to
          /\ mine[n].from > mine[n - 1].from
          /\ header = 0 => mine[n].to >= mine[n - 1].to
          /\ OverlapTokens = 0 => mine[n].from = mine[n - 1].to
        BY <1>7, <3>2 DEF Linked
    <3>4. SharesLittle(mine[n - 1], mine[n], segs)
        BY <1>2, <1>7, <3>2 DEF ShareLittle
    <3> QED BY <3>2, <3>3, <3>4
  <2> QED BY <2>1, <2>2
<1>8. longer[1].from = 0
  <2>1. CASE mine = <<>>
    <3>1. k = 0 /\ next = 1 /\ segs # <<>>
        BY <1>2, <1>3, <1>6, <2>1 DEF Unfinished
    <3>2. segs[1].from = 0  BY <1>1, <3>1 DEF Covering
    <3>3. longer[1] = leaf  BY <1>6, <3>1
    <3> QED BY <1>4, <3>1, <3>2, <3>3
  <2>2. CASE mine # <<>>
    <3>1. 1 \in 1 .. k  BY <1>6, <2>2
    <3> QED BY <1>6, <2>2, <3>1 DEF Linked
  <2> QED BY <2>1, <2>2
<1>9. Linked(longer, header) /\ ShareLittle(longer, segs)
    BY <1>6, <1>7, <1>8 DEF Linked, ShareLittle
<1> HIDE DEF end
<1>10. ASSUME end = Len(segs)  PROVE Covered(longer, text)
  <2>1. segs # <<>>  BY <1>3
  <2>2. segs[Len(segs)].to = TextTokens(text)  BY <1>1, <2>1 DEF Covering
  <2> QED BY <1>4, <1>6, <1>10, <2>2 DEF Covered
<1>11. ASSUME end # Len(segs)
       PROVE  /\ Unfinished(longer, segs, header, OverlapStart(segs, next, end))
              /\ OverlapStart(segs, next, end) \in Nat \ {0}
  <2> DEFINE after == OverlapStart(segs, next, end)
  <2>1. end < Len(segs) /\ end \in Nat /\ next \in Nat  BY <1>3, <1>4, <1>11
  <2>2. after \in (next + 1) .. (end + 1)  BY <1>3, <1>4, OverlapStartIs
  <2> HIDE DEF after
  <2>3. after \in 1 .. Len(segs) /\ after \in Nat \ {0}  BY <1>3, <2>1, <2>2
  <2>4. ChunkFrom(longer[Len(longer)], segs, header, next)  BY <1>2, <1>6
  <2>5. ChunkEnd(segs, header, next) < Len(segs)
        /\ after = OverlapStart(segs, next, ChunkEnd(segs, header, next))
      BY <2>1 DEF end, after
  <2>6. Unfinished(longer, segs, header, after)
      BY <1>3, <1>6, <2>3, <2>4, <2>5 DEF Unfinished
  <2> QED BY <2>3, <2>6 DEF after
<1> QED BY <1>9, <1>10, <1>11 DEF segs, end, longer

-----------------------------------------------------------------------------
(* The leaves in every state. *)

(* What is known of the leaves of root r, whose clean text is given; `last` is
   the root being split or split last. *)
SplitInv ==
    /\ leaves \in Seq(Seq(LeafRecords)) /\ Len(leaves) <= Len(clean) /\ start \in Nat
    /\ \A r \in DOMAIN leaves :
           /\ Linked(leaves[r], HeaderOf(r))
           /\ r < Current \/ start = 0 => Covered(leaves[r], clean[r])
    /\ Current > 0 =>
           /\ segments = CutOf(clean[Current], HeaderOf(Current))
           /\ ShareLittle(leaves[Current], segments)
    /\ start > 0 =>
           Current > 0 /\ Unfinished(leaves[Current], segments, HeaderOf(Current), start)
    /\ stage = "failed" /\ clean # <<>> =>
           \E r \in DOMAIN clean : ~RoomForOne(HeaderOf(r))

(* The inductive invariant of the pipeline. *)
LeavesInv == CleanInv /\ SplitInv

(* The clean texts are texts with words, and have a header or none. *)
LEMMA CleanTexts ==
    ASSUME CleanInv, clean # <<>>
    PROVE  /\ clean \in Seq(Seq(Clear)) /\ DOMAIN clean = 1 .. Len(clean) /\ Len(clean) \in Nat
           /\ Len(captions) = Len(clean) /\ captions \in Seq(Nat)
           /\ \A r \in 1 .. Len(clean) :
                  /\ clean[r] \in Texts /\ TextTokens(clean[r]) > 0
                  /\ HeaderOf(r) \in Nat /\ captions[r] \in Nat
<1> DEFINE raw == TextsOf(roots)
<1>1. /\ roots \in Seq(LoadedRoots) /\ clean = CleanAll(raw) /\ Len(clean) = Len(roots)
      /\ Len(captions) = Len(roots) /\ captions \in Seq(Nat)
      /\ \A r \in DOMAIN clean : clean[r] # <<>>
    BY DEF CleanInv, LoadedInv, Washed
<1>2. /\ Cleaned(raw, clean) /\ clean \in Seq(Seq(Clear)) /\ DOMAIN clean = 1 .. Len(roots)
      /\ Len(roots) \in Nat
    BY <1>1, WashedIs
<1>3. DOMAIN raw = 1 .. Len(roots)  BY <1>1, <1>2 DEF TextsOf
<1> HIDE DEF raw
<1>4. \A r \in 1 .. Len(roots) : Filled(clean[r]) # {}
    BY <1>1, <1>2, <1>3 DEF Cleaned
<1>5. ASSUME NEW r \in 1 .. Len(clean)
      PROVE  /\ clean[r] \in Texts /\ TextTokens(clean[r]) > 0
             /\ HeaderOf(r) \in Nat /\ captions[r] \in Nat
  <2>1. clean[r] \in Seq(Clear)  BY <1>2, ElementOfSeq
  <2>2. clean[r] \in Texts  BY <2>1, ClearLines
  <2>3. PICK i \in DOMAIN clean[r] : clean[r][i].kind # "blank"
    <3>1. PICK i \in DOMAIN clean[r] : ~IsBlank(clean[r][i])
        BY <1>1, <1>4 DEF Filled
    <3>2. clean[r][i] \in Clear  BY <2>1, <3>1
    <3> QED BY <3>1, <3>2 DEF IsBlank, Clear
  <2>4. TextTokens(clean[r]) > 0  BY <2>2, <2>3, SomeTokens
  <2>5. HeaderOf(r) \in Nat
    <3> DEFINE text == clean[r]
    <3>1. text \in Seq(AllLines)  BY <2>2 DEF Texts
    <3>2. HeaderOf(r) = IF roots[r].kind = "sheet_rows" /\ Len(text) >= 2
                           /\ text[1].kind \in {"row", "rule"} /\ text[2].kind = "rule"
                        THEN LineTokens(text[1]) + LineTokens(text[2]) ELSE 0
        BY DEF HeaderOf, TableHeader
    <3> HIDE DEF text
    <3>3. CASE Len(text) >= 2
      <4>1. 1 \in 1 .. Len(text) /\ 2 \in 1 .. Len(text)  BY <3>1, <3>3
      <4>2. text[1] \in AllLines /\ text[2] \in AllLines  BY <3>1, <4>1
      <4>3. LineTokens(text[1]) \in Nat /\ LineTokens(text[2]) \in Nat
          BY <4>2, LineTokensAre
      <4> QED BY <3>2, <4>3
    <3>4. CASE ~(Len(text) >= 2)  BY <3>2, <3>4
    <3> QED BY <3>3, <3>4
  <2>6. captions[r] \in Nat
    <3>1. r \in 1 .. Len(captions)  BY <1>1
    <3> QED BY <1>1, <3>1, ElementOfSeq
  <2> QED BY <2>2, <2>4, <2>5, <2>6
<1> QED BY <1>1, <1>2, <1>5

(* There are no leaves at first. *)
LEMMA SplitStarts == ASSUME Init  PROVE SplitInv
<1>1. <<>> \in Seq(Seq(LeafRecords)) /\ Len(<<>>) = 0 /\ DOMAIN <<>> = {}
    OBVIOUS
<1> QED BY <1>1 DEF Init, SplitInv, Current

(* A root that is begun has its segments; it fails only for its header. *)
LEMMA BeginKeeps == ASSUME LeavesInv, BeginRoot  PROVE SplitInv'
<1> DEFINE n == Current
           header == HeaderOf(n + 1)
           segs == CutOf(clean[n + 1], header)
<1>1. /\ CleanInv /\ stage = "split" /\ start = 0 /\ n < Len(clean) /\ clean # <<>>
    BY DEF LeavesInv, CleanInv, BeginRoot
<1>2. /\ leaves \in Seq(Seq(LeafRecords)) /\ n = Len(leaves) /\ n \in Nat
      /\ \A r \in DOMAIN leaves :
             Linked(leaves[r], HeaderOf(r)) /\ Covered(leaves[r], clean[r])
    BY <1>1 DEF LeavesInv, SplitInv, Current
<1>3. Len(clean) \in Nat /\ n + 1 \in 1 .. Len(clean) /\ DOMAIN clean = 1 .. Len(clean)
    BY <1>1, <1>2, CleanTexts
<1>4. clean[n + 1] \in Texts /\ TextTokens(clean[n + 1]) > 0 /\ header \in Nat
    BY <1>1, <1>3, CleanTexts
<1>5. CASE ~HeaderLeavesRoom(header)
  <2>1. Fail  BY <1>5 DEF BeginRoot
  <2>2. ~RoomForOne(header)
    <3>1. HeaderCost(header) \in Nat /\ MaxTokens \in Nat /\ CountTokens(1) \in Nat
          /\ 1 <= CountTokens(1)
        BY <1>4, HeaderCostIs, Counted, SplittingAssumption
    <3> QED BY <1>5, <3>1 DEF HeaderLeavesRoom, RoomForOne
  <2>3. \E r \in DOMAIN clean : ~RoomForOne(HeaderOf(r))  BY <1>3, <2>2
  <2>4. \E r \in DOMAIN clean' : ~RoomForOne(HeaderOf(r)')
      BY <2>1, <2>3 DEF Fail, HeaderOf
  <2> QED BY <2>1, <2>4 DEF Fail, LeavesInv, SplitInv, HeaderOf, Current
<1>6. CASE HeaderLeavesRoom(header)
  <2>1. /\ segments' = segs /\ start' = 1 /\ leaves' = Append(leaves, <<>>)
        /\ UNCHANGED <<file, stage, roots, captions, clean, page>>
      BY <1>6 DEF BeginRoot, CutOf
  <2>2. Linked(<<>>, header) /\ ShareLittle(<<>>, segs) /\ Unfinished(<<>>, segs, header, 1)
      BY <1>4, RootBegins
  <2> DEFINE longer == Append(leaves, <<>>)
  <2>3. /\ longer \in Seq(Seq(LeafRecords)) /\ Len(longer) = n + 1 /\ DOMAIN longer = 1 .. n + 1
        /\ DOMAIN leaves = 1 .. n
        /\ \A r \in 1 .. n : longer[r] = leaves[r]
        /\ longer[n + 1] = <<>>
      BY <1>2
  <2>4. \A r : HeaderOf(r)' = HeaderOf(r)  BY <2>1 DEF HeaderOf
  <2> HIDE DEF longer, segs, header
  <2>5. Current' = n + 1 /\ leaves' = longer /\ clean' = clean /\ start' = 1 /\ segments' = segs
        /\ stage' = "split"
      BY <1>1, <2>1, <2>3 DEF Current, longer
  <2> HIDE DEF n
  <2>6. ASSUME NEW r \in DOMAIN longer
        PROVE  /\ Linked(longer[r], HeaderOf(r))
               /\ r < n + 1 => Covered(longer[r], clean[r])
    <3>1. CASE r = n + 1  BY <1>2, <2>2, <2>3, <3>1 DEF header
    <3>2. CASE r # n + 1
      <4>1. r \in 1 .. n  BY <1>2, <2>3, <3>2
      <4> QED BY <1>2, <2>3, <4>1
    <3> QED BY <3>1, <3>2
  <2>7. \A r \in DOMAIN leaves' :
            /\ Linked(leaves'[r], HeaderOf(r)')
            /\ r < Current' \/ start' = 0 => Covered(leaves'[r], clean'[r])
      BY <2>4, <2>5, <2>6
  <2>8. /\ leaves' \in Seq(Seq(LeafRecords)) /\ Len(leaves') <= Len(clean') /\ start' \in Nat
      BY <1>1, <1>2, <1>3, <2>3, <2>5
  <2>9. segments' = CutOf(clean'[Current'], HeaderOf(Current)') /\ ShareLittle(leaves'[Current'], segments')
    <3>1. HeaderOf(Current)' = header  BY <2>1, <2>5 DEF HeaderOf, header
    <3> QED BY <2>2, <2>3, <2>5, <3>1 DEF segs
  <2>10. Current' > 0 /\ Unfinished(leaves'[Current'], segments', HeaderOf(Current)', start')
    <3>1. HeaderOf(Current)' = header  BY <2>1, <2>5 DEF HeaderOf, header
    <3> QED BY <1>2, <2>2, <2>3, <2>5, <3>1
  <2> QED BY <2>5, <2>7, <2>8, <2>9, <2>10 DEF SplitInv
<1> QED BY <1>5, <1>6

(* A chunk gives the next leaf; it fails only for the header. *)
LEMMA ChunkKeeps == ASSUME LeavesInv, NextChunk  PROVE SplitInv'
<1> DEFINE n == Current
           header == HeaderOf(n)
           text == clean[n]
           mine == leaves[n]
           segs == CutOf(text, header)
           end == ChunkEnd(segs, header, start)
           leaf == Leaf(ChunkAt(segs, header, start), Len(mine), header, captions[n])
           fails == ChunkFails(segs, header, start) \/ leaf.tokens > MaxTokens
<1>1. CleanInv /\ stage = "split" /\ start > 0 /\ clean # <<>>
    BY DEF LeavesInv, CleanInv, NextChunk
<1>2. /\ leaves \in Seq(Seq(LeafRecords)) /\ n = Len(leaves) /\ n \in Nat /\ start \in Nat
      /\ Len(leaves) <= Len(clean)
      /\ \A r \in DOMAIN leaves :
             /\ Linked(leaves[r], HeaderOf(r))
             /\ r < n => Covered(leaves[r], clean[r])
    BY DEF LeavesInv, SplitInv, Current
<1>3. n > 0 /\ segments = segs /\ ShareLittle(mine, segs) /\ Unfinished(mine, segs, header, start)
    BY <1>1 DEF LeavesInv, SplitInv
<1>4. /\ Len(clean) \in Nat /\ n \in 1 .. Len(clean) /\ DOMAIN clean = 1 .. Len(clean)
      /\ DOMAIN leaves = 1 .. n /\ n \in DOMAIN leaves
  <2>1. Len(clean) \in Nat /\ DOMAIN clean = 1 .. Len(clean)
      BY <1>1, CleanTexts
  <2> QED BY <1>2, <1>3, <2>1
<1>5. text \in Texts /\ header \in Nat /\ captions[n] \in Nat
    BY <1>1, <1>4, CleanTexts
<1>6. Linked(mine, header) /\ mine \in Seq(LeafRecords) /\ Len(mine) \in Nat
  <2>1. Linked(mine, header)  BY <1>2, <1>4
  <2> QED BY <2>1 DEF Linked
<1>7. IF fails THEN Fail
      ELSE /\ leaves' = [leaves EXCEPT ![n] = Append(@, leaf)]
           /\ start' = IF end = Len(segs) THEN 0 ELSE OverlapStart(segs, start, end)
           /\ UNCHANGED <<file, stage, roots, captions, clean, segments, page>>
    BY <1>3 DEF NextChunk, ChunkAt
<1>8. /\ Covering(segs, 0, TextTokens(text)) /\ start \in 1 .. Len(segs)
    BY <1>3, <1>5, CutCovers DEF Unfinished
<1> HIDE DEF segs
<1>9. /\ leaf \in LeafRecords
      /\ leaf.from = segs[start].from /\ leaf.to = segs[end].to
      /\ leaf.tokens = LeafTokens(ChunkAt(segs, header, start), Len(mine), header, captions[n])
  <2> DEFINE ordinal == Len(mine)
             more == captions[n]
  <2>1. ordinal \in Nat /\ more \in Nat /\ header \in Nat  BY <1>5, <1>6
  <2> HIDE DEF n, header, text, mine, leaf, end, ordinal, more
  <2>2. LeafSound(segs, header, start, ordinal, more)  BY <1>8, <2>1, LeafIs
  <2> QED BY <2>2 DEF LeafSound, leaf, end, ordinal, more
<1> HIDE DEF leaf, end
<1>10. CASE fails
  <2>1. Fail  BY <1>7, <1>10
  <2>2. ~RoomForOne(header)
    <3> SUFFICES ASSUME RoomForOne(header)  PROVE FALSE  OBVIOUS
    <3>1. Unfinished(mine, CutOf(text, header), header, start)
        BY <1>3 DEF segs
    <3> HIDE DEF n, header, text, mine
    <3>2. /\ ~ChunkFails(segs, header, start)
          /\ LeafTokens(ChunkAt(segs, header, start), Len(mine), header, captions[n]) <= MaxTokens
        BY <1>5, <1>6, <3>1, ChunkFits DEF segs
    <3>3. leaf.tokens \in Nat /\ MaxTokens \in Nat
        BY <1>9, SplittingAssumption DEF LeafRecords
    <3> QED BY <1>9, <1>10, <3>2, <3>3
  <2>3. \E r \in DOMAIN clean : ~RoomForOne(HeaderOf(r))  BY <1>4, <2>2
  <2>4. \E r \in DOMAIN clean' : ~RoomForOne(HeaderOf(r)')
      BY <2>1, <2>3 DEF Fail, HeaderOf
  <2> QED BY <2>1, <2>4 DEF Fail, LeavesInv, SplitInv, HeaderOf, Current
<1>11. CASE ~fails
  <2> DEFINE longer == Append(mine, leaf)
             after == IF end = Len(segs) THEN 0 ELSE OverlapStart(segs, start, end)
             others == [leaves EXCEPT ![n] = longer]
  <2>1. /\ leaves' = others /\ start' = after
        /\ UNCHANGED <<file, stage, roots, captions, clean, segments, page>>
      BY <1>7, <1>11
  <2>2. ChunkFrom(leaf, segs, header, start)
      BY <1>9, <1>11 DEF ChunkFrom, end
  <2>3. /\ Linked(longer, header) /\ ShareLittle(longer, segs)
        /\ end = Len(segs) => Covered(longer, text)
        /\ end # Len(segs) =>
               /\ Unfinished(longer, segs, header, OverlapStart(segs, start, end))
               /\ OverlapStart(segs, start, end) \in Nat \ {0}
    <3>1. /\ ShareLittle(mine, CutOf(text, header)) /\ Unfinished(mine, CutOf(text, header), header, start)
          /\ ChunkFrom(leaf, CutOf(text, header), header, start)
        BY <1>3, <2>2 DEF segs
    <3> HIDE DEF n, header, text, mine
    <3> QED BY <1>5, <1>6, <1>9, <3>1, ChunkLinks DEF segs, end
  <2>4. after \in Nat /\ (after > 0 => Unfinished(longer, segs, header, after))
        /\ (after = 0 => Covered(longer, text))
      BY <2>3
  <2>5. longer \in Seq(LeafRecords)  BY <2>3 DEF Linked
  <2>6. /\ others \in Seq(Seq(LeafRecords)) /\ Len(others) = Len(leaves) /\ DOMAIN others = 1 .. n
        /\ \A r \in DOMAIN leaves \ {n} : others[r] = leaves[r]
        /\ others[n] = longer
    <3> HIDE DEF longer, n
    <3>1. /\ others \in Seq(Seq(LeafRecords)) /\ Len(others) = Len(leaves)
          /\ \A r \in DOMAIN leaves \ {n} : others[r] = leaves[r]
          /\ others[n] = longer
        BY <1>2, <1>4, <2>5, OneReplaced
    <3>2. DOMAIN others = DOMAIN leaves  OBVIOUS
    <3> QED BY <1>4, <3>1, <3>2
  <2>7. \A r : HeaderOf(r)' = HeaderOf(r)  BY <2>1 DEF HeaderOf
  <2>8. /\ Current' = n /\ HeaderOf(Current)' = header
    <3>1. Current' = n  BY <1>2, <2>1, <2>6 DEF Current
    <3> QED BY <2>1, <3>1 DEF HeaderOf
  <2> HIDE DEF longer, after, others
  <2>9. ASSUME NEW r \in DOMAIN others
        PROVE  /\ Linked(others[r], HeaderOf(r))
               /\ r < n \/ after = 0 => Covered(others[r], clean[r])
    <3>1. CASE r = n  BY <1>2, <2>3, <2>4, <2>6, <3>1
    <3>2. CASE r # n
      <4>1. r \in DOMAIN leaves \ {n} /\ r < n /\ others[r] = leaves[r]
          BY <1>2, <1>4, <2>6, <3>2
      <4> QED BY <1>2, <4>1
    <3> QED BY <3>1, <3>2
  <2> HIDE DEF n, header, text, mine
  <2>10. \A r \in DOMAIN leaves' :
             /\ Linked(leaves'[r], HeaderOf(r)')
             /\ r < Current' \/ start' = 0 => Covered(leaves'[r], clean'[r])
      BY <2>1, <2>7, <2>8, <2>9
  <2>11. leaves' \in Seq(Seq(LeafRecords)) /\ Len(leaves') <= Len(clean') /\ start' \in Nat
      BY <1>2, <2>1, <2>4, <2>6
  <2>12. segments' = CutOf(clean'[Current'], HeaderOf(Current)') /\ ShareLittle(leaves'[Current'], segments')
      BY <1>3, <2>1, <2>3, <2>6, <2>8 DEF segs, text
  <2>13. start' > 0 => Current' > 0 /\ Unfinished(leaves'[Current'], segments', HeaderOf(Current)', start')
      BY <1>3, <2>1, <2>4, <2>6, <2>8
  <2>14. stage' # "failed"  BY <1>1, <2>1
  <2> QED BY <2>10, <2>11, <2>12, <2>13, <2>14 DEF SplitInv
<1> QED BY <1>10, <1>11

(* Every step keeps the invariant. *)
LEMMA LeavesStay == ASSUME LeavesInv, [Next]_vars  PROVE LeavesInv'
<1>1. CleanInv'  BY CleanStays DEF LeavesInv
<1>2. CleanInv /\ SplitInv  BY DEF LeavesInv
<1> SUFFICES SplitInv'  BY <1>1 DEF LeavesInv
<1>3. ASSUME stage \in {"load", "images"}, leaves' = leaves, start' = start,
             stage' = "failed" => clean' = clean
      PROVE  SplitInv'
  <2>1. clean = <<>> /\ leaves = <<>> /\ start = 0  BY <1>2, <1>3 DEF CleanInv
  <2>2. Len(clean') \in Nat
    <3>1. CASE clean' = <<>>  BY <3>1
    <3>2. CASE clean' # <<>>
      <4>1. Len(clean') = Len(roots') /\ roots' \in Seq(LoadedRoots)
          BY <1>1, <3>2 DEF CleanInv, LoadedInv, Washed
      <4> QED BY <4>1
    <3> QED BY <3>1, <3>2
  <2>3. <<>> \in Seq(Seq(LeafRecords)) /\ Len(<<>>) = 0 /\ DOMAIN <<>> = {}
      OBVIOUS
  <2> QED BY <1>3, <2>1, <2>2, <2>3 DEF SplitInv, Current
<1>4. CASE Load  BY <1>3, <1>4 DEF Load, Fail
<1>5. CASE LoadPage
  <2>1. clean' = clean /\ stage = "load" /\ leaves' = leaves /\ start' = start
      BY <1>5 DEF LoadPage
  <2> QED BY <1>3, <2>1
<1>6. CASE LoadLastPage  BY <1>3, <1>6 DEF LoadLastPage, Fail
<1>7. CASE EnrichRoot  BY <1>3, <1>7 DEF EnrichRoot
<1>8. CASE Clean
  <2>1. stage = "images" /\ leaves' = leaves /\ start' = start /\ (stage' = "failed" => clean' = clean)
      BY <1>8 DEF Clean, Fail
  <2> QED BY <1>3, <2>1
<1>9. ASSUME UNCHANGED <<roots, clean, segments, start, leaves>>,
             stage' = "failed" => stage = "failed"
      PROVE  SplitInv'
    BY <1>2, <1>9 DEF SplitInv, HeaderOf, Current
<1>10. CASE BeginRoot  BY <1>10, BeginKeeps
<1>11. CASE NextChunk  BY <1>11, ChunkKeeps
<1>12. CASE Finish
  <2>1. UNCHANGED <<roots, clean, segments, start, leaves>> /\ stage' = "done"
      BY <1>12 DEF Finish
  <2> QED BY <1>9, <2>1
<1>13. CASE UNCHANGED vars  BY <1>9, <1>13 DEF vars
<1> QED BY <1>4, <1>5, <1>6, <1>7, <1>8, <1>10, <1>11, <1>12, <1>13 DEF Next

(* The invariant of the leaves is what the property asks for. *)
LEMMA InvLeavesCover == ASSUME LeavesInv  PROVE LeavesCover
<1>1. NoGap
  <2> SUFFICES ASSUME NEW r \in DOMAIN leaves
               PROVE  LET mine == leaves[r] IN
                      /\ \A k \in DOMAIN mine : k > 1 =>
                             /\ mine[k].from <= mine[k - 1].to
                             /\ mine[k].from > mine[k - 1].from
                             /\ HeaderOf(r) = 0 => mine[k].to >= mine[k - 1].to
                             /\ OverlapTokens = 0 => mine[k].from = mine[k - 1].to
                      /\ mine # <<>> => mine[1].from = 0
                      /\ (r < Current \/ start = 0) /\ stage # "failed" =>
                             mine # <<>> /\ Last(mine).to = TextTokens(clean[r])
      BY DEF NoGap
  <2>1. /\ Linked(leaves[r], HeaderOf(r))
        /\ r < Current \/ start = 0 => Covered(leaves[r], clean[r])
      BY DEF LeavesInv, SplitInv
  <2> QED BY <2>1 DEF Linked, Covered, Last
<1>2. OverlapBounded
  <2>1. Current > 0 => ShareLittle(leaves[Current], segments)
      BY DEF LeavesInv, SplitInv
  <2> QED BY <2>1 DEF OverlapBounded, ShareLittle, SharesLittle
<1>3. SplitOnlyFailsOnHeader
  <2> SUFFICES ASSUME stage = "failed", clean # <<>>
               PROVE  \E r \in DOMAIN clean : HeaderCost(HeaderOf(r)) + CountTokens(1) > MaxTokens
      BY DEF SplitOnlyFailsOnHeader
  <2>1. PICK r \in DOMAIN clean : ~RoomForOne(HeaderOf(r))
      BY DEF LeavesInv, SplitInv
  <2>2. CleanInv  BY DEF LeavesInv
  <2>3. r \in 1 .. Len(clean) /\ HeaderOf(r) \in Nat
      BY <2>1, <2>2, CleanTexts
  <2>4. HeaderCost(HeaderOf(r)) \in Nat /\ CountTokens(1) \in Nat /\ MaxTokens \in Nat
      BY <2>3, HeaderCostIs, Counted, SplittingAssumption
  <2>5. HeaderCost(HeaderOf(r)) + CountTokens(1) > MaxTokens
      BY <2>1, <2>4 DEF RoomForOne
  <2> QED BY <2>5
<1> QED BY <1>1, <1>2, <1>3 DEF LeavesCover

(* The leaves of a root cover its text from the first token to the last, in
   order and without a gap, neighbours share no more than the overlap allows, and
   splitting fails only for a table header that leaves no room
   (adapters/splitters/structure_aware.py split, for all texts and budgets). *)
THEOREM SplittingLosesNothing == Spec => []LeavesCover
<1>1. Init => LeavesInv  BY CleanStarts, SplitStarts DEF LeavesInv
<1>2. LeavesInv /\ [Next]_vars => LeavesInv'  BY LeavesStay
<1>3. LeavesInv => LeavesCover  BY InvLeavesCover
<1> QED BY <1>1, <1>2, <1>3, PTL DEF Spec
=============================================================================
