--------------------------- MODULE ClusteringProofs ---------------------------
(***************************************************************************)
(* Proofs about Clustering: the storm rule is fair, bisecting the          *)
(* footprint counts the beams of all pending trials, the clusters and      *)
(* labels account for every clustered trial, the row for every trial that  *)
(* came, the reason read from it for a miss is the true one, and the order *)
(* of the batches moves borders only.                                      *)
(***************************************************************************)
EXTENDS Clustering, FiniteSetTheorems, SequenceTheorems, TLAPS

(***************************************************************************)
(* Finite sets in a strict total order                                     *)
(***************************************************************************)
Ordered(R, S) ==
  /\ \A x \in S : <<x, x>> \notin R
  /\ \A x, y \in S : x # y => <<x, y>> \in R \/ <<y, x>> \in R
  /\ \A x, y, z \in S : <<x, y>> \in R /\ <<y, z>> \in R => <<x, z>> \in R

Below(R, S, x) == {y \in S : <<y, x>> \in R}
Rank(R, S, x) == Cardinality(Below(R, S, x))

LEMMA RankType ==
  ASSUME NEW S, IsFiniteSet(S), NEW R, Ordered(R, S), NEW x \in S
  PROVE  Rank(R, S, x) \in 0 .. Cardinality(S) - 1
<1>1. Below(R, S, x) \subseteq S \ {x}
  BY DEF Ordered, Below
<1>2. IsFiniteSet(S \ {x}) /\ Cardinality(S \ {x}) = Cardinality(S) - 1
  BY FS_RemoveElement
<1>3. /\ IsFiniteSet(Below(R, S, x))
      /\ Cardinality(Below(R, S, x)) <= Cardinality(S \ {x})
  BY <1>1, <1>2, FS_Subset
<1>4. Cardinality(Below(R, S, x)) \in Nat /\ Cardinality(S) \in Nat
  BY <1>3, FS_CardinalityType
<1> QED
  BY <1>2, <1>3, <1>4 DEF Rank

LEMMA RankOrders ==
  ASSUME NEW S, IsFiniteSet(S), NEW R, Ordered(R, S), NEW x \in S, NEW y \in S,
         <<x, y>> \in R
  PROVE  Rank(R, S, x) < Rank(R, S, y)
<1> DEFINE A == Below(R, S, x)
           B == Below(R, S, y)
<1>1. A \subseteq B /\ x \in B /\ x \notin A
  BY DEF Ordered, Below
<1>2. IsFiniteSet(A) /\ IsFiniteSet(B)
  BY FS_Subset DEF Below
<1>3. Cardinality(A) \in Nat /\ Cardinality(B) \in Nat
  BY <1>2, FS_CardinalityType
<1> HIDE DEF A, B
<1>4. Cardinality(A) <= Cardinality(B) /\ Cardinality(A) # Cardinality(B)
  <2>1. Cardinality(A) <= Cardinality(B) /\ (Cardinality(B) = Cardinality(A) => B = A)
    BY <1>1, <1>2, FS_Subset
  <2> QED
    BY <1>1, <2>1
<1>5. Cardinality(A) < Cardinality(B)
  BY <1>3, <1>4
<1> QED
  BY <1>5 DEF Rank, A, B

\* The ranks are 0, 1, ... in the order of R.
LEMMA Ranks ==
  ASSUME NEW S, IsFiniteSet(S), NEW R, Ordered(R, S)
  PROVE  /\ Cardinality(S) \in Nat
         /\ \A x \in S : Rank(R, S, x) \in 0 .. Cardinality(S) - 1
         /\ \A x, y \in S : <<x, y>> \in R <=> Rank(R, S, x) < Rank(R, S, y)
         /\ \A x, y \in S : Rank(R, S, x) = Rank(R, S, y) => x = y
         /\ \A n \in 0 .. Cardinality(S) - 1 : \E x \in S : Rank(R, S, x) = n
<1>1. Cardinality(S) \in Nat
  BY FS_CardinalityType
<1>2. \A x \in S : Rank(R, S, x) \in 0 .. Cardinality(S) - 1
  BY RankType
<1>3. \A x, y \in S : <<x, y>> \in R => Rank(R, S, x) < Rank(R, S, y)
  BY RankOrders
<1>4. \A x, y \in S : Rank(R, S, x) = Rank(R, S, y) => x = y
  <2> SUFFICES ASSUME NEW x \in S, NEW y \in S, x # y
               PROVE  Rank(R, S, x) # Rank(R, S, y)
    OBVIOUS
  <2>1. <<x, y>> \in R \/ <<y, x>> \in R
    BY DEF Ordered
  <2>2. Rank(R, S, x) \in Int /\ Rank(R, S, y) \in Int
    BY <1>1, <1>2
  <2>3. Rank(R, S, x) < Rank(R, S, y) \/ Rank(R, S, y) < Rank(R, S, x)
    BY <1>3, <2>1
  <2> QED
    BY <2>2, <2>3
<1>5. \A x, y \in S : Rank(R, S, x) < Rank(R, S, y) => <<x, y>> \in R
  <2> SUFFICES ASSUME NEW x \in S, NEW y \in S, <<x, y>> \notin R
               PROVE  ~ (Rank(R, S, x) < Rank(R, S, y))
    OBVIOUS
  <2>1. Rank(R, S, x) \in Int /\ Rank(R, S, y) \in Int
    BY <1>1, <1>2
  <2>2. x = y \/ Rank(R, S, y) < Rank(R, S, x)
    BY <1>3 DEF Ordered
  <2> QED
    BY <2>1, <2>2
<1>6. \A n \in 0 .. Cardinality(S) - 1 : \E x \in S : Rank(R, S, x) = n
  <2> DEFINE N == 0 .. Cardinality(S) - 1
             f == [x \in S |-> Rank(R, S, x)]
  <2>1. IsFiniteSet(N) /\ Cardinality(N) = Cardinality(S)
    BY <1>1, FS_Interval
  <2>2. f \in Injection(S, N)
    BY <1>2, <1>4 DEF Injection, IsInjective
  <2>3. f \in Surjection(S, N)
    <3> HIDE DEF N, f
    <3> QED
      BY <2>1, <2>2, FS_Injection
  <2> QED
    BY <2>3 DEF Surjection
<1> QED
  BY <1>1, <1>2, <1>3, <1>4, <1>5, <1>6

\* What Sorted computes, of a relation.
Listed(R, S) ==
  LET placed == {<<Cardinality(Below(R, S, i)) + 1, i>> : i \in S}
  IN [n \in 1 .. Cardinality(S) |-> (CHOOSE p \in placed : p[1] = n)[2]]

LEMMA ListedByRank ==
  ASSUME NEW S, IsFiniteSet(S), NEW R, Ordered(R, S), NEW n \in 1 .. Cardinality(S)
  PROVE  Listed(R, S)[n] \in S /\ Rank(R, S, Listed(R, S)[n]) = n - 1
<1> DEFINE placed == {<<Cardinality(Below(R, S, i)) + 1, i>> : i \in S}
<1>1. PICK p : p = CHOOSE q \in placed : q[1] = n
  OBVIOUS
<1>2. Listed(R, S)[n] = p[2]
  BY <1>1 DEF Listed
<1>3. n - 1 \in 0 .. Cardinality(S) - 1
  BY Ranks
<1>4. PICK x \in S : Rank(R, S, x) = n - 1
  BY <1>3, Ranks
<1>5. \E q \in placed : q[1] = n
  <2>1. Cardinality(Below(R, S, x)) + 1 = n
    BY <1>3, <1>4, Ranks DEF Rank
  <2>2. <<Cardinality(Below(R, S, x)) + 1, x>> \in placed
    OBVIOUS
  <2> QED
    BY <2>1, <2>2
<1>6. p \in placed /\ p[1] = n
  BY <1>1, <1>5
<1>7. PICK i \in S : p = <<Cardinality(Below(R, S, i)) + 1, i>>
  BY <1>6
<1>8. p[2] = i /\ Rank(R, S, i) + 1 = n
  BY <1>6, <1>7 DEF Rank
<1>9. Rank(R, S, i) \in Int
  BY RankType, Ranks
<1> QED
  BY <1>2, <1>8, <1>9

\* Sorting: each element once, in order.
LEMMA ListedSorts ==
  ASSUME NEW S, IsFiniteSet(S), NEW R, Ordered(R, S)
  PROVE  /\ Cardinality(S) \in Nat
         /\ Listed(R, S) \in [1 .. Cardinality(S) -> S]
         /\ \A m, n \in 1 .. Cardinality(S) :
              m < n => <<Listed(R, S)[m], Listed(R, S)[n]>> \in R
         /\ \A x \in S : \E n \in 1 .. Cardinality(S) : Listed(R, S)[n] = x
         /\ \A m, n \in 1 .. Cardinality(S) : Listed(R, S)[m] = Listed(R, S)[n] => m = n
<1> DEFINE L == Listed(R, S)
<1>1. Cardinality(S) \in Nat
  BY FS_CardinalityType
<1>2. \A n \in 1 .. Cardinality(S) : L[n] \in S /\ Rank(R, S, L[n]) = n - 1
  BY ListedByRank
<1>3. L \in [1 .. Cardinality(S) -> S]
  <2>1. \A n \in DOMAIN L : L[n] \in S
    BY <1>2 DEF Listed
  <2>2. L = [n \in DOMAIN L |-> L[n]] /\ DOMAIN L = 1 .. Cardinality(S)
    BY DEF Listed
  <2> HIDE DEF L
  <2> QED
    BY <2>1, <2>2
<1> HIDE DEF L
<1>4. \A m, n \in 1 .. Cardinality(S) : m < n => <<L[m], L[n]>> \in R
  <2> SUFFICES ASSUME NEW m \in 1 .. Cardinality(S), NEW n \in 1 .. Cardinality(S), m < n
               PROVE  <<L[m], L[n]>> \in R
    OBVIOUS
  <2>1. L[m] \in S /\ L[n] \in S /\ Rank(R, S, L[m]) < Rank(R, S, L[n])
    BY <1>1, <1>2
  <2> QED
    BY <2>1, Ranks
<1>5. \A x \in S : \E n \in 1 .. Cardinality(S) : L[n] = x
  <2> SUFFICES ASSUME NEW x \in S
               PROVE  \E n \in 1 .. Cardinality(S) : L[n] = x
    OBVIOUS
  <2>1. PICK r : r = Rank(R, S, x)
    OBVIOUS
  <2>2. r \in 0 .. Cardinality(S) - 1
    BY <2>1, RankType
  <2>3. r + 1 \in 1 .. Cardinality(S) /\ (r + 1) - 1 = r
    BY <1>1, <2>2
  <2>4. L[r + 1] \in S /\ Rank(R, S, L[r + 1]) = Rank(R, S, x)
    BY <1>2, <2>1, <2>3
  <2>5. L[r + 1] = x
    BY <2>4, Ranks
  <2> QED
    BY <2>3, <2>5
<1>6. \A m, n \in 1 .. Cardinality(S) : L[m] = L[n] => m = n
  BY <1>1, <1>2
<1> QED
  BY <1>1, <1>3, <1>4, <1>5, <1>6 DEF L

\* The first n of S.
First(R, S, n) == {x \in S : Rank(R, S, x) < n}

LEMMA FirstCounts ==
  ASSUME NEW S, IsFiniteSet(S), NEW R, Ordered(R, S), NEW n \in Nat
  PROVE  /\ IsFiniteSet(First(R, S, n)) /\ Cardinality(First(R, S, n)) <= n
         /\ First(R, S, n) \subseteq S
         /\ \A x \in First(R, S, n), y \in S : <<y, x>> \in R => y \in First(R, S, n)
         /\ S # {} /\ n > 0 => \E x \in First(R, S, n) : TRUE
<1> DEFINE F == First(R, S, n)
           N == 0 .. n - 1
           f == [x \in F |-> Rank(R, S, x)]
<1>1. F \subseteq S /\ \A x \in F : Rank(R, S, x) < n
  BY DEF First
<1>2. IsFiniteSet(N) /\ Cardinality(N) = n
  BY FS_Interval
<1>3. f \in Injection(F, N)
  <2>1. \A x \in F : Rank(R, S, x) \in N
    BY <1>1, Ranks
  <2>2. \A x, y \in F : Rank(R, S, x) = Rank(R, S, y) => x = y
    BY <1>1, Ranks
  <2> HIDE DEF F, N
  <2> QED
    BY <2>1, <2>2 DEF Injection, IsInjective
<1>4. IsFiniteSet(F) /\ Cardinality(F) <= n
  <2> HIDE DEF F, N, f
  <2> QED
    BY <1>2, <1>3, FS_Injection
<1>5. ASSUME NEW x \in F, NEW y \in S, <<y, x>> \in R
      PROVE  y \in F
  <2>1. Rank(R, S, y) < Rank(R, S, x) /\ Rank(R, S, x) < n
    BY <1>1, <1>5, Ranks
  <2>2. Rank(R, S, y) \in Int /\ Rank(R, S, x) \in Int
    BY <1>1, Ranks
  <2> QED
    BY <2>1, <2>2 DEF First
<1>6. ASSUME S # {}, n > 0
      PROVE  \E x \in F : TRUE
  <2>1. Cardinality(S) \in Nat \ {0}
    BY <1>6, Ranks, FS_EmptySet
  <2>2. 0 \in 0 .. Cardinality(S) - 1
    BY <2>1
  <2>3. PICK x \in S : Rank(R, S, x) = 0
    BY <2>2, Ranks
  <2> QED
    BY <1>6, <2>3 DEF First
<1> QED
  BY <1>1, <1>4, <1>5, <1>6

-----------------------------------------------------------------------------
(***************************************************************************)
(* The storm cap                                                           *)
(***************************************************************************)

\* The definitions within ApplyStormCap.
InBeam(trials, S, b) == {i \in S : trials[i].beam = b}
BeamsIn(trials) == {trials[i].beam : i \in DOMAIN trials}
Seen(trials) == [b \in BeamsIn(trials) |-> Min(InBeam(trials, DOMAIN trials, b))]
Better(trials, j, i) ==
  trials[j].snr > trials[i].snr \/ (trials[j].snr = trials[i].snr /\ j < i)
BetterInSky(trials, j, i) ==
  \/ trials[j].snr > trials[i].snr
  \/ /\ trials[j].snr = trials[i].snr
     /\ \/ Seen(trials)[trials[j].beam] < Seen(trials)[trials[i].beam]
        \/ trials[j].beam = trials[i].beam /\ j < i
Survivors(trials, cap) ==
  UNION {FirstOf(InBeam(trials, DOMAIN trials, b), Quota(cap),
                 LAMBDA j, i : Better(trials, j, i)) : b \in BeamsIn(trials)}
Floors(trials, S) ==
  UNION {FirstOf(InBeam(trials, S, b), Floor, LAMBDA j, i : Better(trials, j, i)) :
         b \in BeamsIn(trials)}
Kept(trials, cap) ==
  IF Cardinality(Survivors(trials, cap)) <= cap THEN Survivors(trials, cap)
  ELSE FirstOf(Survivors(trials, cap), cap, LAMBDA j, i : BetterInSky(trials, j, i))
         \union Floors(trials, Survivors(trials, cap))

\* The survivors keep their order.
InPlace(S) == Sorted(S, <)

LEMMA StormCapIs ==
  ASSUME NEW trials, NEW cap
  PROVE  ApplyStormCap(trials, cap) =
           IF cap <= 0 \/ Len(trials) <= cap THEN trials
           ELSE At(trials, Kept(trials, cap))
  BY DEF ApplyStormCap, Kept, Survivors, Floors, FirstOf, Better, BetterInSky, Seen,
         BeamsIn, InBeam

BySnr(trials, S) == {p \in S \X S : Better(trials, p[1], p[2])}
BySky(trials, S) == {p \in S \X S : BetterInSky(trials, p[1], p[2])}
InOrderOfPlace(S) == {p \in S \X S : p[1] < p[2]}

LEMMA FirstOfSnr ==
  ASSUME NEW trials, NEW S, NEW n
  PROVE  FirstOf(S, n, LAMBDA j, i : Better(trials, j, i)) = First(BySnr(trials, S), S, n)
<1>1. ASSUME NEW i \in S
      PROVE  {j \in S : Better(trials, j, i)} = Below(BySnr(trials, S), S, i)
  BY DEF BySnr, Below
<1> QED
  BY <1>1 DEF FirstOf, First, Rank

LEMMA FirstOfSky ==
  ASSUME NEW trials, NEW S, NEW n
  PROVE  FirstOf(S, n, LAMBDA j, i : BetterInSky(trials, j, i)) = First(BySky(trials, S), S, n)
<1>1. ASSUME NEW i \in S
      PROVE  {j \in S : BetterInSky(trials, j, i)} = Below(BySky(trials, S), S, i)
  BY DEF BySky, Below
<1> QED
  BY <1>1 DEF FirstOf, First, Rank

LEMMA SortedIs ==
  ASSUME NEW S
  PROVE  InPlace(S) = Listed(InOrderOfPlace(S), S)
<1>1. PICK A : A = {<<Cardinality({j \in S : j < i}) + 1, i>> : i \in S}
  OBVIOUS
<1>2. PICK B : B = {<<Cardinality(Below(InOrderOfPlace(S), S, i)) + 1, i>> : i \in S}
  OBVIOUS
<1>3. A = B
  <2>1. ASSUME NEW i \in S
        PROVE  {j \in S : j < i} = Below(InOrderOfPlace(S), S, i)
    BY DEF InOrderOfPlace, Below
  <2> QED
    BY <1>1, <1>2, <2>1
<1>4. InPlace(S) = [n \in 1 .. Cardinality(S) |-> (CHOOSE p \in A : p[1] = n)[2]]
  BY <1>1 DEF InPlace, Sorted
<1>5. Listed(InOrderOfPlace(S), S)
        = [n \in 1 .. Cardinality(S) |-> (CHOOSE p \in B : p[1] = n)[2]]
  BY <1>2 DEF Listed
<1> QED
  BY <1>3, <1>4, <1>5

LEMMA TrialFields ==
  ASSUME NEW trials \in Seq(Trial), NEW i \in DOMAIN trials
  PROVE  /\ i \in Nat \ {0} /\ trials[i] \in Trial
         /\ trials[i].snr \in Nat /\ trials[i].beam \in Nat /\ trials[i].samp \in Int
         /\ trials[i].width \in Nat
<1>1. DOMAIN trials = 1 .. Len(trials) /\ Len(trials) \in Nat
  OBVIOUS
<1>2. i \in Nat \ {0} /\ trials[i] \in Trial
  BY <1>1, ElementOfSeq
<1> QED
  BY <1>2 DEF Trial

LEMMA PlacesFinite ==
  ASSUME NEW trials \in Seq(Trial)
  PROVE  IsFiniteSet(DOMAIN trials) /\ Cardinality(DOMAIN trials) = Len(trials)
<1>1. DOMAIN trials = 1 .. Len(trials) /\ Len(trials) \in Nat
  OBVIOUS
<1> QED
  BY <1>1, FS_Interval

LEMMA SnrOrders ==
  ASSUME NEW trials \in Seq(Trial), NEW S \in SUBSET (DOMAIN trials)
  PROVE  Ordered(BySnr(trials, S), S)
<1>1. \A i \in S : i \in Nat /\ trials[i].snr \in Nat
  BY TrialFields
<1>2. \A i, j \in S : <<j, i>> \in BySnr(trials, S) <=> Better(trials, j, i)
  BY DEF BySnr
<1>3. \A i \in S : ~ Better(trials, i, i)
  BY <1>1 DEF Better
<1>4. \A i, j \in S : i # j => Better(trials, i, j) \/ Better(trials, j, i)
  BY <1>1 DEF Better
<1>5. \A i, j, k \in S : Better(trials, i, j) /\ Better(trials, j, k) => Better(trials, i, k)
  BY <1>1 DEF Better
<1> QED
  BY <1>2, <1>3, <1>4, <1>5 DEF Ordered

\* The least of a set of naturals.
LEMMA MinOfNats ==
  ASSUME NEW S \in SUBSET Nat, S # {}
  PROVE  Min(S) \in S /\ \A n \in S : Min(S) <= n
<1> DEFINE R == {p \in Nat \X Nat : p[1] < p[2]}
<1>1. IsWellFoundedOn(R, Nat)
  <2>1. R = OpToRel(<, Nat)
    BY DEF OpToRel
  <2> QED
    BY <2>1, NatLessThanWellFounded
<1>2. PICK m \in S : \A n \in S : <<n, m>> \notin R
  <2> HIDE DEF R
  <2> QED
    BY <1>1, WFMin
<1>3. ASSUME NEW n \in S
      PROVE  m <= n
  <2>1. m \in Nat /\ n \in Nat /\ <<n, m>> \in Nat \X Nat /\ <<n, m>> \notin R
    BY <1>2
  <2>2. ~ (n < m)
    BY <2>1
  <2> QED
    BY <2>1, <2>2
<1> QED
  BY <1>3 DEF Min

LEMMA SeenApart ==
  ASSUME NEW trials \in Seq(Trial)
  PROVE  /\ \A b \in BeamsIn(trials) : Seen(trials)[b] \in Nat
         /\ \A b, c \in BeamsIn(trials) : Seen(trials)[b] = Seen(trials)[c] => b = c
<1>1. ASSUME NEW b \in BeamsIn(trials)
      PROVE  Seen(trials)[b] \in InBeam(trials, DOMAIN trials, b)
  <2>1. InBeam(trials, DOMAIN trials, b) # {}
    BY DEF BeamsIn, InBeam
  <2>2. InBeam(trials, DOMAIN trials, b) \in SUBSET Nat
    BY TrialFields DEF InBeam
  <2> QED
    BY <2>1, <2>2, MinOfNats DEF Seen
<1> QED
  BY <1>1, TrialFields DEF InBeam

LEMMA SkyOrders ==
  ASSUME NEW trials \in Seq(Trial), NEW S \in SUBSET (DOMAIN trials)
  PROVE  Ordered(BySky(trials, S), S)
<1> DEFINE seen(i) == Seen(trials)[trials[i].beam]
<1>1. \A i \in S : i \in Nat /\ trials[i].snr \in Nat
  BY TrialFields
<1>2. \A i, j \in S : <<j, i>> \in BySky(trials, S) <=> BetterInSky(trials, j, i)
  BY DEF BySky
<1>3. \A i \in S : trials[i].beam \in BeamsIn(trials) /\ seen(i) \in Nat
  BY SeenApart DEF BeamsIn
<1>4. \A i, j \in S : seen(i) = seen(j) <=> trials[i].beam = trials[j].beam
  BY <1>3, SeenApart
<1>5. \A i, j \in S : BetterInSky(trials, j, i) <=>
        \/ trials[j].snr > trials[i].snr
        \/ /\ trials[j].snr = trials[i].snr
           /\ seen(j) < seen(i) \/ (seen(j) = seen(i) /\ j < i)
  BY <1>4 DEF BetterInSky
<1> HIDE DEF seen
<1>6. \A i \in S : ~ BetterInSky(trials, i, i)
  BY <1>1, <1>3, <1>5
<1>7. \A i, j \in S : i # j => BetterInSky(trials, i, j) \/ BetterInSky(trials, j, i)
  BY <1>1, <1>3, <1>5
<1>8. \A i, j, k \in S : BetterInSky(trials, i, j) /\ BetterInSky(trials, j, k)
                           => BetterInSky(trials, i, k)
  BY <1>1, <1>3, <1>5
<1> QED
  BY <1>2, <1>6, <1>7, <1>8 DEF Ordered

LEMMA QuotaType ==
  ASSUME NEW cap \in Int
  PROVE  Quota(cap) \in Nat \ {0}
<1>1. PICK n \in Int : n = (cap + Divisor - 1) \div Divisor
  BY CapAssumption
<1>2. \E m \in {1, n} : \A k \in {1, n} : m >= k
  BY <1>1, SMT
<1>3. Max({1, n}) \in {1, n} /\ Max({1, n}) >= 1
  BY <1>2 DEF Max
<1> QED
  BY <1>1, <1>3 DEF Quota

LEMMA BeamsFinite ==
  ASSUME NEW trials \in Seq(Trial)
  PROVE  /\ IsFiniteSet(BeamsIn(trials)) /\ Cardinality(BeamsIn(trials)) \in Nat
         /\ BeamsIn(trials) = Beams(trials)
<1> DEFINE f == [i \in DOMAIN trials |-> trials[i].beam]
<1>1. f \in Surjection(DOMAIN trials, BeamsIn(trials))
  BY DEF Surjection, BeamsIn
<1>2. IsFiniteSet(DOMAIN trials)
  BY PlacesFinite
<1>3. IsFiniteSet(BeamsIn(trials))
  <2> HIDE DEF f
  <2> QED
    BY <1>1, <1>2, FS_Surjection
<1> QED
  BY <1>3, FS_CardinalityType DEF BeamsIn, Beams, Range

\* The best n of each beam among S.
BestOfBeams(trials, S, n) ==
  UNION {FirstOf(InBeam(trials, S, b), n, LAMBDA j, i : Better(trials, j, i)) :
         b \in BeamsIn(trials)}

LEMMA BestOfBeamsIs ==
  ASSUME NEW trials, NEW S \in SUBSET (DOMAIN trials), NEW n
  PROVE  BestOfBeams(trials, S, n) =
           {i \in S : Rank(BySnr(trials, InBeam(trials, S, trials[i].beam)),
                           InBeam(trials, S, trials[i].beam), i) < n}
<1> DEFINE B(b) == InBeam(trials, S, b)
<1>1. BestOfBeams(trials, S, n)
        = UNION {First(BySnr(trials, B(b)), B(b), n) : b \in BeamsIn(trials)}
  BY FirstOfSnr DEF BestOfBeams
<1>2. \A b : First(BySnr(trials, B(b)), B(b), n)
               = {i \in B(b) : Rank(BySnr(trials, B(b)), B(b), i) < n}
  BY DEF First
<1>3. \A i, b : i \in B(b) <=> i \in S /\ trials[i].beam = b
  BY DEF InBeam
<1>4. \A i \in S : trials[i].beam \in BeamsIn(trials)
  BY DEF BeamsIn
<1> HIDE DEF B
<1>5. UNION {First(BySnr(trials, B(b)), B(b), n) : b \in BeamsIn(trials)}
        = {i \in S : Rank(BySnr(trials, B(trials[i].beam)), B(trials[i].beam), i) < n}
  BY <1>2, <1>3, <1>4
<1> QED
  BY <1>1, <1>5 DEF B

\* A quota for each beam keeps the best of each, nothing weaker than what it
\* sheds of the beam, and no more than the quotas of all beams.
LEMMA BestOfBeamsFair ==
  ASSUME NEW trials \in Seq(Trial), NEW S \in SUBSET (DOMAIN trials), NEW n \in Nat \ {0}
  PROVE  LET K == BestOfBeams(trials, S, n) IN
         /\ K \subseteq S
         /\ \A i \in S : \E j \in K : trials[j].beam = trials[i].beam
         /\ \A i \in K, j \in S : trials[j].beam = trials[i].beam /\ Better(trials, j, i)
                                    => j \in K
         /\ IsFiniteSet(K) /\ Cardinality(K) <= n * Cardinality(BeamsIn(trials))
<1> DEFINE K == BestOfBeams(trials, S, n)
           B(b) == InBeam(trials, S, b)
           rank(i) == Rank(BySnr(trials, B(trials[i].beam)), B(trials[i].beam), i)
<1>1. K = {i \in S : rank(i) < n}
  BY BestOfBeamsIs
<1>2. \A b : B(b) \subseteq S /\ IsFiniteSet(B(b)) /\ Ordered(BySnr(trials, B(b)), B(b))
  <2> SUFFICES ASSUME NEW b
               PROVE  B(b) \subseteq S /\ IsFiniteSet(B(b)) /\ Ordered(BySnr(trials, B(b)), B(b))
    OBVIOUS
  <2>1. B(b) \subseteq S /\ B(b) \in SUBSET (DOMAIN trials)
    BY DEF InBeam
  <2> QED
    BY <2>1, PlacesFinite, FS_Subset, SnrOrders
<1>3. \A i \in S : i \in B(trials[i].beam)
  BY DEF InBeam
<1>4. \A b, i : i \in B(b) => i \in S /\ trials[i].beam = b
  BY DEF InBeam
<1>5. ASSUME NEW i \in S
      PROVE  \E j \in K : trials[j].beam = trials[i].beam
  <2>1. PICK b : b = trials[i].beam
    OBVIOUS
  <2>2. PICK j \in First(BySnr(trials, B(b)), B(b), n) : TRUE
    <3>1. B(b) # {}
      BY <1>3, <2>1
    <3> HIDE DEF B
    <3> QED
      BY <1>2, <3>1, FirstCounts
  <2>3. j \in B(b) /\ Rank(BySnr(trials, B(b)), B(b), j) < n
    BY <2>2 DEF First
  <2>4. j \in S /\ trials[j].beam = b
    BY <1>4, <2>3
  <2>5. rank(j) < n
    BY <2>3, <2>4
  <2> HIDE DEF K, rank
  <2> QED
    BY <1>1, <2>1, <2>4, <2>5
<1>6. ASSUME NEW i \in K, NEW j \in S, trials[j].beam = trials[i].beam, Better(trials, j, i)
      PROVE  j \in K
  <2>1. PICK b : b = trials[i].beam
    OBVIOUS
  <2>2. i \in S /\ i \in B(b) /\ j \in B(b)
    BY <1>1, <1>3, <1>6, <2>1
  <2>3. Rank(BySnr(trials, B(b)), B(b), i) < n
    BY <1>1, <2>1
  <2>4. <<j, i>> \in BySnr(trials, B(b))
    BY <1>6, <2>2 DEF BySnr
  <2>5. i \in First(BySnr(trials, B(b)), B(b), n)
    BY <2>2, <2>3 DEF First
  <2> HIDE DEF B
  <2>6. j \in First(BySnr(trials, B(b)), B(b), n)
    BY <1>2, <2>2, <2>4, <2>5, FirstCounts
  <2>7. Rank(BySnr(trials, B(b)), B(b), j) < n
    BY <2>6 DEF First
  <2>8. rank(j) < n
    BY <1>6, <2>1, <2>7
  <2> HIDE DEF K, rank
  <2> QED
    BY <1>1, <2>8
<1>7. IsFiniteSet(K) /\ Cardinality(K) <= n * Cardinality(BeamsIn(trials))
  <2> DEFINE N == 0 .. n - 1
             C == N \X BeamsIn(trials)
             f == [i \in K |-> <<rank(i), trials[i].beam>>]
  <2>1. IsFiniteSet(C) /\ Cardinality(C) = n * Cardinality(BeamsIn(trials))
    <3>1. IsFiniteSet(N) /\ Cardinality(N) = n
      BY FS_Interval
    <3>2. IsFiniteSet(C) /\ Cardinality(C) = Cardinality(N) * Cardinality(BeamsIn(trials))
      <4> HIDE DEF N
      <4> QED
        BY <3>1, BeamsFinite, FS_Product
    <3> QED
      BY <3>1, <3>2
  <2>2. \A i \in K : i \in S /\ rank(i) < n
    BY <1>1
  <2>3. \A i \in K : rank(i) \in N
    <3> SUFFICES ASSUME NEW i \in K
                 PROVE  rank(i) \in N
      OBVIOUS
    <3>1. PICK b : b = trials[i].beam
      OBVIOUS
    <3>2. i \in B(b)
      BY <1>3, <2>2, <3>1
    <3>3. Rank(BySnr(trials, B(b)), B(b), i) \in Nat
      <4> HIDE DEF B
      <4> QED
        BY <1>2, <3>2, Ranks
    <3>4. rank(i) \in Nat
      BY <3>1, <3>3
    <3> HIDE DEF rank, K
    <3> QED
      BY <2>2, <3>4
  <2>4. ASSUME NEW i \in K, NEW j \in K, rank(i) = rank(j), trials[i].beam = trials[j].beam
        PROVE  i = j
    <3>1. PICK b : b = trials[i].beam
      OBVIOUS
    <3>2. i \in B(b) /\ j \in B(b)
      BY <1>3, <2>2, <2>4, <3>1
    <3>3. Rank(BySnr(trials, B(b)), B(b), i) = Rank(BySnr(trials, B(b)), B(b), j)
      BY <2>4, <3>1
    <3> HIDE DEF B
    <3> QED
      BY <1>2, <3>2, <3>3, Ranks
  <2>5. \A i \in K : trials[i].beam \in BeamsIn(trials)
    BY <2>2 DEF BeamsIn
  <2> HIDE DEF rank, K, N
  <2>6. f \in Injection(K, C)
    <3>1. f \in [K -> C]
      BY <2>3, <2>5
    <3>2. \A i, j \in K : f[i] = f[j] => i = j
      BY <2>4
    <3> QED
      BY <3>1, <3>2 DEF Injection, IsInjective
  <2>7. IsFiniteSet(K) /\ Cardinality(K) <= Cardinality(C)
    <3> HIDE DEF f, C
    <3> QED
      BY <2>1, <2>6, FS_Injection
  <2> QED
    BY <2>1, <2>7
<1>8. K \subseteq S
  BY <1>1
<1> QED
  BY <1>5, <1>6, <1>7, <1>8

LEMMA KeptIs ==
  ASSUME NEW trials, NEW cap
  PROVE  /\ Survivors(trials, cap) = BestOfBeams(trials, DOMAIN trials, Quota(cap))
         /\ Kept(trials, cap) =
              IF Cardinality(Survivors(trials, cap)) <= cap THEN Survivors(trials, cap)
              ELSE First(BySky(trials, Survivors(trials, cap)), Survivors(trials, cap), cap)
                     \union BestOfBeams(trials, Survivors(trials, cap), Floor)
<1>1. Survivors(trials, cap) = BestOfBeams(trials, DOMAIN trials, Quota(cap))
  BY DEF Survivors, BestOfBeams
<1>2. Floors(trials, Survivors(trials, cap)) = BestOfBeams(trials, Survivors(trials, cap), Floor)
  BY DEF Floors, BestOfBeams
<1>3. FirstOf(Survivors(trials, cap), cap, LAMBDA j, i : BetterInSky(trials, j, i))
        = First(BySky(trials, Survivors(trials, cap)), Survivors(trials, cap), cap)
  BY FirstOfSky
<1> QED
  BY <1>1, <1>2, <1>3 DEF Kept

\* What the cap keeps: the best of each beam, nothing weaker than what it
\* sheds of the beam, and not many more than the cap.
LEMMA KeptFair ==
  ASSUME NEW trials \in Seq(Trial), NEW cap \in Nat \ {0}
  PROVE  LET K == Kept(trials, cap) IN
         /\ K \subseteq DOMAIN trials
         /\ \A i \in DOMAIN trials : \E j \in K : trials[j].beam = trials[i].beam
         /\ \A i \in K, j \in DOMAIN trials :
              trials[j].beam = trials[i].beam /\ Better(trials, j, i) => j \in K
         /\ Cardinality(K) <= cap + Floor * Cardinality(BeamsIn(trials))
<1>1. PICK V : V = Survivors(trials, cap)
  OBVIOUS
<1>2. PICK K : K = Kept(trials, cap)
  OBVIOUS
<1>3. Quota(cap) \in Nat \ {0} /\ Floor \in Nat \ {0}
  BY QuotaType, CapAssumption
<1>4. /\ V \in SUBSET (DOMAIN trials) /\ IsFiniteSet(V)
      /\ \A i \in DOMAIN trials : \E j \in V : trials[j].beam = trials[i].beam
      /\ \A i \in V, j \in DOMAIN trials :
           trials[j].beam = trials[i].beam /\ Better(trials, j, i) => j \in V
  <2>1. PICK n \in Nat \ {0} : n = Quota(cap)
    BY <1>3
  <2>2. V = BestOfBeams(trials, DOMAIN trials, n)
    BY <1>1, <2>1, KeptIs
  <2>3. DOMAIN trials \in SUBSET (DOMAIN trials)
    OBVIOUS
  <2> QED
    BY <2>2, <2>3, BestOfBeamsFair
<1>5. Cardinality(V) \in Nat
  BY <1>4, FS_CardinalityType
<1>6. PICK m \in Nat : m = Cardinality(BeamsIn(trials))
  BY BeamsFinite
<1>7. Floor * m \in Nat
  BY <1>3, <1>6
<1>8. CASE Cardinality(V) <= cap
  <2>1. K = V
    BY <1>1, <1>2, <1>8, KeptIs
  <2>2. Cardinality(K) <= cap + Floor * m
    BY <1>5, <1>7, <1>8, <2>1
  <2> QED
    BY <1>2, <1>4, <1>6, <2>1, <2>2
<1>9. CASE ~ (Cardinality(V) <= cap)
  <2>1. PICK A : A = First(BySky(trials, V), V, cap)
    OBVIOUS
  <2>2. PICK B : B = BestOfBeams(trials, V, Floor)
    OBVIOUS
  <2>3. K = A \union B
    BY <1>1, <1>2, <1>9, <2>1, <2>2, KeptIs
  <2>4. Ordered(BySky(trials, V), V)
    BY <1>4, SkyOrders
  <2>5. /\ IsFiniteSet(A) /\ Cardinality(A) <= cap /\ A \subseteq V
        /\ \A x \in A, y \in V : <<y, x>> \in BySky(trials, V) => y \in A
    BY <1>4, <2>1, <2>4, FirstCounts
  <2>6. /\ B \subseteq V
        /\ \A i \in V : \E j \in B : trials[j].beam = trials[i].beam
        /\ \A i \in B, j \in V : trials[j].beam = trials[i].beam /\ Better(trials, j, i)
                                   => j \in B
        /\ IsFiniteSet(B) /\ Cardinality(B) <= Floor * m
    BY <1>3, <1>4, <1>6, <2>2, BestOfBeamsFair
  <2>7. Cardinality(K) <= cap + Floor * m
    <3>1. Cardinality(A) \in Nat /\ Cardinality(B) \in Nat /\ Cardinality(A \intersect B) \in Nat
      BY <2>5, <2>6, FS_CardinalityType, FS_Intersection
    <3>2. Cardinality(K) = Cardinality(A) + Cardinality(B) - Cardinality(A \intersect B)
      BY <2>3, <2>5, <2>6, FS_Union
    <3> QED
      BY <1>7, <2>5, <2>6, <3>1, <3>2
  <2>8. ASSUME NEW i \in K, NEW j \in DOMAIN trials,
               trials[j].beam = trials[i].beam, Better(trials, j, i)
        PROVE  j \in K
    <3>1. i \in V /\ j \in V
      BY <1>4, <2>3, <2>5, <2>6, <2>8
    <3>2. CASE i \in A
      <4>1. BetterInSky(trials, j, i)
        BY <2>8 DEF Better, BetterInSky
      <4>2. <<j, i>> \in BySky(trials, V)
        BY <3>1, <4>1 DEF BySky
      <4> QED
        BY <2>3, <2>5, <3>1, <3>2, <4>2
    <3>3. CASE i \in B
      BY <2>3, <2>6, <2>8, <3>1, <3>3
    <3> QED
      BY <2>3, <3>2, <3>3
  <2>9. \A i \in DOMAIN trials : \E j \in K : trials[j].beam = trials[i].beam
    <3> SUFFICES ASSUME NEW i \in DOMAIN trials
                 PROVE  \E j \in K : trials[j].beam = trials[i].beam
      OBVIOUS
    <3>1. PICK v \in V : trials[v].beam = trials[i].beam
      BY <1>4
    <3>2. PICK j \in B : trials[j].beam = trials[v].beam
      BY <2>6
    <3> QED
      BY <2>3, <3>1, <3>2
  <2>10. K \subseteq DOMAIN trials
    BY <1>4, <2>3, <2>5, <2>6
  <2> QED
    BY <1>2, <1>6, <2>7, <2>8, <2>9, <2>10
<1> QED
  BY <1>8, <1>9

\* out lists the trials of the places K, in order.
Picks(out, trials, K) ==
  /\ K \subseteq DOMAIN trials
  /\ \E L \in [1 .. Cardinality(K) -> K] :
       /\ \A m, n \in 1 .. Cardinality(K) : L[m] = L[n] => m = n
       /\ \A i \in K : \E n \in 1 .. Cardinality(K) : L[n] = i
       /\ out = [n \in 1 .. Cardinality(K) |-> trials[L[n]]]

LEMMA PlaceOrders ==
  ASSUME NEW S \in SUBSET Int
  PROVE  Ordered(InOrderOfPlace(S), S)
  BY DEF Ordered, InOrderOfPlace

LEMMA InPlacePicks ==
  ASSUME NEW trials \in Seq(Trial), NEW K \in SUBSET (DOMAIN trials)
  PROVE  Picks(At(trials, K), trials, K)
<1>1. IsFiniteSet(K) /\ K \in SUBSET Int
  BY PlacesFinite, FS_Subset, TrialFields
<1>2. PICK L : L = InPlace(K)
  OBVIOUS
<1>3. /\ L \in [1 .. Cardinality(K) -> K]
      /\ \A x \in K : \E n \in 1 .. Cardinality(K) : L[n] = x
      /\ \A m, n \in 1 .. Cardinality(K) : L[m] = L[n] => m = n
  BY <1>1, <1>2, SortedIs, PlaceOrders, ListedSorts
<1>4. At(trials, K) = [n \in 1 .. Cardinality(K) |-> trials[L[n]]]
  BY <1>2, <1>3 DEF At, InPlace
<1> QED
  BY <1>3, <1>4 DEF Picks

LEMMA AllPicks ==
  ASSUME NEW trials \in Seq(Trial)
  PROVE  Picks(trials, trials, DOMAIN trials)
<1>1. Cardinality(DOMAIN trials) = Len(trials) /\ DOMAIN trials = 1 .. Len(trials)
  BY PlacesFinite
<1> DEFINE L == [n \in 1 .. Len(trials) |-> n]
<1>2. /\ L \in [1 .. Len(trials) -> DOMAIN trials]
      /\ \A m, n \in 1 .. Len(trials) : L[m] = L[n] => m = n
      /\ \A i \in DOMAIN trials : L[i] = i
      /\ trials = [n \in 1 .. Len(trials) |-> trials[L[n]]]
  BY <1>1
<1> HIDE DEF L
<1> QED
  BY <1>1, <1>2 DEF Picks

LEMMA PickedFacts ==
  ASSUME NEW trials \in Seq(Trial), NEW K, NEW out, Picks(out, trials, K)
  PROVE  /\ out \in Seq(Trial)
         /\ IsFiniteSet(K) /\ Len(out) = Cardinality(K)
         /\ Len(out) <= Len(trials)
         /\ Len(out) = Len(trials) => K = DOMAIN trials
         /\ Range(out) = {trials[i] : i \in K}
         /\ \A t : CountOf(t, out) = Cardinality({i \in K : trials[i] = t})
<1>1. PICK L \in [1 .. Cardinality(K) -> K] :
        /\ \A m, n \in 1 .. Cardinality(K) : L[m] = L[n] => m = n
        /\ \A i \in K : \E n \in 1 .. Cardinality(K) : L[n] = i
        /\ out = [n \in 1 .. Cardinality(K) |-> trials[L[n]]]
  BY DEF Picks
<1>2. K \subseteq DOMAIN trials
  BY DEF Picks
<1>3. /\ IsFiniteSet(K) /\ Cardinality(K) \in Nat /\ Cardinality(K) <= Len(trials)
      /\ Cardinality(K) = Len(trials) => K = DOMAIN trials
  BY <1>2, PlacesFinite, FS_Subset, FS_CardinalityType
<1>4. \A i \in K : trials[i] \in Trial
  BY <1>2, TrialFields
<1>5. /\ DOMAIN out = 1 .. Cardinality(K)
      /\ \A n \in 1 .. Cardinality(K) : L[n] \in K /\ out[n] = trials[L[n]]
  BY <1>1
<1>6. out \in Seq(Trial) /\ Len(out) = Cardinality(K)
  <2>1. out \in [1 .. Cardinality(K) -> Trial]
    BY <1>1, <1>4, <1>5
  <2> QED
    BY <1>3, <2>1
<1>7. Range(out) = {trials[i] : i \in K}
  BY <1>1, <1>5 DEF Range
<1>8. ASSUME NEW t
      PROVE  CountOf(t, out) = Cardinality({i \in K : trials[i] = t})
  <2> DEFINE A == {n \in DOMAIN out : out[n] = t}
             B == {i \in K : trials[i] = t}
             f == [n \in A |-> L[n]]
  <2>1. f \in [A -> B]
    BY <1>5
  <2>2. \A m, n \in A : f[m] = f[n] => m = n
    BY <1>1, <1>5
  <2>3. \A i \in B : \E n \in A : f[n] = i
    BY <1>1, <1>5
  <2>4. IsFiniteSet(A)
    <3>1. IsFiniteSet(1 .. Cardinality(K))
      BY <1>3, FS_Interval
    <3> QED
      BY <1>5, <3>1, FS_Subset
  <2>5. f \in Bijection(A, B)
    <3> HIDE DEF A, B, f
    <3> QED
      BY <2>1, <2>2, <2>3 DEF Bijection, Injection, Surjection, IsInjective
  <2>6. Cardinality(A) = Cardinality(B)
    <3>1. ExistsBijection(A, B)
      BY <2>5 DEF ExistsBijection
    <3> HIDE DEF A, B, f
    <3> QED
      BY <2>4, <3>1, FS_Bijection
  <2> QED
    BY <2>6 DEF CountOf
<1> QED
  BY <1>3, <1>6, <1>7, <1>8

LEMMA StormRulePicks ==
  ASSUME NEW trials \in Seq(Trial), NEW s, s.cap \in Int
  PROVE  LET out == StormRule(trials, s)
             capped == s.cap > 0 /\ Len(trials) > s.cap
         IN \E K : /\ Picks(out, trials, K)
                   /\ ~ capped => out = trials
                   /\ capped => Len(out) <= s.cap + Floor * Cardinality(Beams(trials))
                   /\ SkipsGulp(trials, s) => K = {}
                   /\ ~ SkipsGulp(trials, s) =>
                        /\ \A i \in DOMAIN trials : \E j \in K : trials[j].beam = trials[i].beam
                        /\ \A i \in K, j \in DOMAIN trials :
                             trials[j].beam = trials[i].beam /\ Better(trials, j, i) => j \in K
<1> DEFINE out == StormRule(trials, s)
           capped == s.cap > 0 /\ Len(trials) > s.cap
<1>1. Len(trials) \in Nat
  OBVIOUS
<1>2. PICK m \in Nat : m = Cardinality(Beams(trials)) /\ m = Cardinality(BeamsIn(trials))
  BY BeamsFinite
<1>3. Floor * m \in Nat
  BY <1>2, CapAssumption
<1>4. CASE SkipsGulp(trials, s)
  <2>1. out = <<>> /\ capped
    BY <1>4 DEF StormRule, SkipsGulp
  <2>2. Cardinality({}) = 0
    BY FS_EmptySet
  <2>3. 1 .. 0 = {}
    OBVIOUS
  <2>4. Picks(<<>>, trials, {})
    <3> DEFINE L == [n \in {} |-> n]
    <3>1. L \in [{} -> {}] /\ <<>> = [n \in {} |-> trials[L[n]]]
      OBVIOUS
    <3> HIDE DEF L
    <3> QED
      BY <2>2, <2>3, <3>1 DEF Picks
  <2>5. Len(<<>>) <= s.cap + Floor * m
    BY <1>3, <2>1
  <2> QED
    BY <1>2, <1>4, <2>1, <2>4, <2>5
<1>5. CASE ~ SkipsGulp(trials, s) /\ ~ capped
  <2>1. out = trials
    BY <1>1, <1>5, StormCapIs DEF StormRule
  <2> QED
    BY <1>5, <2>1, AllPicks
<1>6. CASE ~ SkipsGulp(trials, s) /\ capped
  <2>1. s.cap \in Nat \ {0}
    BY <1>6
  <2>2. PICK K : K = Kept(trials, s.cap)
    OBVIOUS
  <2>3. out = At(trials, K)
    BY <1>1, <1>6, <2>1, <2>2, StormCapIs DEF StormRule
  <2>4. /\ K \subseteq DOMAIN trials
        /\ \A i \in DOMAIN trials : \E j \in K : trials[j].beam = trials[i].beam
        /\ \A i \in K, j \in DOMAIN trials :
             trials[j].beam = trials[i].beam /\ Better(trials, j, i) => j \in K
        /\ Cardinality(K) <= s.cap + Floor * m
    BY <1>2, <2>1, <2>2, KeptFair
  <2>5. Picks(out, trials, K)
    BY <2>3, <2>4, InPlacePicks
  <2>6. Len(out) = Cardinality(K)
    BY <2>5, PickedFacts
  <2>7. Len(out) <= s.cap + Floor * Cardinality(Beams(trials))
    BY <1>2, <2>4, <2>6
  <2> HIDE DEF out
  <2>8. /\ Picks(out, trials, K)
        /\ ~ capped => out = trials
        /\ capped => Len(out) <= s.cap + Floor * Cardinality(Beams(trials))
        /\ SkipsGulp(trials, s) => K = {}
        /\ ~ SkipsGulp(trials, s) =>
             /\ \A i \in DOMAIN trials : \E j \in K : trials[j].beam = trials[i].beam
             /\ \A i \in K, j \in DOMAIN trials :
                  trials[j].beam = trials[i].beam /\ Better(trials, j, i) => j \in K
    BY <1>6, <2>4, <2>5, <2>7
  <2> QED
    BY <2>8 DEF out
<1> QED
  BY <1>4, <1>5, <1>6

(***************************************************************************)
(* The storm rule is fair, whatever the trials.                            *)
(***************************************************************************)
LEMMA StormRuleFair ==
  ASSUME NEW trials \in Seq(Trial), NEW s, s.cap \in Int
  PROVE  LET out == StormRule(trials, s)
             capped == s.cap > 0 /\ Len(trials) > s.cap
             gone == {t \in Range(trials) : CountOf(t, out) < CountOf(t, trials)}
         IN /\ out \in Seq(Trial) /\ Range(out) \subseteq Range(trials)
            /\ Len(out) <= Len(trials)
            /\ Len(out) = Len(trials) => Range(out) = Range(trials)
            /\ ~ capped => out = trials
            /\ capped => Len(out) <= s.cap + Floor * Cardinality(Beams(trials))
            /\ ~ SkipsGulp(trials, s) =>
                 /\ Beams(out) = Beams(trials)
                 /\ \A t \in gone, k \in Range(out) : t.beam = k.beam => t.snr <= k.snr
<1>1. PICK out : out = StormRule(trials, s)
  OBVIOUS
<1>2. PICK K :
        /\ Picks(out, trials, K)
        /\ ~ (s.cap > 0 /\ Len(trials) > s.cap) => out = trials
        /\ s.cap > 0 /\ Len(trials) > s.cap =>
             Len(out) <= s.cap + Floor * Cardinality(Beams(trials))
        /\ ~ SkipsGulp(trials, s) =>
             /\ \A i \in DOMAIN trials : \E j \in K : trials[j].beam = trials[i].beam
             /\ \A i \in K, j \in DOMAIN trials :
                  trials[j].beam = trials[i].beam /\ Better(trials, j, i) => j \in K
  BY <1>1, StormRulePicks
<1>3. K \subseteq DOMAIN trials
  BY <1>2 DEF Picks
<1>4. /\ out \in Seq(Trial) /\ Len(out) <= Len(trials)
      /\ Len(out) = Len(trials) => K = DOMAIN trials
      /\ Range(out) = {trials[i] : i \in K}
      /\ \A t : CountOf(t, out) = Cardinality({i \in K : trials[i] = t})
  BY <1>2, PickedFacts
<1>5. Range(trials) = {trials[i] : i \in DOMAIN trials}
  BY DEF Range
<1>6. ASSUME ~ SkipsGulp(trials, s)
      PROVE  Beams(out) = Beams(trials)
  <2>1. Beams(out) = {trials[i].beam : i \in K}
    BY <1>4 DEF Beams
  <2>2. Beams(trials) = {trials[i].beam : i \in DOMAIN trials}
    BY <1>5 DEF Beams
  <2> QED
    BY <1>2, <1>3, <1>6, <2>1, <2>2
<1>7. ASSUME ~ SkipsGulp(trials, s), NEW t, CountOf(t, out) < CountOf(t, trials),
             NEW k \in Range(out), t.beam = k.beam
      PROVE  t.snr <= k.snr
  <2>1. PICK i \in DOMAIN trials : i \notin K /\ trials[i] = t
    <3>1. ASSUME \A i \in DOMAIN trials : trials[i] = t => i \in K
          PROVE  FALSE
      <4>1. {i \in K : trials[i] = t} = {i \in DOMAIN trials : trials[i] = t}
        BY <1>3, <3>1
      <4>2. CountOf(t, out) = CountOf(t, trials)
        BY <1>4, <4>1 DEF CountOf
      <4>3. IsFiniteSet({i \in DOMAIN trials : trials[i] = t})
        BY PlacesFinite, FS_Subset
      <4>4. CountOf(t, trials) \in Nat
        BY <4>3, FS_CardinalityType DEF CountOf
      <4> QED
        BY <1>7, <4>2, <4>4
    <3> QED
      BY <3>1
  <2>2. PICK j \in K : trials[j] = k
    BY <1>4, <1>7
  <2>3. ~ Better(trials, i, j)
    BY <1>2, <1>7, <2>1, <2>2
  <2>4. t.snr \in Nat /\ k.snr \in Nat
    BY <1>3, <2>1, <2>2, TrialFields
  <2> QED
    BY <2>1, <2>2, <2>3, <2>4 DEF Better
<1>8. \A t \in {u \in Range(trials) : CountOf(u, out) < CountOf(u, trials)}, k \in Range(out) :
        ~ SkipsGulp(trials, s) /\ t.beam = k.beam => t.snr <= k.snr
  BY <1>7
<1>9. Range(out) \subseteq Range(trials) /\ (Len(out) = Len(trials) => Range(out) = Range(trials))
  BY <1>3, <1>4, <1>5
<1>10. /\ ~ (s.cap > 0 /\ Len(trials) > s.cap) => out = trials
       /\ s.cap > 0 /\ Len(trials) > s.cap =>
             Len(out) <= s.cap + Floor * Cardinality(Beams(trials))
       /\ out \in Seq(Trial) /\ Len(out) <= Len(trials)
  BY <1>2, <1>4
<1>11. ~ SkipsGulp(trials, s) => Beams(out) = Beams(trials)
  BY <1>6
<1> QED
  BY <1>1, <1>8, <1>9, <1>10, <1>11

-----------------------------------------------------------------------------
(***************************************************************************)
(* The occupancy footprint                                                 *)
(***************************************************************************)

\* A set of places without a gap is told by its size.
LEMMA Prefix ==
  ASSUME NEW n \in Nat, NEW D \in SUBSET (1 .. n),
         \A k \in D, m \in 1 .. n : m < k => m \in D
  PROVE  D = 1 .. Cardinality(D) /\ Cardinality(D) \in 0 .. n
<1> DEFINE W == {m \in Nat : m + 1 \notin D}
<1>1. n \in W
  OBVIOUS
<1>2. PICK m \in W : \A k \in W : m <= k
  <2>1. W \in SUBSET Nat /\ W # {}
    BY <1>1
  <2>2. Min(W) \in W /\ \A k \in W : Min(W) <= k
    <3> HIDE DEF W
    <3> QED
      BY <2>1, MinOfNats
  <2> QED
    BY <2>2
<1>3. m \in Nat /\ m + 1 \notin D /\ m <= n
  BY <1>1, <1>2
<1>4. 1 .. m \subseteq D
  <2> SUFFICES ASSUME NEW k \in 1 .. m, k \notin D
               PROVE  FALSE
    OBVIOUS
  <2>1. k - 1 \in Nat /\ (k - 1) + 1 = k
    OBVIOUS
  <2>2. k - 1 \in W
    BY <2>1
  <2> QED
    BY <1>2, <1>3, <2>2
<1>5. D \subseteq 1 .. m
  <2> SUFFICES ASSUME NEW k \in D, k \notin 1 .. m
               PROVE  FALSE
    OBVIOUS
  <2>1. m + 1 <= k /\ k <= n
    BY <1>3
  <2>2. m + 1 \in 1 .. n
    BY <1>3, <2>1
  <2> QED
    BY <1>3, <2>1, <2>2
<1>6. Cardinality(1 .. m) = m
  BY <1>3, FS_Interval
<1>7. D = 1 .. m
  BY <1>4, <1>5
<1> QED
  BY <1>3, <1>6, <1>7

Earlier(trials, j, i) ==
  trials[j].samp < trials[i].samp \/ (trials[j].samp = trials[i].samp /\ j < i)
BySamp(trials) ==
  {p \in (DOMAIN trials) \X (DOMAIN trials) : Earlier(trials, p[1], p[2])}

LEMMA FootprintSorted ==
  ASSUME NEW trials \in Seq(Trial)
  PROVE  LET fp == Footprint(trials) IN
         /\ DOMAIN fp = 1 .. Len(trials)
         /\ \A n \in DOMAIN fp : \E t \in Range(trials) :
              fp[n].samp = t.samp /\ fp[n].beam = t.beam
         /\ \A t \in Range(trials) : \E n \in DOMAIN fp :
              fp[n].samp = t.samp /\ fp[n].beam = t.beam
         /\ \A m, n \in DOMAIN fp : m < n => fp[m].samp <= fp[n].samp
<1>1. PICK D : D = DOMAIN trials
  OBVIOUS
<1>2. IsFiniteSet(D) /\ Cardinality(D) = Len(trials) /\ \A i \in D : i \in Nat /\ trials[i].samp \in Int
  BY <1>1, PlacesFinite, TrialFields
<1>3. PICK R : R = BySamp(trials)
  OBVIOUS
<1>4. Ordered(R, D)
  BY <1>1, <1>2, <1>3 DEF Ordered, BySamp, Earlier
<1>5. PICK L : L = Listed(R, D)
  OBVIOUS
<1>6. /\ L \in [1 .. Len(trials) -> D]
      /\ \A m, n \in 1 .. Len(trials) : m < n => <<L[m], L[n]>> \in R
      /\ \A x \in D : \E n \in 1 .. Len(trials) : L[n] = x
  BY <1>2, <1>4, <1>5, ListedSorts
<1>7. Footprint(trials) = [n \in 1 .. Len(trials) |->
                             [samp |-> trials[L[n]].samp, beam |-> trials[L[n]].beam]]
  <2>1. PICK A : A = {<<Cardinality({j \in D : Earlier(trials, j, i)}) + 1, i>> : i \in D}
    OBVIOUS
  <2>2. PICK B : B = {<<Cardinality(Below(R, D, i)) + 1, i>> : i \in D}
    OBVIOUS
  <2>3. A = B
    <3>1. ASSUME NEW i \in D
          PROVE  {j \in D : Earlier(trials, j, i)} = Below(R, D, i)
      BY <1>1, <1>3 DEF Below, BySamp
    <3> QED
      BY <2>1, <2>2, <3>1
  <2>4. PICK M : M = [n \in 1 .. Cardinality(D) |-> (CHOOSE p \in A : p[1] = n)[2]]
    OBVIOUS
  <2>5. Footprint(trials) = [n \in DOMAIN M |-> [samp |-> trials[M[n]].samp,
                                                 beam |-> trials[M[n]].beam]]
    BY <1>1, <2>1, <2>4 DEF Footprint, Sorted, Earlier
  <2>6. L = [n \in 1 .. Cardinality(D) |-> (CHOOSE p \in B : p[1] = n)[2]]
    BY <1>5, <2>2 DEF Listed
  <2>7. L = M
    BY <2>3, <2>4, <2>6
  <2> QED
    BY <1>6, <2>5, <2>7
<1>8. PICK fp : fp = Footprint(trials)
  OBVIOUS
<1>9. /\ DOMAIN fp = 1 .. Len(trials)
      /\ \A n \in DOMAIN fp : L[n] \in D /\ fp[n].samp = trials[L[n]].samp
                              /\ fp[n].beam = trials[L[n]].beam
  BY <1>6, <1>7, <1>8
<1>10. \A m, n \in DOMAIN fp : m < n => fp[m].samp <= fp[n].samp
  <2> SUFFICES ASSUME NEW m \in DOMAIN fp, NEW n \in DOMAIN fp, m < n
               PROVE  fp[m].samp <= fp[n].samp
    OBVIOUS
  <2>1. <<L[m], L[n]>> \in R
    BY <1>6, <1>9
  <2>2. trials[L[m]].samp <= trials[L[n]].samp
    BY <1>2, <1>3, <1>9, <2>1 DEF BySamp, Earlier
  <2> QED
    BY <1>9, <2>2
<1>11. \A n \in DOMAIN fp : trials[L[n]] \in Range(trials)
  BY <1>1, <1>9 DEF Range
<1>12. \A t \in Range(trials) : \E n \in DOMAIN fp :
         fp[n].samp = t.samp /\ fp[n].beam = t.beam
  BY <1>1, <1>6, <1>9 DEF Range
<1> QED
  BY <1>8, <1>9, <1>10, <1>11, <1>12

\* Bisecting the footprint finds the beams of the trials in the window.
LEMMA OccupancyCounts ==
  ASSUME NEW trials \in Seq(Trial), NEW p \in Int
  PROVE  OccupancyBeams(Footprint(trials), p) =
           Cardinality({t.beam : t \in {u \in Range(trials) : u.samp - p \in - Window .. Window}})
<1>1. PICK fp : fp = Footprint(trials)
  OBVIOUS
<1>2. PICK len \in Nat : len = Len(trials)
  OBVIOUS
<1>3. /\ DOMAIN fp = 1 .. len
      /\ \A n \in 1 .. len : \E t \in Range(trials) : fp[n].samp = t.samp /\ fp[n].beam = t.beam
      /\ \A t \in Range(trials) : \E n \in 1 .. len : fp[n].samp = t.samp /\ fp[n].beam = t.beam
      /\ \A m, n \in 1 .. len : m < n => fp[m].samp <= fp[n].samp
  <2>1. DOMAIN fp = 1 .. len
    BY <1>1, <1>2, FootprintSorted
  <2>2. /\ \A n \in DOMAIN fp : \E t \in Range(trials) : fp[n].samp = t.samp /\ fp[n].beam = t.beam
        /\ \A t \in Range(trials) : \E n \in DOMAIN fp : fp[n].samp = t.samp /\ fp[n].beam = t.beam
        /\ \A m, n \in DOMAIN fp : m < n => fp[m].samp <= fp[n].samp
    BY <1>1, FootprintSorted
  <2> QED
    BY <2>1, <2>2
<1>4. \A t \in Range(trials) : t.samp \in Int
  BY TrialFields DEF Range
<1>5. \A n \in 1 .. len : fp[n].samp \in Int
  BY <1>3, <1>4
<1>6. Window \in Nat
  BY CapAssumption
<1> DEFINE A == {n \in 1 .. len : fp[n].samp < p - Window}
           B == {n \in 1 .. len : fp[n].samp <= p + Window}
<1>7. PICK lo : lo = Cardinality(A)
  OBVIOUS
<1>8. PICK hi : hi = Cardinality(B)
  OBVIOUS
<1>9. A = 1 .. lo /\ lo \in 0 .. len
  <2>1. \A k \in A, m \in 1 .. len : m < k => m \in A
    BY <1>3, <1>5, <1>6
  <2>2. A \in SUBSET (1 .. len)
    OBVIOUS
  <2> HIDE DEF A
  <2> QED
    BY <1>7, <2>1, <2>2, Prefix
<1>10. B = 1 .. hi /\ hi \in 0 .. len
  <2>1. \A k \in B, m \in 1 .. len : m < k => m \in B
    BY <1>3, <1>5, <1>6
  <2>2. B \in SUBSET (1 .. len)
    OBVIOUS
  <2> HIDE DEF B
  <2> QED
    BY <1>8, <2>1, <2>2, Prefix
<1>11. lo + 1 .. hi = {n \in 1 .. len : fp[n].samp - p \in - Window .. Window}
  <2>1. \A n \in 1 .. len : n \in A <=> fp[n].samp < p - Window
    OBVIOUS
  <2>2. \A n \in 1 .. len : n \in B <=> fp[n].samp <= p + Window
    OBVIOUS
  <2>3. \A n \in 1 .. len : fp[n].samp - p \in - Window .. Window <=> n \notin A /\ n \in B
    BY <1>5, <1>6, <2>1, <2>2
  <2> HIDE DEF A, B
  <2>4. \A n : n \in lo + 1 .. hi <=> n \in 1 .. len /\ n \notin A /\ n \in B
    BY <1>9, <1>10
  <2> QED
    BY <2>3, <2>4
<1>12. {fp[n].beam : n \in lo + 1 .. hi}
         = {t.beam : t \in {u \in Range(trials) : u.samp - p \in - Window .. Window}}
  <2> DEFINE In(x) == x - p \in - Window .. Window
  <2>1. {fp[n].beam : n \in lo + 1 .. hi} = {fp[n].beam : n \in {m \in 1 .. len : In(fp[m].samp)}}
    BY <1>11
  <2> HIDE DEF In
  <2>2. {fp[n].beam : n \in {m \in 1 .. len : In(fp[m].samp)}}
          = {t.beam : t \in {u \in Range(trials) : In(u.samp)}}
    <3>1. ASSUME NEW n \in 1 .. len, In(fp[n].samp)
          PROVE  \E t \in {u \in Range(trials) : In(u.samp)} : fp[n].beam = t.beam
      BY <1>3, <3>1
    <3>2. ASSUME NEW t \in Range(trials), In(t.samp)
          PROVE  \E n \in {m \in 1 .. len : In(fp[m].samp)} : fp[n].beam = t.beam
      <4>1. PICK n \in 1 .. len : fp[n].samp = t.samp /\ fp[n].beam = t.beam
        BY <1>3
      <4> QED
        BY <3>2, <4>1
    <3> QED
      BY <3>1, <3>2
  <2> QED
    BY <2>1, <2>2 DEF In
<1>13. OccupancyBeams(fp, p) = Cardinality({fp[n].beam : n \in lo + 1 .. hi})
  BY <1>3, <1>7, <1>8 DEF OccupancyBeams
<1> QED
  BY <1>1, <1>12, <1>13

-----------------------------------------------------------------------------
(***************************************************************************)
(* Cells and labels                                                        *)
(***************************************************************************)

LEMMA Foremost ==
  ASSUME NEW S, IsFiniteSet(S), NEW R, Ordered(R, S), S # {}
  PROVE  \E x \in S : \A y \in S : y = x \/ <<x, y>> \in R
<1>1. PICK x \in First(R, S, 1) : TRUE
  BY FirstCounts
<1>2. x \in S /\ \A y \in S : <<y, x>> \in R => y \in First(R, S, 1)
  BY FirstCounts
<1>3. Rank(R, S, x) = 0
  BY <1>1, Ranks DEF First
<1>4. ASSUME NEW y \in S, <<y, x>> \in R
      PROVE  FALSE
  <2>1. Rank(R, S, y) < 0 /\ Rank(R, S, y) \in 0 .. Cardinality(S) - 1
    BY <1>2, <1>3, <1>4, Ranks
  <2> QED
    BY <2>1, Ranks
<1> QED
  BY <1>2, <1>4 DEF Ordered

\* A cell holds the trials of one key, and a key has the beam in it.
LEMMA KeyHasBeam ==
  ASSUME NEW t, NEW s
  PROVE  CellKey(t, s)[4] = t.beam
<1> DEFINE half == Scale \div 2
           u == <<t.samp \div half, t.dm \div half, t.width, t.beam>>
           v == IF s.table = None THEN <<>>
                ELSE <<Place(t.beam, s.table)[1] \div half, Place(t.beam, s.table)[2] \div half>>
<1>1. CellKey(t, s) = u \o v
  BY DEF CellKey
<1>2. (u \o v)[4] = u[4]
  BY DEF u, v
<1> QED
  BY <1>1, <1>2

LEMMA CellFacts ==
  ASSUME NEW trials \in Seq(Trial), NEW s
  PROVE  LET cellOf == CellOf(trials, s) IN
         /\ DOMAIN cellOf = DOMAIN trials
         /\ \A i \in DOMAIN trials : cellOf[i] \in DOMAIN trials
         /\ \A i, j \in DOMAIN trials : cellOf[i] = cellOf[j] => trials[i].beam = trials[j].beam
         /\ \A i, j \in DOMAIN trials :
              cellOf[i] = cellOf[j] <=> CellKey(trials[i], s) = CellKey(trials[j], s)
         /\ \A i \in DOMAIN trials : cellOf[cellOf[i]] = cellOf[i]
<1> DEFINE cellOf == CellOf(trials, s)
           Key(i) == CellKey(trials[i], s)
<1>1. DOMAIN trials = 1 .. Len(trials) /\ Len(trials) \in Nat
  OBVIOUS
<1>2. ASSUME NEW i \in DOMAIN trials
      PROVE  /\ cellOf[i] \in DOMAIN trials /\ Key(cellOf[i]) = Key(i) /\ cellOf[i] <= i
             /\ \A j \in 1 .. i : Key(j) = Key(i) => cellOf[i] <= j
  <2> DEFINE S == {j \in 1 .. i : Key(j) = Key(i)}
  <2>1. S \in SUBSET Nat /\ i \in S
    BY <1>1
  <2>2. cellOf[i] = Min(S)
    BY DEF CellOf
  <2>3. Min(S) \in S /\ \A j \in S : Min(S) <= j
    <3> HIDE DEF S
    <3> QED
      BY <2>1, MinOfNats
  <2> QED
    BY <1>1, <2>2, <2>3
<1>3. \A i \in DOMAIN trials : Key(i)[4] = trials[i].beam
  BY KeyHasBeam
<1>4. DOMAIN cellOf = DOMAIN trials
  BY DEF CellOf
<1> HIDE DEF cellOf, Key
<1>5. \A i, j \in DOMAIN trials : cellOf[i] = cellOf[j] => trials[i].beam = trials[j].beam
  BY <1>2, <1>3
<1>6. ASSUME NEW i \in DOMAIN trials, NEW j \in DOMAIN trials, Key(i) = Key(j)
      PROVE  cellOf[i] = cellOf[j]
  <2>1. /\ cellOf[i] \in Nat /\ cellOf[j] \in Nat /\ i \in Nat /\ j \in Nat
        /\ cellOf[i] <= i /\ cellOf[j] <= j /\ cellOf[i] >= 1 /\ cellOf[j] >= 1
        /\ Key(cellOf[i]) = Key(j) /\ Key(cellOf[j]) = Key(i)
    BY <1>1, <1>2, <1>6
  <2>2. ASSUME cellOf[i] <= j
        PROVE  cellOf[j] <= cellOf[i]
    <3>1. cellOf[i] \in 1 .. j
      BY <2>1, <2>2
    <3> QED
      BY <1>2, <2>1, <3>1
  <2>3. ASSUME cellOf[j] <= i
        PROVE  cellOf[i] <= cellOf[j]
    <3>1. cellOf[j] \in 1 .. i
      BY <2>1, <2>3
    <3> QED
      BY <1>2, <2>1, <3>1
  <2> QED
    BY <2>1, <2>2, <2>3
<1>7. \A i, j \in DOMAIN trials : cellOf[i] = cellOf[j] <=> Key(i) = Key(j)
  BY <1>2, <1>6
<1>8. \A i \in DOMAIN trials : cellOf[cellOf[i]] = cellOf[i]
  BY <1>2, <1>7
<1> QED
  BY <1>2, <1>4, <1>5, <1>7, <1>8 DEF cellOf, Key

LEMMA BestIsBest ==
  ASSUME NEW trials \in Seq(Trial), NEW S \in SUBSET (DOMAIN trials), S # {}
  PROVE  Best(trials, S) \in S /\ \A j \in S : trials[j].snr <= trials[Best(trials, S)].snr
<1>1. IsFiniteSet(S) /\ Ordered(BySnr(trials, S), S)
  BY PlacesFinite, FS_Subset, SnrOrders
<1>2. PICK i \in S : \A j \in S : j = i \/ <<i, j>> \in BySnr(trials, S)
  BY <1>1, Foremost
<1>3. \A j \in S : j \in Nat /\ trials[j].snr \in Nat
  BY TrialFields
<1>4. \A j \in S : trials[i].snr > trials[j].snr \/ (trials[i].snr = trials[j].snr /\ i <= j)
  <2>1. \A j \in S : j = i \/ Better(trials, i, j)
    BY <1>2 DEF BySnr
  <2>2. ASSUME NEW j \in S
        PROVE  trials[i].snr > trials[j].snr \/ (trials[i].snr = trials[j].snr /\ i <= j)
    <3>1. i \in Nat /\ j \in Nat /\ trials[i].snr \in Nat /\ trials[j].snr \in Nat
      BY <1>3
    <3>2. CASE j = i
      BY <3>1, <3>2
    <3>3. CASE Better(trials, i, j)
      BY <3>1, <3>3 DEF Better
    <3> QED
      BY <2>1, <3>2, <3>3
  <2> QED
    BY <2>2
<1>5. PICK b : b = Best(trials, S)
  OBVIOUS
<1>6. b \in S /\ \A j \in S : trials[b].snr > trials[j].snr
                              \/ (trials[b].snr = trials[j].snr /\ b <= j)
  BY <1>4, <1>5 DEF Best
<1>7. \A j \in S : trials[j].snr <= trials[b].snr
  BY <1>3, <1>6
<1> QED
  BY <1>5, <1>6, <1>7

\* Each trial is in one cell, and its cell's representative is as strong and
\* in the same beam.
GoodCells(trials, cellOf, rep) ==
  /\ DOMAIN cellOf = DOMAIN trials /\ DOMAIN rep = Range(cellOf)
  /\ IsFiniteSet(Range(cellOf)) /\ Range(cellOf) \subseteq Nat \ {0}
  /\ \A c \in Range(cellOf) : rep[c] \in DOMAIN trials /\ cellOf[rep[c]] = c
  /\ \A i \in DOMAIN trials : /\ trials[i].snr <= trials[rep[cellOf[i]]].snr
                              /\ trials[i].beam = trials[rep[cellOf[i]]].beam

LEMMA CellsGood ==
  ASSUME NEW trials \in Seq(Trial), NEW s
  PROVE  GoodCells(trials, CellOf(trials, s), Reps(trials, CellOf(trials, s)))
<1>1. PICK cellOf : cellOf = CellOf(trials, s)
  OBVIOUS
<1>2. PICK rep : rep = Reps(trials, cellOf)
  OBVIOUS
<1>3. PICK D : D = DOMAIN trials
  OBVIOUS
<1>4. /\ DOMAIN cellOf = D /\ \A i \in D : cellOf[i] \in D
      /\ \A i, j \in D : cellOf[i] = cellOf[j] => trials[i].beam = trials[j].beam
  BY <1>1, <1>3, CellFacts
<1>5. Range(cellOf) \subseteq D /\ \A c \in Range(cellOf) : \E i \in D : cellOf[i] = c
  BY <1>4 DEF Range
<1>6. IsFiniteSet(Range(cellOf)) /\ Range(cellOf) \subseteq Nat \ {0}
  BY <1>3, <1>5, PlacesFinite, FS_Subset, TrialFields
<1>7. ASSUME NEW c \in Range(cellOf)
      PROVE  /\ rep[c] \in D /\ cellOf[rep[c]] = c
             /\ \A i \in D : cellOf[i] = c => trials[i].snr <= trials[rep[c]].snr
  <2>1. PICK S : S = {i \in D : cellOf[i] = c}
    OBVIOUS
  <2>2. rep[c] = Best(trials, S)
    BY <1>2, <1>3, <2>1 DEF Reps
  <2>3. S \in SUBSET (DOMAIN trials) /\ S # {}
    BY <1>3, <1>5, <2>1
  <2>4. rep[c] \in S /\ \A j \in S : trials[j].snr <= trials[rep[c]].snr
    BY <2>2, <2>3, BestIsBest
  <2> QED
    BY <2>1, <2>4
<1>8. DOMAIN rep = Range(cellOf)
  BY <1>2 DEF Reps
<1>9. \A i \in D : cellOf[i] \in Range(cellOf)
  BY <1>4 DEF Range
<1>10. \A i \in D : /\ trials[i].snr <= trials[rep[cellOf[i]]].snr
                    /\ trials[i].beam = trials[rep[cellOf[i]]].beam
  BY <1>4, <1>7, <1>9
<1> QED
  BY <1>1, <1>2, <1>3, <1>4, <1>6, <1>7, <1>8, <1>10 DEF GoodCells

\* DBSCAN labels each cell, with the place of a core or a place negated.
LEMMA LabelType ==
  ASSUME NEW point, DOMAIN point \subseteq Nat \ {0}, NEW m
  PROVE  Dbscan(point, m) \in [DOMAIN point -> Int \ {0}]
<1>1. PICK cores : cores = Cores(point, m)
  OBVIOUS
<1>2. PICK near : near = [c \in DOMAIN point |-> NearTo(point, c) \intersect cores]
  OBVIOUS
<1>3. PICK closed : closed = {U \in SUBSET cores : \A c \in U : near[c] \subseteq U}
  OBVIOUS
<1> DEFINE FirstCore(c) == Min({d \in cores : \A U \in closed : c \in U => d \in U})
           label == [c \in DOMAIN point |->
                       IF near[c] = {} THEN - c ELSE Min({FirstCore(d) : d \in near[c]})]
<1>4. Dbscan(point, m) = label
  BY <1>1, <1>2, <1>3 DEF Dbscan
<1>5. cores \subseteq Nat \ {0}
  BY <1>1 DEF Cores
<1>6. ASSUME NEW c \in cores
      PROVE  FirstCore(c) \in cores
  <2> DEFINE S == {d \in cores : \A U \in closed : c \in U => d \in U}
  <2>1. c \in S /\ S \in SUBSET Nat
    BY <1>5
  <2>2. Min(S) \in S
    <3> HIDE DEF S
    <3> QED
      BY <2>1, MinOfNats
  <2> QED
    BY <2>2
<1> HIDE DEF FirstCore
<1>7. ASSUME NEW c \in DOMAIN point
      PROVE  label[c] \in Int \ {0}
  <2>1. CASE near[c] = {}
    BY <2>1
  <2>2. CASE near[c] # {}
    <3> DEFINE S == {FirstCore(d) : d \in near[c]}
    <3>1. near[c] \subseteq cores
      BY <1>2
    <3>2. S # {} /\ S \subseteq cores
      BY <1>6, <2>2, <3>1
    <3>3. S \in SUBSET Nat
      BY <1>5, <3>2
    <3> HIDE DEF S
    <3>4. Min(S) \in S
      BY <3>2, <3>3, MinOfNats
    <3>5. label[c] = Min(S)
      BY <2>2 DEF S
    <3>6. \A k \in cores : k \in Int \ {0}
      BY <1>5
    <3>7. Min(S) \in cores
      BY <3>2, <3>4
    <3>8. Min(S) \in Int \ {0}
      BY <3>6, <3>7
    <3> HIDE DEF label
    <3> QED
      BY <3>5, <3>8
  <2> QED
    BY <2>1, <2>2
<1> QED
  BY <1>4, <1>7

\* The definitions within Envelopes.
CellsOf(label, a) == {c \in DOMAIN label : label[c] = a}
PeakCell(trials, rep, label, a) ==
  CHOOSE c \in CellsOf(label, a) : \A d \in CellsOf(label, a) :
    \/ trials[rep[c]].snr > trials[rep[d]].snr
    \/ trials[rep[c]].snr = trials[rep[d]].snr /\ c <= d
PeakOf(trials, rep, label) ==
  [a \in Range(label) |-> rep[PeakCell(trials, rep, label, a)]]
EnvelopeOf(trials, cellOf, rep, label, a) ==
  [peak |-> trials[PeakOf(trials, rep, label)[a]],
   nMembers |-> Cardinality({i \in DOMAIN trials : label[cellOf[i]] = a}),
   beams |-> {trials[rep[c]].beam : c \in CellsOf(label, a)}]
Precedes(trials, rep, label, a, b) ==
  LET peak == PeakOf(trials, rep, label) IN
  \/ trials[peak[a]].snr > trials[peak[b]].snr
  \/ /\ trials[peak[a]].snr = trials[peak[b]].snr
     /\ \/ a > 0 /\ b < 0
        \/ (a > 0 <=> b > 0) /\ Min(CellsOf(label, a)) < Min(CellsOf(label, b))
BestFirst(trials, rep, label) ==
  Sorted(Range(label), LAMBDA a, b : Precedes(trials, rep, label, a, b))

LEMMA EnvelopesIs ==
  ASSUME NEW trials, NEW cellOf, NEW rep, NEW label, NEW order,
         order = BestFirst(trials, rep, label)
  PROVE  Envelopes(trials, cellOf, rep, label) =
           [clusters |-> [n \in DOMAIN order |->
                            EnvelopeOf(trials, cellOf, rep, label, order[n])],
            labels |-> [i \in DOMAIN trials |->
                          CHOOSE n \in DOMAIN order : order[n] = label[cellOf[i]]]]
<1> DEFINE best == BestFirst(trials, rep, label)
<1>1. Envelopes(trials, cellOf, rep, label) =
        [clusters |-> [n \in DOMAIN best |-> EnvelopeOf(trials, cellOf, rep, label, best[n])],
         labels |-> [i \in DOMAIN trials |->
                       CHOOSE n \in DOMAIN best : best[n] = label[cellOf[i]]]]
  BY DEF Envelopes, EnvelopeOf, BestFirst, Precedes, PeakOf, PeakCell, CellsOf, Sorted
<1>2. order = best
  OBVIOUS
<1> HIDE DEF best
<1> QED
  BY <1>1, <1>2

ByPeak(trials, rep, label) ==
  {p \in Range(label) \X Range(label) : Precedes(trials, rep, label, p[1], p[2])}

LEMMA BestFirstIs ==
  ASSUME NEW trials, NEW rep, NEW label
  PROVE  BestFirst(trials, rep, label) = Listed(ByPeak(trials, rep, label), Range(label))
<1>0. PICK S : S = Range(label)
  OBVIOUS
<1>1. PICK A : A = {<<Cardinality({j \in S : Precedes(trials, rep, label, j, i)}) + 1, i>> : i \in S}
  OBVIOUS
<1>2. PICK B : B = {<<Cardinality(Below(ByPeak(trials, rep, label), S, i)) + 1, i>> : i \in S}
  OBVIOUS
<1>3. A = B
  <2>1. ASSUME NEW i \in S
        PROVE  {j \in S : Precedes(trials, rep, label, j, i)} = Below(ByPeak(trials, rep, label), S, i)
    BY <1>0 DEF ByPeak, Below
  <2> QED
    BY <1>1, <1>2, <2>1
<1>4. BestFirst(trials, rep, label) = [n \in 1 .. Cardinality(S) |-> (CHOOSE p \in A : p[1] = n)[2]]
  BY <1>0, <1>1 DEF BestFirst, Sorted
<1>5. Listed(ByPeak(trials, rep, label), S)
        = [n \in 1 .. Cardinality(S) |-> (CHOOSE p \in B : p[1] = n)[2]]
  BY <1>2 DEF Listed
<1> QED
  BY <1>0, <1>3, <1>4, <1>5

\* A cluster's peak is the best of its cells' representatives.
LEMMA PeakIs ==
  ASSUME NEW trials \in Seq(Trial), NEW cellOf, NEW rep, GoodCells(trials, cellOf, rep),
         NEW label \in [Range(cellOf) -> Int \ {0}], NEW a \in Range(label)
  PROVE  LET c == PeakCell(trials, rep, label, a) IN
         /\ c \in CellsOf(label, a) /\ PeakOf(trials, rep, label)[a] = rep[c]
         /\ \A d \in CellsOf(label, a) : trials[rep[d]].snr <= trials[rep[c]].snr
<1>1. PICK S : S = CellsOf(label, a)
  OBVIOUS
<1>2. S \subseteq Range(cellOf) /\ S # {}
  BY <1>1 DEF CellsOf, Range
<1>3. IsFiniteSet(S) /\ \A c \in S : c \in Nat /\ trials[rep[c]].snr \in Nat
  BY <1>2, FS_Subset, TrialFields DEF GoodCells
<1>4. PICK snr : snr = [c \in S |-> trials[rep[c]].snr]
  OBVIOUS
<1> DEFINE R == {p \in S \X S : snr[p[1]] > snr[p[2]] \/ (snr[p[1]] = snr[p[2]] /\ p[1] < p[2])}
<1>5. \A c \in S : c \in Nat /\ snr[c] \in Nat
  BY <1>3, <1>4
<1>6. \A c, d \in S : <<c, d>> \in R <=> snr[c] > snr[d] \/ (snr[c] = snr[d] /\ c < d)
  OBVIOUS
<1> HIDE DEF R
<1>7. Ordered(R, S)
  <2>1. \A x \in S : <<x, x>> \notin R
    BY <1>5, <1>6
  <2>2. ASSUME NEW x \in S, NEW y \in S, x # y
        PROVE  <<x, y>> \in R \/ <<y, x>> \in R
    <3>1. x \in Nat /\ y \in Nat /\ snr[x] \in Nat /\ snr[y] \in Nat
      BY <1>5
    <3> QED
      BY <1>6, <2>2, <3>1
  <2>3. ASSUME NEW x \in S, NEW y \in S, NEW z \in S, <<x, y>> \in R, <<y, z>> \in R
        PROVE  <<x, z>> \in R
    <3>1. /\ x \in Nat /\ y \in Nat /\ z \in Nat
          /\ snr[x] \in Nat /\ snr[y] \in Nat /\ snr[z] \in Nat
      BY <1>5
    <3> QED
      BY <1>6, <2>3, <3>1
  <2> QED
    BY <2>1, <2>2, <2>3 DEF Ordered
<1>8. PICK c \in S : \A d \in S : d = c \/ <<c, d>> \in R
  <2>1. IsFiniteSet(S) /\ S # {}
    BY <1>2, <1>3
  <2> QED
    BY <1>7, <2>1, Foremost
<1>9. \A d \in S : snr[c] > snr[d] \/ (snr[c] = snr[d] /\ c <= d)
  <2> SUFFICES ASSUME NEW d \in S
               PROVE  snr[c] > snr[d] \/ (snr[c] = snr[d] /\ c <= d)
    OBVIOUS
  <2>1. c \in Nat /\ d \in Nat /\ snr[c] \in Nat /\ snr[d] \in Nat
    BY <1>5
  <2>2. d = c \/ snr[c] > snr[d] \/ (snr[c] = snr[d] /\ c < d)
    BY <1>6, <1>8
  <2> QED
    BY <2>1, <2>2
<1>10. PICK b : b = PeakCell(trials, rep, label, a)
  OBVIOUS
<1>11. \A d \in S : trials[rep[c]].snr > trials[rep[d]].snr
                    \/ (trials[rep[c]].snr = trials[rep[d]].snr /\ c <= d)
  BY <1>4, <1>9
<1>12. b \in S /\ \A d \in S : trials[rep[b]].snr > trials[rep[d]].snr
                               \/ (trials[rep[b]].snr = trials[rep[d]].snr /\ b <= d)
  BY <1>1, <1>10, <1>11 DEF PeakCell
<1>13. \A d \in S : trials[rep[d]].snr <= trials[rep[b]].snr
  BY <1>3, <1>12
<1>14. PeakOf(trials, rep, label)[a] = rep[b]
  BY <1>10 DEF PeakOf
<1> QED
  BY <1>1, <1>10, <1>12, <1>13, <1>14

\* By peak, then groups before noise, then by the first cell: a total order.
LEMMA PeakOrders ==
  ASSUME NEW trials \in Seq(Trial), NEW cellOf, NEW rep, GoodCells(trials, cellOf, rep),
         NEW label \in [Range(cellOf) -> Int \ {0}]
  PROVE  /\ Ordered(ByPeak(trials, rep, label), Range(label))
         /\ \A a, b \in Range(label) :
              /\ trials[PeakOf(trials, rep, label)[a]].snr \in Nat
              /\ <<a, b>> \in ByPeak(trials, rep, label) =>
                   trials[PeakOf(trials, rep, label)[a]].snr >= trials[PeakOf(trials, rep, label)[b]].snr
<1>1. PICK S : S = Range(label)
  OBVIOUS
<1>2. S \subseteq Int \ {0}
  BY <1>1 DEF Range
<1>3. PICK snr : snr = [a \in S |-> trials[PeakOf(trials, rep, label)[a]].snr]
  OBVIOUS
<1>4. PICK first : first = [a \in S |-> Min(CellsOf(label, a))]
  OBVIOUS
<1>5. ASSUME NEW a \in S
      PROVE  snr[a] \in Nat /\ first[a] \in Nat /\ first[a] \in CellsOf(label, a)
  <2>1. PICK c : c = PeakCell(trials, rep, label, a)
    OBVIOUS
  <2>2. c \in CellsOf(label, a) /\ PeakOf(trials, rep, label)[a] = rep[c]
    BY <1>1, <2>1, PeakIs
  <2>3. CellsOf(label, a) \subseteq Range(cellOf)
    BY DEF CellsOf
  <2>4. CellsOf(label, a) \in SUBSET Nat
    BY <2>3 DEF GoodCells
  <2>5. Min(CellsOf(label, a)) \in CellsOf(label, a)
    BY <2>2, <2>4, MinOfNats
  <2>6. trials[rep[c]].snr \in Nat
    BY <2>2, <2>3, TrialFields DEF GoodCells
  <2> QED
    BY <1>3, <1>4, <2>2, <2>4, <2>5, <2>6
<1>6. \A a, b \in S : first[a] = first[b] => a = b
  BY <1>5 DEF CellsOf
<1>7. PICK R : R = ByPeak(trials, rep, label)
  OBVIOUS
<1>8. \A a, b \in S : <<a, b>> \in R <=>
        \/ snr[a] > snr[b]
        \/ /\ snr[a] = snr[b]
           /\ \/ a > 0 /\ b < 0
              \/ (a > 0 <=> b > 0) /\ first[a] < first[b]
  BY <1>1, <1>3, <1>4, <1>7 DEF ByPeak, Precedes
<1>9. \A a \in S : a \in Int /\ a # 0 /\ snr[a] \in Int /\ first[a] \in Int
  BY <1>2, <1>5
<1>10. Ordered(R, S)
  <2>1. \A x \in S : <<x, x>> \notin R
    BY <1>8, <1>9
  <2>2. ASSUME NEW x \in S, NEW y \in S, x # y
        PROVE  <<x, y>> \in R \/ <<y, x>> \in R
    <3>1. /\ x \in Int \ {0} /\ y \in Int \ {0}
          /\ snr[x] \in Int /\ snr[y] \in Int /\ first[x] \in Int /\ first[y] \in Int
      BY <1>9
    <3>2. first[x] # first[y]
      BY <1>6, <2>2
    <3> QED
      BY <1>8, <3>1, <3>2
  <2>3. ASSUME NEW x \in S, NEW y \in S, NEW z \in S, <<x, y>> \in R, <<y, z>> \in R
        PROVE  <<x, z>> \in R
    <3>1. /\ x \in Int \ {0} /\ y \in Int \ {0} /\ z \in Int \ {0}
          /\ snr[x] \in Int /\ snr[y] \in Int /\ snr[z] \in Int
          /\ first[x] \in Int /\ first[y] \in Int /\ first[z] \in Int
      BY <1>9
    <3> QED
      BY <1>8, <2>3, <3>1
  <2> QED
    BY <2>1, <2>2, <2>3 DEF Ordered
<1>11. \A a, b \in S : <<a, b>> \in R => snr[a] >= snr[b]
  BY <1>8, <1>9
<1> QED
  BY <1>1, <1>3, <1>5, <1>7, <1>10, <1>11

\* The places that a label names.
Members(label, n) == {i \in DOMAIN label : label[i] = n}

(***************************************************************************)
(* Each trial is in one cluster, which counts it, has its beam and peaks   *)
(* at least as high; best cluster first.                                   *)
(***************************************************************************)
ClustersTell(found, label, trials) ==
  /\ DOMAIN found = 1 .. Len(found) /\ Len(found) \in Nat
  /\ DOMAIN label = DOMAIN trials
  /\ \A i \in DOMAIN trials : label[i] \in DOMAIN found
  /\ \A n \in DOMAIN found :
       /\ found[n].peak \in Range(trials)
       /\ found[n].nMembers = Cardinality(Members(label, n))
       /\ found[n].beams = {trials[i].beam : i \in Members(label, n)}
       /\ \A i \in Members(label, n) : found[n].peak.snr >= trials[i].snr
       /\ \A m \in DOMAIN found : m < n => found[m].peak.snr >= found[n].peak.snr

LEMMA EnvelopesTell ==
  ASSUME NEW trials \in Seq(Trial), NEW cellOf, NEW rep, GoodCells(trials, cellOf, rep),
         NEW label \in [Range(cellOf) -> Int \ {0}]
  PROVE  /\ ClustersTell(Envelopes(trials, cellOf, rep, label).clusters,
                         Envelopes(trials, cellOf, rep, label).labels, trials)
         /\ Len(Envelopes(trials, cellOf, rep, label).clusters) = Cardinality(Range(label))
         /\ IsFiniteSet(Range(label))
         /\ \A i, j \in DOMAIN trials :
              Envelopes(trials, cellOf, rep, label).labels[i]
                = Envelopes(trials, cellOf, rep, label).labels[j]
              <=> label[cellOf[i]] = label[cellOf[j]]
<1>1. PICK answer : answer = Envelopes(trials, cellOf, rep, label)
  OBVIOUS
<1>2. PICK order : order = BestFirst(trials, rep, label)
  OBVIOUS
<1>3. PICK S : S = Range(label)
  OBVIOUS
<1>4. IsFiniteSet(S)
  <2>1. IsFiniteSet(Range(cellOf))
    BY DEF GoodCells
  <2>2. label \in Surjection(Range(cellOf), S)
    BY <1>3 DEF Range, Surjection
  <2> QED
    BY <2>1, <2>2, FS_Surjection
<1>5. PICK K : K = Cardinality(S)
  OBVIOUS
<1>6. PICK R : R = ByPeak(trials, rep, label)
  OBVIOUS
<1>7. Ordered(R, S)
  BY <1>3, <1>6, PeakOrders
<1>8. /\ K \in Nat /\ order \in [1 .. K -> S]
      /\ \A m, n \in 1 .. K : m < n => <<order[m], order[n]>> \in R
      /\ \A x \in S : \E n \in 1 .. K : order[n] = x
      /\ \A m, n \in 1 .. K : order[m] = order[n] => m = n
  <2>1. order = Listed(R, S)
    BY <1>2, <1>3, <1>6, BestFirstIs
  <2> QED
    BY <1>4, <1>5, <1>7, <2>1, ListedSorts
<1>9. PICK f : f = [n \in 1 .. K |-> EnvelopeOf(trials, cellOf, rep, label, order[n])]
  OBVIOUS
<1>10. PICK l : l = [i \in DOMAIN trials |-> CHOOSE n \in 1 .. K : order[n] = label[cellOf[i]]]
  OBVIOUS
<1>11. answer.clusters = f /\ answer.labels = l
  <2>1. DOMAIN order = 1 .. K
    BY <1>8
  <2>2. answer = [clusters |-> [n \in DOMAIN order |->
                                 EnvelopeOf(trials, cellOf, rep, label, order[n])],
                  labels |-> [i \in DOMAIN trials |->
                                CHOOSE n \in DOMAIN order : order[n] = label[cellOf[i]]]]
    BY <1>1, <1>2, EnvelopesIs
  <2>3. answer = [clusters |-> f, labels |-> l]
    BY <1>9, <1>10, <2>1, <2>2
  <2> QED
    BY <2>3
<1>12. DOMAIN f = 1 .. K /\ Len(f) = K
  <2>1. f \in [1 .. K -> {f[n] : n \in 1 .. K}]
    BY <1>9
  <2>2. f \in Seq({f[n] : n \in 1 .. K})
    BY <1>8, <2>1
  <2> QED
    BY <1>8, <2>1, <2>2
<1>13. PICK D : D = DOMAIN trials
  OBVIOUS
<1>14. \A i \in D : cellOf[i] \in Range(cellOf) /\ label[cellOf[i]] \in S
  BY <1>3, <1>13 DEF GoodCells, Range
<1>15. ASSUME NEW i \in D
       PROVE  l[i] \in 1 .. K /\ order[l[i]] = label[cellOf[i]]
  <2>1. l[i] = CHOOSE n \in 1 .. K : order[n] = label[cellOf[i]]
    BY <1>10, <1>13
  <2>2. \E n \in 1 .. K : order[n] = label[cellOf[i]]
    BY <1>8, <1>14
  <2> QED
    BY <2>1, <2>2
<1>16. ASSUME NEW n \in 1 .. K
       PROVE  {i \in D : l[i] = n} = {i \in D : label[cellOf[i]] = order[n]}
  BY <1>8, <1>15
<1>17. ASSUME NEW n \in 1 .. K
       PROVE  /\ f[n].peak \in Range(trials)
              /\ f[n].peak.snr = trials[PeakOf(trials, rep, label)[order[n]]].snr
              /\ f[n].nMembers = Cardinality({i \in D : l[i] = n})
              /\ f[n].beams = {trials[i].beam : i \in {j \in D : l[j] = n}}
              /\ \A i \in {j \in D : l[j] = n} : f[n].peak.snr >= trials[i].snr
  <2>1. PICK a \in S : a = order[n]
    BY <1>8
  <2>2. PICK c : c = PeakCell(trials, rep, label, a)
    OBVIOUS
  <2>3. /\ c \in CellsOf(label, a) /\ PeakOf(trials, rep, label)[a] = rep[c]
        /\ \A d \in CellsOf(label, a) : trials[rep[d]].snr <= trials[rep[c]].snr
    BY <1>3, <2>2, PeakIs
  <2>4. f[n] = EnvelopeOf(trials, cellOf, rep, label, a)
    BY <1>9, <2>1
  <2>5. /\ f[n].peak = trials[rep[c]]
        /\ f[n].nMembers = Cardinality({i \in D : label[cellOf[i]] = a})
        /\ f[n].beams = {trials[rep[d]].beam : d \in CellsOf(label, a)}
    BY <1>13, <2>3, <2>4 DEF EnvelopeOf
  <2>6. CellsOf(label, a) = {d \in Range(cellOf) : label[d] = a}
    BY DEF CellsOf
  <2>7. /\ \A d \in Range(cellOf) : rep[d] \in D /\ cellOf[rep[d]] = d
        /\ \A i \in D : /\ trials[i].snr <= trials[rep[cellOf[i]]].snr
                        /\ trials[i].beam = trials[rep[cellOf[i]]].beam
    BY <1>13 DEF GoodCells
  <2>8. f[n].peak \in Range(trials)
    BY <1>13, <2>3, <2>5, <2>6, <2>7 DEF Range
  <2>9. PICK M : M = {i \in D : label[cellOf[i]] = a}
    OBVIOUS
  <2>10. {trials[rep[d]].beam : d \in CellsOf(label, a)} = {trials[i].beam : i \in M}
    <3>1. ASSUME NEW d \in CellsOf(label, a)
          PROVE  \E i \in M : trials[i].beam = trials[rep[d]].beam
      BY <2>6, <2>7, <2>9
    <3>2. ASSUME NEW i \in M
          PROVE  \E d \in CellsOf(label, a) : trials[i].beam = trials[rep[d]].beam
      BY <1>14, <2>6, <2>7, <2>9
    <3> QED
      BY <3>1, <3>2
  <2>11. ASSUME NEW i \in M
         PROVE  f[n].peak.snr >= trials[i].snr
    <3>1. i \in D /\ cellOf[i] \in CellsOf(label, a)
      BY <1>14, <2>6, <2>9
    <3>2. trials[i].snr <= trials[rep[cellOf[i]]].snr
      BY <2>7, <3>1
    <3>3. trials[rep[cellOf[i]]].snr <= trials[rep[c]].snr
      BY <2>3, <3>1
    <3>4. rep[cellOf[i]] \in D /\ rep[c] \in D
      BY <1>14, <2>3, <2>6, <2>7, <3>1
    <3>5. trials[i].snr \in Nat /\ trials[rep[cellOf[i]]].snr \in Nat /\ trials[rep[c]].snr \in Nat
      BY <1>13, <3>1, <3>4, TrialFields
    <3> QED
      BY <2>5, <3>2, <3>3, <3>5
  <2>12. {i \in D : l[i] = n} = M
    BY <1>16, <2>1, <2>9
  <2> QED
    BY <2>1, <2>3, <2>5, <2>8, <2>9, <2>10, <2>11, <2>12
<1>18. ASSUME NEW m \in 1 .. K, NEW n \in 1 .. K, m < n
       PROVE  f[m].peak.snr >= f[n].peak.snr
  <2>1. order[m] \in S /\ order[n] \in S /\ <<order[m], order[n]>> \in R
    BY <1>8, <1>18
  <2>2. trials[PeakOf(trials, rep, label)[order[m]]].snr
          >= trials[PeakOf(trials, rep, label)[order[n]]].snr
    BY <1>3, <1>6, <2>1, PeakOrders
  <2> QED
    BY <1>17, <2>2
<1>19. DOMAIN l = D
  BY <1>10, <1>13
<1>20. \A n \in 1 .. K :
         /\ f[n].peak \in Range(trials)
         /\ f[n].nMembers = Cardinality({i \in D : l[i] = n})
         /\ f[n].beams = {trials[i].beam : i \in {j \in D : l[j] = n}}
         /\ \A i \in {j \in D : l[j] = n} : f[n].peak.snr >= trials[i].snr
         /\ \A m \in 1 .. K : m < n => f[m].peak.snr >= f[n].peak.snr
  BY <1>17, <1>18
<1>21. \A n : Members(l, n) = {i \in D : l[i] = n}
  BY <1>19 DEF Members
<1>22. ASSUME NEW n \in 1 .. K
       PROVE  /\ f[n].peak \in Range(trials)
              /\ f[n].nMembers = Cardinality(Members(l, n))
              /\ f[n].beams = {trials[i].beam : i \in Members(l, n)}
              /\ \A i \in Members(l, n) : f[n].peak.snr >= trials[i].snr
              /\ \A m \in 1 .. K : m < n => f[m].peak.snr >= f[n].peak.snr
  <2>1. PICK M : M = Members(l, n)
    OBVIOUS
  <2>2. M = {i \in D : l[i] = n}
    BY <1>21, <2>1
  <2> QED
    BY <1>20, <2>1, <2>2
<1>24. \A i, j \in D : l[i] = l[j] <=> label[cellOf[i]] = label[cellOf[j]]
  BY <1>8, <1>15
<1>23. ClustersTell(f, l, trials)
  BY <1>8, <1>12, <1>13, <1>15, <1>19, <1>22 DEF ClustersTell
<1> QED
  BY <1>1, <1>3, <1>4, <1>5, <1>11, <1>12, <1>13, <1>23, <1>24

\* What becomes of a gulp's clustered trials.
CellLabel(trials, s) == Dbscan(Points(trials, s), s.minSamples)

LEMMA CandidatesClustered ==
  ASSUME NEW trials \in Seq(Trial), NEW s
  PROVE  /\ ClustersTell(ClusterCandidates(trials, s).clusters,
                         ClusterCandidates(trials, s).labels, trials)
         /\ Len(ClusterCandidates(trials, s).clusters) = Cardinality(Range(CellLabel(trials, s)))
         /\ IsFiniteSet(Range(CellLabel(trials, s)))
         /\ \A i, j \in DOMAIN trials :
              ClusterCandidates(trials, s).labels[i] = ClusterCandidates(trials, s).labels[j]
              <=> CellLabel(trials, s)[CellOf(trials, s)[i]]
                    = CellLabel(trials, s)[CellOf(trials, s)[j]]
<1>1. PICK cellOf : cellOf = CellOf(trials, s)
  OBVIOUS
<1>2. PICK rep : rep = Reps(trials, cellOf)
  OBVIOUS
<1>3. PICK label : label = CellLabel(trials, s)
  OBVIOUS
<1>4. GoodCells(trials, cellOf, rep)
  BY <1>1, <1>2, CellsGood
<1>5. label \in [Range(cellOf) -> Int \ {0}]
  <2>1. DOMAIN Points(trials, s) = Range(cellOf)
    BY <1>1, <1>2, <1>4 DEF Points, GoodCells
  <2>2. Range(cellOf) \subseteq Nat \ {0}
    BY <1>4 DEF GoodCells
  <2> QED
    BY <1>3, <2>1, <2>2, LabelType DEF CellLabel
<1>6. ClusterCandidates(trials, s) = Envelopes(trials, cellOf, rep, label)
  BY <1>1, <1>2, <1>3 DEF ClusterCandidates, CellLabel
<1>7. /\ ClustersTell(Envelopes(trials, cellOf, rep, label).clusters,
                      Envelopes(trials, cellOf, rep, label).labels, trials)
      /\ Len(Envelopes(trials, cellOf, rep, label).clusters) = Cardinality(Range(label))
      /\ IsFiniteSet(Range(label))
      /\ \A i, j \in DOMAIN trials :
           Envelopes(trials, cellOf, rep, label).labels[i]
             = Envelopes(trials, cellOf, rep, label).labels[j]
           <=> label[cellOf[i]] = label[cellOf[j]]
  BY <1>4, <1>5, EnvelopesTell
<1> QED
  BY <1>1, <1>3, <1>6, <1>7

-----------------------------------------------------------------------------
(***************************************************************************)
(* Sums over a set.  The fold picks the elements in an order of its own;   *)
(* whatever the order, two sums of the same numbers agree, by a least set  *)
(* on which they differ.  What is summed is counted as units, so many for  *)
(* each element, or as members.                                            *)
(***************************************************************************)
LEMMA LeastSubset ==
  ASSUME NEW D, IsFiniteSet(D), NEW W \in SUBSET (SUBSET D), W # {}
  PROVE  \E T \in W : \A U \in W : U \subseteq T => U = T
  <1>1. W \subseteq FiniteSubsetsOf(D)
    BY FS_FiniteSubsetsOfFinite
  <1>2. PICK T \in W : \A U \in W : ~ (<<U, T>> \in StrictSubsetOrdering(D))
    BY <1>1, WFMin, FS_StrictSubsetOrderingWellFounded
  <1>3. \A U \in W : <<U, T>> \in StrictSubsetOrdering(D) <=> U \subseteq T /\ U # T
    BY DEF StrictSubsetOrdering
  <1>4. ASSUME NEW U \in W, U \subseteq T
        PROVE  U = T
    BY <1>2, <1>3, <1>4
  <1>5. QED
    BY <1>4

Units(f, D) == {u \in D \X Nat : u[2] \in 1 .. f[u[1]]}

LEMMA UnitsOfOne ==
  ASSUME NEW x, NEW n \in Nat
  PROVE  IsFiniteSet({x} \X (1 .. n)) /\ Cardinality({x} \X (1 .. n)) = n
  <1>1. IsFiniteSet({x}) /\ Cardinality({x}) = 1
    BY FS_Singleton
  <1>2. IsFiniteSet(1 .. n) /\ Cardinality(1 .. n) = n
    BY FS_Interval
  <1>3. /\ IsFiniteSet({x} \X (1 .. n))
        /\ Cardinality({x} \X (1 .. n)) = Cardinality({x}) * Cardinality(1 .. n)
    BY <1>1, <1>2, FS_Product
  <1>4. QED
    BY <1>1, <1>2, <1>3

LEMMA UnitsAdd ==
  ASSUME NEW f, NEW S, NEW x \in S, f[x] \in Nat, IsFiniteSet(Units(f, S \ {x}))
  PROVE  /\ IsFiniteSet(Units(f, S))
         /\ Cardinality(Units(f, S)) = f[x] + Cardinality(Units(f, S \ {x}))
  <1> DEFINE X == {x} \X (1 .. f[x])
             Y == Units(f, S \ {x})
  <1>1. Units(f, S) = X \union Y
    BY DEF Units
  <1>2. X \intersect Y = {}
    BY DEF Units
  <1>3. IsFiniteSet(X) /\ Cardinality(X) = f[x]
    BY UnitsOfOne
  <1>5. IsFiniteSet(Y) /\ Cardinality(Y) \in Nat /\ Cardinality(X \intersect Y) = 0
    BY <1>2, FS_CardinalityType, FS_EmptySet
  <1> HIDE DEF X, Y
  <1>4. /\ IsFiniteSet(X \union Y)
        /\ Cardinality(X \union Y) = Cardinality(X) + Cardinality(Y) - Cardinality(X \intersect Y)
    BY <1>3, <1>5, FS_Union
  <1>6. IsFiniteSet(X \union Y) /\ Cardinality(X \union Y) = f[x] + Cardinality(Y)
    BY <1>3, <1>4, <1>5
  <1>7. QED
    BY <1>1, <1>6 DEF Y

LEMMA UnitsFinite ==
  ASSUME NEW D, IsFiniteSet(D), NEW f, \A x \in D : f[x] \in Nat
  PROVE  \A S \in SUBSET D : IsFiniteSet(Units(f, S))
  <1> DEFINE W == {S \in SUBSET D : ~ IsFiniteSet(Units(f, S))}
  <1> SUFFICES ASSUME W # {} PROVE FALSE
    OBVIOUS
  <1>0. W \in SUBSET (SUBSET D)
    OBVIOUS
  <1>1. PICK T \in W : \A U \in W : U \subseteq T => U = T
    <2> HIDE DEF W
    <2> QED
      BY <1>0, LeastSubset
  <1>2. T # {}
    <2>1. Units(f, {}) = {}
      BY DEF Units
    <2>2. QED
      BY <2>1, FS_EmptySet
  <1>3. PICK x \in T : TRUE
    BY <1>2
  <1>4. T \ {x} \notin W /\ T \ {x} \in SUBSET D
    BY <1>1, <1>3
  <1>5. QED
    BY <1>3, <1>4, UnitsAdd

\* g adds f up over each subset of D, an element at a time.
SumsUp(g, f, D) ==
  g = [s \in SUBSET D |->
         IF s = {} THEN 0
         ELSE f[CHOOSE x \in s : TRUE] + g[s \ {CHOOSE x \in s : TRUE}]]

LEMMA CountSumsUp ==
  ASSUME NEW D, IsFiniteSet(D), NEW f, \A x \in D : f[x] \in Nat
  PROVE  SumsUp([s \in SUBSET D |-> Cardinality(Units(f, s))], f, D)
  <1> DEFINE count == [s \in SUBSET D |-> Cardinality(Units(f, s))]
  <1> SUFFICES ASSUME NEW s \in SUBSET D
               PROVE  count[s] = IF s = {} THEN 0
                                 ELSE f[CHOOSE x \in s : TRUE]
                                        + count[s \ {CHOOSE x \in s : TRUE}]
    BY DEF SumsUp
  <1>1. CASE s = {}
    <2>1. Units(f, s) = {}
      BY <1>1 DEF Units
    <2>2. QED
      BY <1>1, <2>1, FS_EmptySet
  <1>2. CASE s # {}
    <2>1. PICK x : x = CHOOSE y \in s : TRUE
      OBVIOUS
    <2>2. x \in s /\ f[x] \in Nat
      BY <1>2, <2>1
    <2>3. IsFiniteSet(Units(f, s \ {x}))
      BY UnitsFinite
    <2>4. Cardinality(Units(f, s)) = f[x] + Cardinality(Units(f, s \ {x}))
      BY <2>2, <2>3, UnitsAdd
    <2>5. s \ {x} \in SUBSET D
      OBVIOUS
    <2>6. count[s] = f[x] + count[s \ {x}]
      BY <2>4, <2>5
    <2> HIDE DEF count
    <2>7. QED
      BY <1>2, <2>1, <2>6
  <1>3. QED
    BY <1>1, <1>2

LEMMA SumsAgree ==
  ASSUME NEW D, IsFiniteSet(D), NEW f, NEW g, SumsUp(g, f, D), NEW h, SumsUp(h, f, D)
  PROVE  g[D] = h[D]
  <1> DEFINE W == {s \in SUBSET D : g[s] # h[s]}
  <1> SUFFICES ASSUME W # {} PROVE FALSE
    OBVIOUS
  <1>1. W \in SUBSET (SUBSET D)
    OBVIOUS
  <1>2. PICK T \in W : \A U \in W : U \subseteq T => U = T
    <2> HIDE DEF W
    <2> QED
      BY <1>1, LeastSubset
  <1>3. PICK x : x = CHOOSE y \in T : TRUE
    OBVIOUS
  <1>4. T \in SUBSET D /\ g[T] # h[T]
    OBVIOUS
  <1>5. g[T] = IF T = {} THEN 0 ELSE f[x] + g[T \ {x}]
    BY <1>3, <1>4 DEF SumsUp
  <1>6. h[T] = IF T = {} THEN 0 ELSE f[x] + h[T \ {x}]
    BY <1>3, <1>4 DEF SumsUp
  <1>7. x \in T
    BY <1>3, <1>4, <1>5, <1>6
  <1>8. T \ {x} \in SUBSET D /\ T \ {x} # T /\ T \ {x} \subseteq T
    BY <1>7
  <1>9. g[T \ {x}] = h[T \ {x}]
    BY <1>2, <1>8
  <1>10. QED
    BY <1>4, <1>5, <1>6, <1>7, <1>9

\* The trials of the jobs S, as units.
RawUnits(g, S) == Units([job \in DOMAIN g |-> Len(g[job])], S)
RawTotal(g) == LET OfJob(job) == Len(g[job]) IN MapThenSumSet(OfJob, DOMAIN g)
SizeTotal(found) == LET Size(n) == found[n].nMembers IN MapThenSumSet(Size, DOMAIN found)

LEMMA RawIsCount ==
  ASSUME NEW g, IsFiniteSet(DOMAIN g), \A job \in DOMAIN g : Len(g[job]) \in Nat
  PROVE  RawTotal(g) = Cardinality(RawUnits(g, DOMAIN g))
<1> DEFINE D == DOMAIN g
           f == [job \in D |-> Len(g[job])]
           Pick(s) == CHOOSE x \in s : TRUE
           It(h) == h = [s \in SUBSET D |->
                           IF s = {} THEN 0 ELSE Len(g[Pick(s)]) + h[s \ {Pick(s)}]]
           iter == CHOOSE h : It(h)
           count == [s \in SUBSET D |-> Cardinality(Units(f, s))]
<1>1. RawTotal(g) = iter[D]
  BY DEF RawTotal, MapThenSumSet, MapThenFoldSet
<1>2. \A x \in D : f[x] \in Nat
  OBVIOUS
<1>3. ASSUME NEW h
      PROVE  It(h) <=> SumsUp(h, f, D)
  <2>1. ASSUME NEW s \in SUBSET D
        PROVE  (IF s = {} THEN 0 ELSE Len(g[Pick(s)]) + h[s \ {Pick(s)}])
               = (IF s = {} THEN 0 ELSE f[Pick(s)] + h[s \ {Pick(s)}])
    <3>1. s # {} => f[Pick(s)] = Len(g[Pick(s)])
      OBVIOUS
    <3> QED
      BY <3>1
  <2> QED
    BY <2>1 DEF SumsUp
<1>4. SumsUp(count, f, D)
  BY <1>2, CountSumsUp
<1>5. SumsUp(iter, f, D)
  BY <1>3, <1>4
<1>6. count[D] = Cardinality(RawUnits(g, D))
  BY DEF RawUnits
<1> HIDE DEF f, iter, count
<1>7. iter[D] = count[D]
  BY <1>4, <1>5, SumsAgree
<1> QED
  BY <1>1, <1>6, <1>7

\* The members of all clusters are the places that are labelled.
LEMMA MembersSum ==
  ASSUME NEW found, IsFiniteSet(DOMAIN found), NEW label, IsFiniteSet(DOMAIN label),
         \A i \in DOMAIN label : label[i] \in DOMAIN found,
         \A n \in DOMAIN found : found[n].nMembers = Cardinality(Members(label, n))
  PROVE  SizeTotal(found) = Cardinality(DOMAIN label)
<1> DEFINE D == DOMAIN found
           P == DOMAIN label
           f == [n \in D |-> found[n].nMembers]
           Pick(s) == CHOOSE x \in s : TRUE
           It(h) == h = [s \in SUBSET D |->
                           IF s = {} THEN 0 ELSE found[Pick(s)].nMembers + h[s \ {Pick(s)}]]
           iter == CHOOSE h : It(h)
           Of(s) == {i \in P : label[i] \in s}
           count == [s \in SUBSET D |-> Cardinality(Of(s))]
<1>1. SizeTotal(found) = iter[D]
  BY DEF SizeTotal, MapThenSumSet, MapThenFoldSet
<1>2. ASSUME NEW s \in SUBSET D, NEW x \in s
      PROVE  Cardinality(Of(s)) = f[x] + Cardinality(Of(s \ {x}))
  <2>1. Of(s) = Members(label, x) \union Of(s \ {x})
    BY DEF Members
  <2>2. Members(label, x) \intersect Of(s \ {x}) = {}
    BY DEF Members
  <2>3. IsFiniteSet(Members(label, x)) /\ IsFiniteSet(Of(s \ {x}))
    BY FS_Subset DEF Members
  <2>4. f[x] = Cardinality(Members(label, x))
    OBVIOUS
  <2> HIDE DEF Of, f
  <2>5. /\ Cardinality(Of(s)) = Cardinality(Members(label, x)) + Cardinality(Of(s \ {x}))
                                  - Cardinality(Members(label, x) \intersect Of(s \ {x}))
        /\ Cardinality(Members(label, x) \intersect Of(s \ {x})) = 0
    BY <2>1, <2>2, <2>3, FS_Union, FS_EmptySet
  <2>6. Cardinality(Members(label, x)) \in Nat /\ Cardinality(Of(s \ {x})) \in Nat
    BY <2>3, FS_CardinalityType
  <2> QED
    BY <2>4, <2>5, <2>6
<1>3. SumsUp(count, f, D)
  <2> SUFFICES ASSUME NEW s \in SUBSET D
               PROVE  count[s] = IF s = {} THEN 0
                                 ELSE f[CHOOSE x \in s : TRUE]
                                        + count[s \ {CHOOSE x \in s : TRUE}]
    BY DEF SumsUp
  <2>1. CASE s = {}
    <3>1. Of(s) = {}
      BY <2>1
    <3> QED
      BY <2>1, <3>1, FS_EmptySet
  <2>2. CASE s # {}
    <3>1. PICK x : x = CHOOSE y \in s : TRUE
      OBVIOUS
    <3>2. x \in s /\ s \ {x} \in SUBSET D
      BY <2>2, <3>1
    <3>3. count[s] = f[x] + count[s \ {x}]
      BY <1>2, <3>2
    <3> HIDE DEF count, f
    <3> QED
      BY <2>2, <3>1, <3>3
  <2> QED
    BY <2>1, <2>2
<1>4. ASSUME NEW h
      PROVE  It(h) <=> SumsUp(h, f, D)
  <2>1. ASSUME NEW s \in SUBSET D
        PROVE  (IF s = {} THEN 0 ELSE found[Pick(s)].nMembers + h[s \ {Pick(s)}])
               = (IF s = {} THEN 0 ELSE f[Pick(s)] + h[s \ {Pick(s)}])
    <3>1. s # {} => f[Pick(s)] = found[Pick(s)].nMembers
      OBVIOUS
    <3> QED
      BY <3>1
  <2> QED
    BY <2>1 DEF SumsUp
<1>8. It(count)
  BY <1>3, <1>4
<1>5. SumsUp(iter, f, D)
  <2>1. It(iter)
    <3> HIDE DEF It, count
    <3> QED
      BY <1>8
  <2> HIDE DEF It, iter, f
  <2> QED
    BY <1>4, <2>1
<1>6. count[D] = Cardinality(P)
  <2>1. Of(D) = P
    OBVIOUS
  <2> QED
    BY <2>1
<1> HIDE DEF f, iter, count, P
<1>7. iter[D] = count[D]
  BY <1>3, <1>5, SumsAgree
<1> QED
  BY <1>1, <1>6, <1>7 DEF P

-----------------------------------------------------------------------------
(***************************************************************************)
(* A gulp on its way                                                       *)
(***************************************************************************)

LEMMA VetoKeeps ==
  ASSUME NEW trials \in Seq(Trial), NEW veto
  PROVE  /\ ApplyWidthVeto(trials, veto) \in Seq(Trial)
         /\ Len(ApplyWidthVeto(trials, veto)) <= Len(trials)
         /\ Range(ApplyWidthVeto(trials, veto)) = {t \in Range(trials) : t.width \notin veto}
<1>1. PICK K : K = {i \in DOMAIN trials : trials[i].width \notin veto}
  OBVIOUS
<1>2. PICK out : out = ApplyWidthVeto(trials, veto)
  OBVIOUS
<1>3. out = At(trials, K)
  BY <1>1, <1>2 DEF ApplyWidthVeto
<1>4. Picks(out, trials, K)
  BY <1>1, <1>3, InPlacePicks
<1>5. /\ out \in Seq(Trial) /\ Len(out) <= Len(trials)
      /\ Range(out) = {trials[i] : i \in K}
  BY <1>4, PickedFacts
<1>6. {trials[i] : i \in K} = {t \in Range(trials) : t.width \notin veto}
  BY <1>1 DEF Range
<1> QED
  BY <1>2, <1>5, <1>6

LEMMA RangeOfMore ==
  ASSUME NEW S, NEW a \in Seq(S), NEW b \in Seq(S)
  PROVE  Range(a \o b) = Range(a) \union Range(b)
<1>1. /\ Len(a) \in Nat /\ Len(b) \in Nat
      /\ DOMAIN a = 1 .. Len(a) /\ DOMAIN b = 1 .. Len(b) /\ DOMAIN (a \o b) = 1 .. Len(a) + Len(b)
      /\ \A i \in 1 .. Len(a) + Len(b) :
           (a \o b)[i] = IF i <= Len(a) THEN a[i] ELSE b[i - Len(a)]
  OBVIOUS
<1>2. ASSUME NEW i \in 1 .. Len(a) + Len(b)
      PROVE  (a \o b)[i] \in Range(a) \union Range(b)
  <2>1. CASE i <= Len(a)
    BY <1>1, <2>1 DEF Range
  <2>2. CASE i > Len(a)
    <3>1. i - Len(a) \in 1 .. Len(b)
      BY <1>1, <2>2
    <3> QED
      BY <1>1, <2>2, <3>1 DEF Range
  <2> QED
    BY <1>1, <2>1, <2>2
<1>3. ASSUME NEW i \in 1 .. Len(a)
      PROVE  \E j \in 1 .. Len(a) + Len(b) : (a \o b)[j] = a[i]
  BY <1>1
<1>4. ASSUME NEW i \in 1 .. Len(b)
      PROVE  \E j \in 1 .. Len(a) + Len(b) : (a \o b)[j] = b[i]
  <2>1. Len(a) + i \in 1 .. Len(a) + Len(b) /\ ~ (Len(a) + i <= Len(a)) /\ (Len(a) + i) - Len(a) = i
    BY <1>1
  <2> QED
    BY <1>1, <2>1
<1>5. Range(a \o b) = {(a \o b)[i] : i \in 1 .. Len(a) + Len(b)}
  BY <1>1 DEF Range
<1>6. Range(a) = {a[i] : i \in 1 .. Len(a)} /\ Range(b) = {b[i] : i \in 1 .. Len(b)}
  BY <1>1 DEF Range
<1>7. ASSUME NEW x \in Range(a) \union Range(b)
      PROVE  x \in Range(a \o b)
  BY <1>3, <1>4, <1>5, <1>6
<1> QED
  BY <1>2, <1>5, <1>7

LEMMA RangeOfOneMore ==
  ASSUME NEW S, NEW a \in Seq(S), NEW x \in S
  PROVE  Range(Append(a, x)) = Range(a) \union {x}
<1>1. /\ Len(a) \in Nat /\ DOMAIN a = 1 .. Len(a) /\ DOMAIN Append(a, x) = 1 .. Len(a) + 1
      /\ \A i \in 1 .. Len(a) : Append(a, x)[i] = a[i]
      /\ Append(a, x)[Len(a) + 1] = x
  OBVIOUS
<1>2. 1 .. Len(a) + 1 = (1 .. Len(a)) \union {Len(a) + 1}
  BY <1>1
<1> QED
  BY <1>1, <1>2 DEF Range

LEMMA RangeOfNone == Range(<<>>) = {}
  BY DEF Range

(***************************************************************************)
(* What is known of a gulp at each phase: the pending trials are the       *)
(* non-vetoed ones of the jobs that came, the counts add up, and what      *)
(* follows is computed from them.                                          *)
(***************************************************************************)
\* The trials of the jobs S that pass the width veto.
Passed(g, veto, S) == {t \in UNION {Range(g[job]) : job \in S} : t.width \notin veto}
KeptUnits(g, veto, S) ==
  Units([job \in DOMAIN g |-> Len(ApplyWidthVeto(g[job], veto))], S)

HandedOver ==
  /\ Range(arrived) = DOMAIN gulp /\ pending # <<>>
  /\ footprint = Footprint(pending) /\ cands = StormRule(pending, setting)

FlowInv ==
  /\ gulp \in Gulps /\ setting \in Settings
  /\ arrived \in Seq(DOMAIN gulp) /\ Cardinality(Range(arrived)) = Len(arrived)
  /\ pending \in Seq(Trial) /\ nVetoed \in Nat
  /\ Range(pending) = Passed(gulp, setting.veto, Range(arrived))
  /\ Len(pending) = Cardinality(KeptUnits(gulp, setting.veto, Range(arrived)))
  /\ Len(pending) + nVetoed = Cardinality(RawUnits(gulp, Range(arrived)))
  /\ \/ /\ phase = "collecting"
        /\ footprint = <<>> /\ cands = <<>> /\ clusters = <<>> /\ labels = <<>> /\ row = None
     \/ /\ phase = "shed" /\ HandedOver
        /\ clusters = <<>> /\ labels = <<>> /\ row = None
     \/ /\ phase = "done" /\ HandedOver
        /\ clusters = ClusterCandidates(cands, setting).clusters
        /\ labels = ClusterCandidates(cands, setting).labels
        /\ row = StatsRow(Len(pending) + nVetoed, Len(clusters), Len(pending) - Len(cands))
     \/ /\ phase = "done"
        /\ Range(arrived) = DOMAIN gulp /\ pending = <<>>
        /\ footprint = <<>> /\ cands = <<>> /\ clusters = <<>> /\ labels = <<>>
        /\ row = StatsRow(nVetoed, 0, 0)

LEMMA GulpFacts ==
  ASSUME NEW g \in Gulps
  PROVE  /\ IsFiniteSet(DOMAIN g)
         /\ \A job \in DOMAIN g : g[job] \in Seq(Trial) /\ Len(g[job]) \in Nat
<1>1. IsFiniteSet(DOMAIN g) /\ \A job \in DOMAIN g : g[job] \in Seq(Trial)
  BY GulpsAssumption
<1> QED
  BY <1>1

\* What one more batch adds to the trials that pass.
BatchIn(g, veto, S, job, kept) ==
  /\ kept \in Seq(Trial)
  /\ Passed(g, veto, S \union {job}) = Passed(g, veto, S) \union Range(kept)
  /\ Cardinality(KeptUnits(g, veto, S \union {job}))
       = Len(kept) + Cardinality(KeptUnits(g, veto, S))

LEMMA BatchAdds ==
  ASSUME NEW g \in Gulps, NEW veto, NEW S \in SUBSET (DOMAIN g), NEW job \in DOMAIN g, job \notin S,
         NEW kept, kept = ApplyWidthVeto(g[job], veto)
  PROVE  BatchIn(g, veto, S, job, kept)
<1>1. /\ kept \in Seq(Trial)
      /\ Range(kept) = {t \in Range(g[job]) : t.width \notin veto}
  BY GulpFacts, VetoKeeps
<1>2. Passed(g, veto, S \union {job}) = Passed(g, veto, S) \union Range(kept)
  <2>1. \A U, t : t \in Passed(g, veto, U) <=> t.width \notin veto /\ \E j \in U : t \in Range(g[j])
    BY DEF Passed
  <2>2. \A t : t \in Passed(g, veto, S \union {job})
          <=> t \in Passed(g, veto, S) \/ (t \in Range(g[job]) /\ t.width \notin veto)
    BY <2>1
  <2>3. \A t : t \in Range(kept) <=> t \in Range(g[job]) /\ t.width \notin veto
    BY <1>1
  <2> QED
    BY <2>2, <2>3
<1>3. Cardinality(KeptUnits(g, veto, S \union {job}))
        = Len(kept) + Cardinality(KeptUnits(g, veto, S))
  <2>1. PICK f : f = [j \in DOMAIN g |-> Len(ApplyWidthVeto(g[j], veto))]
    OBVIOUS
  <2>2. PICK T : T = S \union {job}
    OBVIOUS
  <2>3. ASSUME NEW j \in DOMAIN g
        PROVE  f[j] \in Nat
    <3>1. ApplyWidthVeto(g[j], veto) \in Seq(Trial)
      BY GulpFacts, VetoKeeps
    <3> QED
      BY <2>1, <3>1
  <2>4. T \ {job} = S /\ job \in T /\ f[job] = Len(kept) /\ f[job] \in Nat
    BY <2>1, <2>2, <2>3
  <2>5. IsFiniteSet(Units(f, S))
    BY <2>3, GulpFacts, UnitsFinite
  <2>6. Cardinality(Units(f, T)) = f[job] + Cardinality(Units(f, T \ {job}))
    <3>1. job \in T /\ f[job] \in Nat /\ IsFiniteSet(Units(f, T \ {job}))
      BY <2>4, <2>5
    <3> QED
      BY <3>1, UnitsAdd
  <2>7. KeptUnits(g, veto, T) = Units(f, T) /\ KeptUnits(g, veto, S) = Units(f, S)
    BY <2>1 DEF KeptUnits
  <2> QED
    BY <2>2, <2>4, <2>6, <2>7
<1> QED
  BY <1>1, <1>2, <1>3 DEF BatchIn

LEMMA FlowInit == Init => FlowInv
<1> SUFFICES ASSUME Init PROVE FlowInv
  OBVIOUS
<1>1. Range(arrived) = {} /\ Range(pending) = {}
  BY RangeOfNone DEF Init
<1>2. Passed(gulp, setting.veto, {}) = {} /\ RawUnits(gulp, {}) = {}
  BY DEF Passed, RawUnits, Units
<1>3. arrived \in Seq(DOMAIN gulp) /\ Len(arrived) = 0 /\ pending \in Seq(Trial) /\ Len(pending) = 0
  BY DEF Init
<1>4. Cardinality(Range(arrived)) = Len(arrived)
  BY <1>1, <1>3, FS_EmptySet
<1>5. Len(pending) + nVetoed = Cardinality(RawUnits(gulp, Range(arrived)))
  <2>1. RawUnits(gulp, Range(arrived)) = {}
    BY <1>1, <1>2
  <2>2. Len(pending) + nVetoed = 0
    BY <1>3 DEF Init
  <2> QED
    BY <2>1, <2>2, FS_EmptySet
<1>6. Len(pending) = Cardinality(KeptUnits(gulp, setting.veto, Range(arrived)))
  <2>1. KeptUnits(gulp, setting.veto, Range(arrived)) = {}
    BY <1>1 DEF KeptUnits, Units
  <2> QED
    BY <1>3, <2>1, FS_EmptySet
<1>7. nVetoed \in Nat
  BY DEF Init
<1> QED
  BY <1>1, <1>2, <1>3, <1>4, <1>5, <1>6, <1>7 DEF Init, FlowInv

\* What a batch adds.
LEMMA HandleFlow ==
  ASSUME FlowInv, NEW job \in DOMAIN gulp, Handle(job)
  PROVE  FlowInv'
<1>1. PICK batch : batch = gulp[job]
  OBVIOUS
<1>2. PICK kept : kept = ApplyWidthVeto(batch, setting.veto)
  OBVIOUS
<1>3. /\ phase = "collecting" /\ job \notin Range(arrived)
      /\ pending' = pending \o kept
      /\ nVetoed' = nVetoed + Len(batch) - Len(kept)
      /\ arrived' = Append(arrived, job)
      /\ gulp' = gulp /\ setting' = setting /\ phase' = phase /\ footprint' = footprint
      /\ cands' = cands /\ clusters' = clusters /\ labels' = labels /\ row' = row
  BY <1>1, <1>2 DEF Handle
<1>4. /\ gulp \in Gulps /\ setting \in Settings
      /\ arrived \in Seq(DOMAIN gulp) /\ Cardinality(Range(arrived)) = Len(arrived)
      /\ pending \in Seq(Trial) /\ nVetoed \in Nat
      /\ Range(pending) = Passed(gulp, setting.veto, Range(arrived))
      /\ Len(pending) = Cardinality(KeptUnits(gulp, setting.veto, Range(arrived)))
      /\ Len(pending) + nVetoed = Cardinality(RawUnits(gulp, Range(arrived)))
      /\ footprint = <<>> /\ cands = <<>> /\ clusters = <<>> /\ labels = <<>> /\ row = None
  BY <1>3 DEF FlowInv
<1>5. batch \in Seq(Trial) /\ Len(batch) \in Nat /\ IsFiniteSet(DOMAIN gulp)
  BY <1>1, <1>4, GulpFacts
<1>6. /\ kept \in Seq(Trial) /\ Len(kept) <= Len(batch)
      /\ Range(kept) = {t \in Range(batch) : t.width \notin setting.veto}
  BY <1>2, <1>5, VetoKeeps
<1>7. PICK S : S = Range(arrived)
  OBVIOUS
<1>8. Range(arrived') = S \union {job}
  BY <1>3, <1>4, <1>7, RangeOfOneMore
<1>9. S \subseteq DOMAIN gulp /\ IsFiniteSet(S)
  <2>1. S \subseteq DOMAIN gulp
    BY <1>4, <1>7 DEF Range
  <2> QED
    BY <1>5, <2>1, FS_Subset
<1>10. arrived' \in Seq(DOMAIN gulp) /\ Cardinality(Range(arrived')) = Len(arrived')
  <2>1. Cardinality(S \union {job}) = Cardinality(S) + 1
    BY <1>3, <1>7, <1>9, FS_AddElement
  <2>2. arrived' \in Seq(DOMAIN gulp) /\ Len(arrived') = Len(arrived) + 1
    BY <1>3, <1>4
  <2> QED
    BY <1>4, <1>7, <1>8, <2>1, <2>2
<1>11. /\ Len(kept) \in Nat /\ nVetoed' \in Nat /\ pending' \in Seq(Trial)
       /\ Len(pending') = Len(pending) + Len(kept)
       /\ Len(pending') + nVetoed' = Len(pending) + nVetoed + Len(batch)
  <2>1. Len(kept) \in Nat /\ Len(pending) \in Nat
    BY <1>4, <1>6
  <2>2. nVetoed' \in Nat
    BY <1>3, <1>4, <1>5, <1>6, <2>1
  <2>3. pending' \in Seq(Trial) /\ Len(pending') = Len(pending) + Len(kept)
    <3>1. pending \o kept \in Seq(Trial) /\ Len(pending \o kept) = Len(pending) + Len(kept)
      BY <1>4, <1>6, ConcatProperties
    <3> QED
      BY <1>3, <3>1
  <2> QED
    BY <1>3, <1>4, <1>5, <2>1, <2>2, <2>3
<1>12. /\ Passed(gulp, setting.veto, S \union {job}) = Passed(gulp, setting.veto, S) \union Range(kept)
       /\ Cardinality(KeptUnits(gulp, setting.veto, S \union {job}))
            = Len(kept) + Cardinality(KeptUnits(gulp, setting.veto, S))
  <2>1. S \in SUBSET (DOMAIN gulp) /\ job \notin S /\ kept = ApplyWidthVeto(gulp[job], setting.veto)
    BY <1>1, <1>2, <1>3, <1>7, <1>9
  <2>2. BatchIn(gulp, setting.veto, S, job, kept)
    BY <1>4, <2>1, BatchAdds
  <2> QED
    BY <2>2 DEF BatchIn
<1>13. Range(pending') = Passed(gulp, setting.veto, Range(arrived'))
  <2>1. Range(pending') = Range(pending) \union Range(kept)
    BY <1>3, <1>4, <1>6, RangeOfMore
  <2> QED
    BY <1>4, <1>7, <1>8, <1>12, <2>1
<1>14. Len(pending') = Cardinality(KeptUnits(gulp, setting.veto, Range(arrived')))
  <2>1. Len(pending) \in Nat /\ Len(kept) \in Nat
    BY <1>4, <1>6
  <2>2. Len(pending') = Len(pending) + Len(kept)
    BY <1>11
  <2> QED
    BY <1>4, <1>7, <1>8, <1>12, <2>1, <2>2
<1>15. Cardinality(RawUnits(gulp, S \union {job})) = Len(batch) + Cardinality(RawUnits(gulp, S))
  <2> DEFINE f == [j \in DOMAIN gulp |-> Len(gulp[j])]
             T == S \union {job}
  <2>1. f[job] = Len(batch) /\ f[job] \in Nat /\ \A x \in DOMAIN gulp : f[x] \in Nat
    BY <1>1, <1>4, <1>5, GulpFacts
  <2>2. T \ {job} = S /\ job \in T
    BY <1>3, <1>7
  <2>3. RawUnits(gulp, T) = Units(f, T) /\ RawUnits(gulp, S) = Units(f, S)
    BY DEF RawUnits
  <2> HIDE DEF f, T
  <2>4. IsFiniteSet(Units(f, S))
    <3>1. S \in SUBSET DOMAIN gulp
      BY <1>9
    <3> QED
      <4>1. \A U \in SUBSET DOMAIN gulp : IsFiniteSet(Units(f, U))
        BY <1>5, <2>1, UnitsFinite
      <4> QED
        BY <3>1, <4>1
  <2>5. Cardinality(Units(f, T)) = f[job] + Cardinality(Units(f, T \ {job}))
    <3>1. job \in T /\ f[job] \in Nat /\ IsFiniteSet(Units(f, T \ {job}))
      BY <2>1, <2>2, <2>4
    <3> QED
      BY <3>1, UnitsAdd
  <2> QED
    BY <2>1, <2>2, <2>3, <2>5 DEF T
<1>16. Len(pending') + nVetoed' = Cardinality(RawUnits(gulp, Range(arrived')))
  <2>1. Len(pending) + nVetoed \in Nat
    BY <1>4
  <2> QED
    BY <1>4, <1>5, <1>7, <1>8, <1>11, <1>15, <2>1
<1> QED
  BY <1>3, <1>4, <1>10, <1>11, <1>13, <1>14, <1>16 DEF FlowInv

\* A whole gulp has a batch of every job.
LEMMA WholeHasAll ==
  ASSUME FlowInv, Whole
  PROVE  Range(arrived) = DOMAIN gulp
<1>1. Range(arrived) \subseteq DOMAIN gulp
  BY DEF FlowInv, Range
<1>2. IsFiniteSet(DOMAIN gulp)
  BY GulpFacts DEF FlowInv
<1>3. Cardinality(Range(arrived)) = Cardinality(DOMAIN gulp)
  BY DEF FlowInv, Whole
<1> QED
  BY <1>1, <1>2, <1>3, FS_Subset

LEMMA FlowStep == FlowInv /\ [Next]_vars => FlowInv'
<1> SUFFICES ASSUME FlowInv, [Next]_vars
             PROVE  FlowInv'
  OBVIOUS
<1>1. ASSUME NEW job \in DOMAIN gulp, Handle(job)
      PROVE  FlowInv'
  BY <1>1, HandleFlow
<1>2. CASE Quiet
  <2>1. Range(arrived) = DOMAIN gulp
    BY <1>2, WholeHasAll DEF Quiet
  <2>2. /\ phase = "collecting" /\ pending = <<>> /\ phase' = "done"
        /\ gulp' = gulp /\ setting' = setting /\ arrived' = arrived /\ pending' = pending
        /\ nVetoed' = nVetoed /\ footprint' = footprint /\ cands' = cands
        /\ clusters' = clusters /\ labels' = labels
    BY <1>2 DEF Quiet
  <2>3. row' = StatsRow(nVetoed, 0, 0)'
    BY <1>2 DEF Quiet, StatsRow
  <2> QED
    BY <2>1, <2>2, <2>3 DEF FlowInv, Passed, KeptUnits
<1>3. CASE Shed
  <2>1. Range(arrived) = DOMAIN gulp
    BY <1>3, WholeHasAll DEF Shed
  <2>2. /\ phase = "collecting" /\ pending # <<>> /\ phase' = "shed"
        /\ gulp' = gulp /\ setting' = setting /\ arrived' = arrived /\ pending' = pending
        /\ nVetoed' = nVetoed /\ clusters' = clusters /\ labels' = labels /\ row' = row
        /\ footprint' = Footprint(pending) /\ cands' = StormRule(pending, setting)
    BY <1>3 DEF Shed
  <2> QED
    BY <2>1, <2>2 DEF FlowInv, Passed, KeptUnits, HandedOver
<1>4. CASE Cluster
  <2>1. /\ phase = "shed" /\ phase' = "done"
        /\ gulp' = gulp /\ setting' = setting /\ arrived' = arrived /\ pending' = pending
        /\ nVetoed' = nVetoed /\ footprint' = footprint /\ cands' = cands
        /\ clusters' = ClusterCandidates(cands, setting).clusters
        /\ labels' = ClusterCandidates(cands, setting).labels
    BY <1>4 DEF Cluster
  <2>2. row' = StatsRow(Len(pending) + nVetoed, Len(clusters'), Len(pending) - Len(cands))
    BY <1>4 DEF Cluster
  <2>3. row' = StatsRow(Len(pending) + nVetoed, Len(clusters), Len(pending) - Len(cands))'
    BY <2>1, <2>2 DEF StatsRow
  <2>4. HandedOver /\ HandedOver'
    BY <2>1 DEF FlowInv, HandedOver
  <2> QED
    BY <2>1, <2>3, <2>4 DEF FlowInv, Passed, KeptUnits
<1>5. CASE UNCHANGED vars
  <2>1. StatsRow(nVetoed, 0, 0)' = StatsRow(nVetoed, 0, 0)
    BY <1>5 DEF vars, StatsRow
  <2>2. StatsRow(Len(pending) + nVetoed, Len(clusters), Len(pending) - Len(cands))'
          = StatsRow(Len(pending) + nVetoed, Len(clusters), Len(pending) - Len(cands))
    BY <1>5 DEF vars, StatsRow
  <2> QED
    BY <1>5, <2>1, <2>2 DEF vars, FlowInv, Passed, KeptUnits, HandedOver
<1> QED
  BY <1>1, <1>2, <1>3, <1>4, <1>5 DEF Next

-----------------------------------------------------------------------------
(***************************************************************************)
(* What a gulp can count on                                                *)
(***************************************************************************)

\* Of a gulp past the storm rule.
LEMMA ShedFacts ==
  ASSUME FlowInv, phase # "collecting", pending # <<>>
  PROVE  /\ footprint = Footprint(pending) /\ cands = StormRule(pending, setting)
         /\ setting.cap \in Int /\ pending \in Seq(Trial) /\ cands \in Seq(Trial)
         /\ Range(cands) \subseteq Range(pending) /\ Len(cands) <= Len(pending)
         /\ Len(cands) = Len(pending) => Range(cands) = Range(pending)
<1>1. HandedOver /\ setting \in Settings /\ pending \in Seq(Trial)
  BY DEF FlowInv
<1>2. setting.cap \in Int
  BY <1>1, SettingsAssumption
<1>3. cands = StormRule(pending, setting) /\ footprint = Footprint(pending)
  BY <1>1 DEF HandedOver
<1>4. /\ cands \in Seq(Trial)
      /\ Range(cands) \subseteq Range(pending) /\ Len(cands) <= Len(pending)
      /\ Len(cands) = Len(pending) => Range(cands) = Range(pending)
  BY <1>1, <1>2, <1>3, StormRuleFair
<1> QED
  BY <1>1, <1>2, <1>3, <1>4

\* Of a gulp that has its row.
LEMMA DoneFacts ==
  ASSUME FlowInv, Done
  PROVE  /\ Range(arrived) = DOMAIN gulp
         /\ pending \in Seq(Trial) /\ cands \in Seq(Trial)
         /\ Range(cands) \subseteq Range(pending) /\ Len(cands) <= Len(pending)
         /\ Len(cands) = Len(pending) => Range(cands) = Range(pending)
         /\ ClustersTell(clusters, labels, cands)
         /\ row = StatsRow(Len(pending) + nVetoed, Len(clusters), Len(pending) - Len(cands))
<1>1. pending \in Seq(Trial) /\ nVetoed \in Nat /\ phase # "collecting"
  BY DEF FlowInv, Done
<1>2. CASE pending = <<>>
  <2>1. /\ Range(arrived) = DOMAIN gulp
        /\ cands = <<>> /\ clusters = <<>> /\ labels = <<>>
        /\ row = StatsRow(nVetoed, 0, 0)
    BY <1>2 DEF FlowInv, Done, HandedOver
  <2>2. Len(<<>>) = 0 /\ <<>> \in Seq(Trial) /\ DOMAIN <<>> = {} /\ 1 .. 0 = {}
    OBVIOUS
  <2>3. ClustersTell(<<>>, <<>>, <<>>)
    BY <2>2 DEF ClustersTell
  <2>4. Len(pending) + nVetoed = nVetoed /\ Len(clusters) = 0 /\ Len(pending) - Len(cands) = 0
    BY <1>1, <1>2, <2>1, <2>2
  <2> QED
    BY <1>2, <2>1, <2>2, <2>3, <2>4
<1>3. CASE pending # <<>>
  <2>1. /\ Range(arrived) = DOMAIN gulp
        /\ clusters = ClusterCandidates(cands, setting).clusters
        /\ labels = ClusterCandidates(cands, setting).labels
        /\ row = StatsRow(Len(pending) + nVetoed, Len(clusters), Len(pending) - Len(cands))
    BY <1>3 DEF FlowInv, Done, HandedOver
  <2>2. /\ cands \in Seq(Trial)
        /\ Range(cands) \subseteq Range(pending) /\ Len(cands) <= Len(pending)
        /\ Len(cands) = Len(pending) => Range(cands) = Range(pending)
    BY <1>1, <1>3, ShedFacts
  <2>3. ClustersTell(clusters, labels, cands)
    BY <2>1, <2>2, CandidatesClustered
  <2> QED
    BY <1>1, <2>1, <2>2, <2>3
<1> QED
  BY <1>2, <1>3

LEMMA FlowShedFair == FlowInv => ShedIsFair
<1> SUFFICES ASSUME FlowInv, phase \in {"shed", "done"}, pending # <<>>
             PROVE  LET capped == setting.cap > 0 /\ Len(pending) > setting.cap
                        gone == {t \in Range(pending) : CountOf(t, cands) < CountOf(t, pending)}
                    IN /\ ~ capped => cands = pending
                       /\ capped =>
                            Len(cands) <= setting.cap + Floor * Cardinality(Beams(pending))
                       /\ ~ SkipsGulp(pending, setting) =>
                            /\ Beams(cands) = Beams(pending)
                            /\ \A t \in gone, k \in Range(cands) : t.beam = k.beam => t.snr <= k.snr
                       /\ \A n \in DOMAIN clusters :
                            OccupancyBeams(footprint, clusters[n].peak.samp) =
                              Cardinality({t.beam : t \in {u \in Range(pending) :
                                 u.samp - clusters[n].peak.samp \in - Window .. Window}})
  BY DEF ShedIsFair
<1>1. /\ footprint = Footprint(pending) /\ cands = StormRule(pending, setting)
      /\ setting.cap \in Int /\ pending \in Seq(Trial) /\ cands \in Seq(Trial)
  BY ShedFacts
<1>2. ASSUME NEW n \in DOMAIN clusters
      PROVE  OccupancyBeams(footprint, clusters[n].peak.samp) =
               Cardinality({t.beam : t \in {u \in Range(pending) :
                  u.samp - clusters[n].peak.samp \in - Window .. Window}})
  <2>1. Done
    <3>1. phase = "shed" => clusters = <<>>
      BY DEF FlowInv
    <3> QED
      BY <3>1 DEF Done
  <2>2. clusters[n].peak \in Range(cands)
    BY <2>1, DoneFacts DEF ClustersTell
  <2>3. clusters[n].peak.samp \in Int
    BY <1>1, <2>2, TrialFields DEF Range
  <2> QED
    BY <1>1, <2>3, OccupancyCounts
<1> QED
  BY <1>1, <1>2, StormRuleFair

LEMMA FlowType == FlowInv => TypeOK
<1> SUFFICES ASSUME FlowInv PROVE TypeOK
  OBVIOUS
<1>1. /\ gulp \in Gulps /\ setting \in Settings
      /\ phase \in {"collecting", "shed", "done"}
      /\ Range(arrived) \subseteq DOMAIN gulp /\ nVetoed \in Nat
  BY DEF FlowInv, Range
<1>2. Range(pending) \subseteq Trial
  BY TrialFields DEF FlowInv, Range
<1>3. CASE phase = "collecting"
  <2>1. cands = <<>> /\ labels = <<>> /\ row = None
    BY <1>3 DEF FlowInv
  <2> QED
    BY <1>1, <1>2, <2>1, RangeOfNone DEF TypeOK
<1>4. CASE phase = "shed"
  <2>1. labels = <<>> /\ row = None /\ pending # <<>>
    BY <1>4 DEF FlowInv, HandedOver
  <2>2. Range(cands) \subseteq Range(pending)
    BY <1>4, <2>1, ShedFacts
  <2> QED
    BY <1>1, <1>2, <2>1, <2>2, RangeOfNone DEF TypeOK
<1>5. CASE phase = "done"
  <2>1. /\ pending \in Seq(Trial) /\ cands \in Seq(Trial)
        /\ Range(cands) \subseteq Range(pending) /\ Len(cands) <= Len(pending)
        /\ ClustersTell(clusters, labels, cands)
        /\ row = StatsRow(Len(pending) + nVetoed, Len(clusters), Len(pending) - Len(cands))
    BY <1>5, DoneFacts DEF Done
  <2>2. Range(labels) \subseteq DOMAIN clusters /\ Len(clusters) \in Nat
    BY <2>1 DEF ClustersTell, Range
  <2>3. Len(pending) \in Nat /\ Len(cands) \in Nat
    BY <2>1
  <2>4. Len(pending) + nVetoed \in Nat /\ Len(pending) - Len(cands) \in Nat
    BY <1>1, <2>1, <2>3
  <2>5. row \in [nCands : Nat, nClusters : Nat, nVetoed : Nat, nShed : Nat]
    BY <1>1, <2>1, <2>2, <2>4 DEF StatsRow
  <2> QED
    BY <1>1, <1>2, <2>1, <2>2, <2>5 DEF TypeOK
<1> QED
  BY <1>1, <1>3, <1>4, <1>5

LEMMA AccountedIs ==
  TrialsAccounted <=>
    (Done =>
       /\ row.nCands = RawTotal(gulp)
       /\ row.nVetoed + row.nShed + SizeTotal(clusters) = row.nCands
       /\ \A n \in DOMAIN clusters :
            /\ clusters[n].nMembers = Cardinality({i \in DOMAIN cands : labels[i] = n})
            /\ clusters[n].beams = {cands[i].beam : i \in {j \in DOMAIN cands : labels[j] = n}}
            /\ \A i \in {j \in DOMAIN cands : labels[j] = n} : clusters[n].peak.snr >= cands[i].snr
            /\ \A m \in DOMAIN clusters :
                 m < n => clusters[m].peak.snr >= clusters[n].peak.snr)
  BY DEF TrialsAccounted, RawTotal, SizeTotal

LEMMA FlowAccounted == FlowInv => TrialsAccounted
<1> SUFFICES ASSUME FlowInv, Done
             PROVE  /\ row.nCands = RawTotal(gulp)
                    /\ row.nVetoed + row.nShed + SizeTotal(clusters) = row.nCands
                    /\ \A n \in DOMAIN clusters :
                         /\ clusters[n].nMembers = Cardinality({i \in DOMAIN cands : labels[i] = n})
                         /\ clusters[n].beams = {cands[i].beam : i \in {j \in DOMAIN cands : labels[j] = n}}
                         /\ \A i \in {j \in DOMAIN cands : labels[j] = n} : clusters[n].peak.snr >= cands[i].snr
                         /\ \A m \in DOMAIN clusters :
                              m < n => clusters[m].peak.snr >= clusters[n].peak.snr
  BY AccountedIs
<1>1. /\ Range(arrived) = DOMAIN gulp
      /\ pending \in Seq(Trial) /\ cands \in Seq(Trial)
      /\ ClustersTell(clusters, labels, cands)
      /\ row = StatsRow(Len(pending) + nVetoed, Len(clusters), Len(pending) - Len(cands))
  BY DoneFacts
<1>2. /\ gulp \in Gulps /\ nVetoed \in Nat
      /\ Len(pending) + nVetoed = Cardinality(RawUnits(gulp, Range(arrived)))
  BY DEF FlowInv
<1>3. /\ row.nCands = Len(pending) + nVetoed /\ row.nVetoed = nVetoed
      /\ row.nShed = Len(pending) - Len(cands)
  BY <1>1 DEF StatsRow
<1>4. row.nCands = RawTotal(gulp)
  BY <1>1, <1>2, <1>3, GulpFacts, RawIsCount
<1>5. SizeTotal(clusters) = Len(cands)
  <2>1. IsFiniteSet(DOMAIN cands) /\ Cardinality(DOMAIN cands) = Len(cands)
    BY <1>1, PlacesFinite
  <2>2. /\ DOMAIN labels = DOMAIN cands
        /\ \A i \in DOMAIN labels : labels[i] \in DOMAIN clusters
        /\ \A n \in DOMAIN clusters : clusters[n].nMembers = Cardinality(Members(labels, n))
        /\ DOMAIN clusters = 1 .. Len(clusters) /\ Len(clusters) \in Nat
    BY <1>1 DEF ClustersTell
  <2>3. IsFiniteSet(DOMAIN clusters)
    BY <2>2, FS_Interval
  <2>4. SizeTotal(clusters) = Cardinality(DOMAIN labels)
    BY <2>1, <2>2, <2>3, MembersSum
  <2> QED
    BY <2>1, <2>2, <2>4
<1>6. row.nVetoed + row.nShed + SizeTotal(clusters) = row.nCands
  <2>1. Len(pending) \in Nat /\ Len(cands) \in Nat
    BY <1>1
  <2> QED
    BY <1>2, <1>3, <1>5, <2>1
<1>7. ASSUME NEW n \in DOMAIN clusters
      PROVE  /\ clusters[n].nMembers = Cardinality({i \in DOMAIN cands : labels[i] = n})
             /\ clusters[n].beams = {cands[i].beam : i \in {j \in DOMAIN cands : labels[j] = n}}
             /\ \A i \in {j \in DOMAIN cands : labels[j] = n} : clusters[n].peak.snr >= cands[i].snr
             /\ \A m \in DOMAIN clusters :
                  m < n => clusters[m].peak.snr >= clusters[n].peak.snr
  <2>1. PICK M : M = Members(labels, n)
    OBVIOUS
  <2>2. M = {i \in DOMAIN cands : labels[i] = n}
    BY <1>1, <2>1 DEF ClustersTell, Members
  <2>3. /\ clusters[n].nMembers = Cardinality(M)
        /\ clusters[n].beams = {cands[i].beam : i \in M}
        /\ \A i \in M : clusters[n].peak.snr >= cands[i].snr
        /\ \A m \in DOMAIN clusters : m < n => clusters[m].peak.snr >= clusters[n].peak.snr
    BY <1>1, <2>1 DEF ClustersTell
  <2> QED
    BY <2>2, <2>3
<1> QED
  BY <1>4, <1>6, <1>7

LEMMA FlowReasons == FlowInv => MissReasonTrue
<1> SUFFICES ASSUME FlowInv, Done, NEW beams
             PROVE  LET matched == MatchedTrials(beams)
                        reached == matched \intersect Range(cands)
                        reason == T2MissReason(matched)
                    IN /\ reason \in {"width-vetoed", "dropped by the storm cap"} => reached = {}
                       /\ reason = "intact" => reached # {}
  BY DEF MissReasonTrue
<1>1. /\ Range(arrived) = DOMAIN gulp
      /\ pending \in Seq(Trial) /\ cands \in Seq(Trial)
      /\ Range(cands) \subseteq Range(pending) /\ Len(cands) <= Len(pending)
      /\ Len(cands) = Len(pending) => Range(cands) = Range(pending)
      /\ row = StatsRow(Len(pending) + nVetoed, Len(clusters), Len(pending) - Len(cands))
  BY DoneFacts
<1>2. nVetoed \in Nat /\ Range(pending) = Passed(gulp, setting.veto, DOMAIN gulp)
  BY <1>1 DEF FlowInv
<1>3. /\ row.nCands = Len(pending) + nVetoed /\ row.nShed = Len(pending) - Len(cands)
      /\ Len(pending) \in Nat /\ Len(cands) \in Nat
  BY <1>1 DEF StatsRow
<1>4. PICK matched : matched = MatchedTrials(beams)
  OBVIOUS
<1>5. PICK reason : reason = T2MissReason(matched)
  OBVIOUS
<1>6. PICK nShed : nShed = row.nShed
  OBVIOUS
<1>7. PICK nCands : nCands = row.nCands
  OBVIOUS
<1>8. reason = CASE nShed > 0 /\ nCands > 0 /\ nShed >= nCands -> "dropped by the storm cap"
                 [] nShed > 0 /\ ~ (nShed > 0 /\ nCands > 0 /\ nShed >= nCands) -> "shed in part"
                 [] nShed = 0 /\ AllVetoWidth(matched) -> "width-vetoed"
                 [] OTHER -> "intact"
  BY <1>5, <1>6, <1>7 DEF T2MissReason
<1>9. ASSUME reason = "dropped by the storm cap"
      PROVE  matched \intersect Range(cands) = {}
  <2>1. nShed > 0 /\ nCands > 0 /\ nShed >= nCands
    BY <1>8, <1>9
  <2>2. Len(cands) = 0
    BY <1>2, <1>3, <1>6, <1>7, <2>1
  <2>3. cands = <<>>
    BY <1>1, <2>2
  <2> QED
    BY <2>3, RangeOfNone
<1>10. ASSUME reason = "width-vetoed"
       PROVE  matched \intersect Range(cands) = {}
  <2>1. AllVetoWidth(matched)
    BY <1>8, <1>10
  <2> QED
    BY <1>1, <1>2, <2>1 DEF AllVetoWidth, Passed
<1>11. ASSUME reason = "intact"
       PROVE  matched \intersect Range(cands) # {}
  <2>1. nShed \in Nat
    BY <1>1, <1>3, <1>6
  <2>2. nShed = 0 /\ ~ AllVetoWidth(matched)
    BY <1>8, <1>11, <2>1
  <2>3. PICK t \in matched : t.width \notin setting.veto
    BY <2>2 DEF AllVetoWidth
  <2>4. t \in Range(pending)
    BY <1>2, <1>4, <2>3 DEF MatchedTrials, AllOf, Passed
  <2>5. Range(cands) = Range(pending)
    BY <1>1, <1>3, <1>6, <2>2
  <2> QED
    BY <2>4, <2>5
<1> QED
  BY <1>4, <1>5, <1>9, <1>10, <1>11

-----------------------------------------------------------------------------
(***************************************************************************)
(* The order of the batches.  Two sequences of the same trials, no two of  *)
(* them with the same S/N, are shed, divided into cells and represented    *)
(* alike, and DBSCAN sees the same points under other names.               *)
(***************************************************************************)
Distinct(c) == \A i, j \in DOMAIN c : c[i].snr = c[j].snr => i = j
Image(c, S) == {c[i] : i \in S}

LEMMA ImagesCount ==
  ASSUME NEW c \in Seq(Trial), Distinct(c), NEW S \in SUBSET (DOMAIN c)
  PROVE  IsFiniteSet(S) /\ Cardinality(Image(c, S)) = Cardinality(S)
<1> DEFINE I == Image(c, S)
           f == [i \in S |-> c[i]]
<1>1. IsFiniteSet(S)
  BY PlacesFinite, FS_Subset
<1>2. f \in [S -> I] /\ \A x \in I : \E i \in S : f[i] = x
  BY DEF Image
<1>3. \A i, j \in S : f[i] = f[j] => i = j
  BY DEF Distinct
<1> HIDE DEF I, f
<1>4. f \in Bijection(S, I)
  BY <1>2, <1>3 DEF Bijection, Injection, Surjection, IsInjective
<1>5. ExistsBijection(S, I)
  BY <1>4 DEF ExistsBijection
<1>6. Cardinality(S) = Cardinality(I)
  BY <1>1, <1>5, FS_Bijection
<1> QED
  BY <1>1, <1>6 DEF I

\* Of the trials at the places S of c and T of d, A and B hold the same.
SameOf(c, S, A, d, T, B) ==
  /\ A \subseteq S /\ B \subseteq T
  /\ \A i \in S, j \in T : c[i] = d[j] => (i \in A <=> j \in B)

LEMMA ImagesAgree ==
  ASSUME NEW c, NEW d, NEW S, NEW T, Image(c, S) = Image(d, T),
         NEW A, NEW B, SameOf(c, S, A, d, T, B)
  PROVE  Image(c, A) = Image(d, B)
<1>0. /\ A \subseteq S /\ B \subseteq T
      /\ \A i \in S, j \in T : c[i] = d[j] => (i \in A <=> j \in B)
  BY DEF SameOf
<1>1. \A i \in S : \E j \in T : c[i] = d[j]
  BY DEF Image
<1>2. \A j \in T : \E i \in S : c[i] = d[j]
  BY DEF Image
<1>3. ASSUME NEW i \in A
      PROVE  c[i] \in Image(d, B)
  <2>1. PICK j \in T : c[i] = d[j]
    BY <1>0, <1>1
  <2> QED
    BY <1>0, <2>1 DEF Image
<1>4. ASSUME NEW j \in B
      PROVE  d[j] \in Image(c, A)
  <2>1. PICK i \in S : c[i] = d[j]
    BY <1>0, <1>2
  <2> QED
    BY <1>0, <2>1 DEF Image
<1> QED
  BY <1>3, <1>4 DEF Image

LEMMA RanksMatch ==
  ASSUME NEW c \in Seq(Trial), Distinct(c), NEW d \in Seq(Trial), Distinct(d),
         NEW S \in SUBSET (DOMAIN c), NEW T \in SUBSET (DOMAIN d), Image(c, S) = Image(d, T),
         NEW i \in S, NEW j \in T, c[i] = d[j]
  PROVE  Rank(BySnr(c, S), S, i) = Rank(BySnr(d, T), T, j)
<1>1. ASSUME NEW e \in Seq(Trial), Distinct(e), NEW U \in SUBSET (DOMAIN e), NEW k \in U
      PROVE  Below(BySnr(e, U), U, k) = {x \in U : e[x].snr > e[k].snr}
  <2>1. \A x \in U : x \in Nat /\ e[x].snr \in Nat
    BY <1>1, TrialFields
  <2>2. ASSUME NEW x \in U
        PROVE  Better(e, x, k) <=> e[x].snr > e[k].snr
    <3>1. e[x].snr = e[k].snr => x = k
      BY <1>1 DEF Distinct
    <3>2. ~ (k < k)
      BY <2>1
    <3> QED
      BY <3>1, <3>2 DEF Better
  <2> QED
    BY <2>2 DEF Below, BySnr
<1>2. PICK A : A = {x \in S : c[x].snr > c[i].snr}
  OBVIOUS
<1>3. PICK B : B = {x \in T : d[x].snr > d[j].snr}
  OBVIOUS
<1>4. Image(c, A) = Image(d, B)
  <2>1. A \in SUBSET S /\ B \in SUBSET T
    BY <1>2, <1>3
  <2>2. \A x \in S, y \in T : c[x] = d[y] => (x \in A <=> y \in B)
    BY <1>2, <1>3
  <2>3. SameOf(c, S, A, d, T, B)
    BY <2>1, <2>2 DEF SameOf
  <2> QED
    BY <2>3, ImagesAgree
<1>5. A \in SUBSET (DOMAIN c) /\ B \in SUBSET (DOMAIN d)
  BY <1>2, <1>3
<1>6. Cardinality(Image(c, A)) = Cardinality(A) /\ Cardinality(Image(d, B)) = Cardinality(B)
  BY <1>5, ImagesCount
<1>7. Below(BySnr(c, S), S, i) = A /\ Below(BySnr(d, T), T, j) = B
  BY <1>1, <1>2, <1>3
<1> QED
  BY <1>4, <1>6, <1>7 DEF Rank

LEMMA SkyIsSnr ==
  ASSUME NEW c \in Seq(Trial), Distinct(c), NEW S \in SUBSET (DOMAIN c)
  PROVE  BySky(c, S) = BySnr(c, S)
<1>1. \A i \in S : i \in Nat /\ c[i].snr \in Nat /\ c[i].beam \in BeamsIn(c)
  BY TrialFields DEF BeamsIn
<1>2. \A b \in BeamsIn(c) : Seen(c)[b] \in Nat
  BY SeenApart
<1>3. ASSUME NEW i \in S, NEW j \in S
      PROVE  BetterInSky(c, j, i) <=> Better(c, j, i)
  <2>1. CASE c[j].snr = c[i].snr
    <3>1. j = i
      BY <2>1 DEF Distinct
    <3>2. ~ (i < i) /\ ~ (Seen(c)[c[i].beam] < Seen(c)[c[i].beam])
      BY <1>1, <1>2
    <3> QED
      BY <3>1, <3>2 DEF Better, BetterInSky
  <2>2. CASE c[j].snr # c[i].snr
    BY <2>2 DEF Better, BetterInSky
  <2> QED
    BY <2>1, <2>2
<1> QED
  BY <1>3 DEF BySky, BySnr

LEMMA BestsMatch ==
  ASSUME NEW c \in Seq(Trial), Distinct(c), NEW d \in Seq(Trial), Distinct(d),
         NEW S \in SUBSET (DOMAIN c), NEW T \in SUBSET (DOMAIN d), Image(c, S) = Image(d, T),
         NEW n
  PROVE  /\ Image(c, First(BySnr(c, S), S, n)) = Image(d, First(BySnr(d, T), T, n))
         /\ Image(c, BestOfBeams(c, S, n)) = Image(d, BestOfBeams(d, T, n))
<1>1. Image(c, First(BySnr(c, S), S, n)) = Image(d, First(BySnr(d, T), T, n))
  <2>1. First(BySnr(c, S), S, n) \in SUBSET S /\ First(BySnr(d, T), T, n) \in SUBSET T
    BY DEF First
  <2>2. \A i \in S, j \in T : c[i] = d[j] =>
          (i \in First(BySnr(c, S), S, n) <=> j \in First(BySnr(d, T), T, n))
    BY RanksMatch DEF First
  <2>3. SameOf(c, S, First(BySnr(c, S), S, n), d, T, First(BySnr(d, T), T, n))
    BY <2>1, <2>2 DEF SameOf
  <2> QED
    BY <2>3, ImagesAgree
<1>2. Image(c, BestOfBeams(c, S, n)) = Image(d, BestOfBeams(d, T, n))
  <2> DEFINE Beside(i) == InBeam(c, S, c[i].beam)
             Across(j) == InBeam(d, T, d[j].beam)
  <2>1. /\ BestOfBeams(c, S, n) = {i \in S : Rank(BySnr(c, Beside(i)), Beside(i), i) < n}
        /\ BestOfBeams(d, T, n) = {j \in T : Rank(BySnr(d, Across(j)), Across(j), j) < n}
    BY BestOfBeamsIs
  <2>2. ASSUME NEW i \in S, NEW j \in T, c[i] = d[j]
        PROVE  Rank(BySnr(c, Beside(i)), Beside(i), i) = Rank(BySnr(d, Across(j)), Across(j), j)
    <3>1. PICK U : U = Beside(i)
      OBVIOUS
    <3>2. PICK V : V = Across(j)
      OBVIOUS
    <3>3. U \in SUBSET S /\ V \in SUBSET T /\ i \in U /\ j \in V
      BY <3>1, <3>2 DEF InBeam
    <3>4. \A x \in S, y \in T : c[x] = d[y] => (x \in U <=> y \in V)
      BY <2>2, <3>1, <3>2 DEF InBeam
    <3>5. Image(c, U) = Image(d, V)
      <4>1. SameOf(c, S, U, d, T, V)
        BY <3>3, <3>4 DEF SameOf
      <4> QED
        BY <4>1, ImagesAgree
    <3>6. U \in SUBSET (DOMAIN c) /\ V \in SUBSET (DOMAIN d)
      BY <3>3
    <3>7. Rank(BySnr(c, U), U, i) = Rank(BySnr(d, V), V, j)
      BY <2>2, <3>3, <3>5, <3>6, RanksMatch
    <3> QED
      BY <3>1, <3>2, <3>7
  <2> HIDE DEF Beside, Across
  <2>3. \A i \in S, j \in T : c[i] = d[j] =>
          (i \in BestOfBeams(c, S, n) <=> j \in BestOfBeams(d, T, n))
    BY <2>1, <2>2
  <2>4. BestOfBeams(c, S, n) \in SUBSET S /\ BestOfBeams(d, T, n) \in SUBSET T
    BY <2>1
  <2>5. SameOf(c, S, BestOfBeams(c, S, n), d, T, BestOfBeams(d, T, n))
    BY <2>3, <2>4 DEF SameOf
  <2> QED
    BY <2>5, ImagesAgree
<1> QED
  BY <1>1, <1>2

LEMMA KeptMatch ==
  ASSUME NEW c \in Seq(Trial), Distinct(c), NEW d \in Seq(Trial), Distinct(d),
         Image(c, DOMAIN c) = Image(d, DOMAIN d), NEW cap
  PROVE  /\ Kept(c, cap) \in SUBSET (DOMAIN c) /\ Kept(d, cap) \in SUBSET (DOMAIN d)
         /\ Image(c, Kept(c, cap)) = Image(d, Kept(d, cap))
<1>1. PICK S : S = Survivors(c, cap)
  OBVIOUS
<1>2. PICK T : T = Survivors(d, cap)
  OBVIOUS
<1>3. ASSUME NEW e, NEW U \in SUBSET (DOMAIN e), NEW n
      PROVE  BestOfBeams(e, U, n) \in SUBSET U
  BY BestOfBeamsIs
<1>4. S \in SUBSET (DOMAIN c) /\ T \in SUBSET (DOMAIN d) /\ Image(c, S) = Image(d, T)
  <2>1. S = BestOfBeams(c, DOMAIN c, Quota(cap)) /\ T = BestOfBeams(d, DOMAIN d, Quota(cap))
    BY <1>1, <1>2, KeptIs
  <2> QED
    BY <1>3, <2>1, BestsMatch
<1>5. Cardinality(S) = Cardinality(T)
  <2>1. Cardinality(Image(c, S)) = Cardinality(S) /\ Cardinality(Image(d, T)) = Cardinality(T)
    BY <1>4, ImagesCount
  <2> QED
    BY <1>4, <2>1
<1>6. PICK F : F = First(BySnr(c, S), S, cap)
  OBVIOUS
<1>7. PICK G : G = First(BySnr(d, T), T, cap)
  OBVIOUS
<1>8. PICK P : P = BestOfBeams(c, S, Floor)
  OBVIOUS
<1>9. PICK Q : Q = BestOfBeams(d, T, Floor)
  OBVIOUS
<1>10. /\ Kept(c, cap) = IF Cardinality(S) <= cap THEN S ELSE F \union P
       /\ Kept(d, cap) = IF Cardinality(T) <= cap THEN T ELSE G \union Q
  <2>1. BySky(c, S) = BySnr(c, S) /\ BySky(d, T) = BySnr(d, T)
    BY <1>4, SkyIsSnr
  <2> QED
    BY <1>1, <1>2, <1>6, <1>7, <1>8, <1>9, <2>1, KeptIs
<1>11. Image(c, F) = Image(d, G) /\ Image(c, P) = Image(d, Q)
  BY <1>4, <1>6, <1>7, <1>8, <1>9, BestsMatch
<1>12. F \subseteq S /\ G \subseteq T /\ P \subseteq S /\ Q \subseteq T
  BY <1>3, <1>4, <1>6, <1>7, <1>8, <1>9 DEF First
<1>13. Image(c, F \union P) = Image(d, G \union Q)
  <2>1. Image(c, F \union P) = Image(c, F) \union Image(c, P)
    BY DEF Image
  <2>2. Image(d, G \union Q) = Image(d, G) \union Image(d, Q)
    BY DEF Image
  <2> QED
    BY <1>11, <2>1, <2>2
<1> QED
  BY <1>4, <1>5, <1>10, <1>12, <1>13

LEMMA PickedDistinct ==
  ASSUME NEW c \in Seq(Trial), Distinct(c), NEW K, NEW out, Picks(out, c, K)
  PROVE  out \in Seq(Trial) /\ Distinct(out) /\ Range(out) = Image(c, K)
<1>1. PICK L \in [1 .. Cardinality(K) -> K] :
        /\ \A m, n \in 1 .. Cardinality(K) : L[m] = L[n] => m = n
        /\ \A i \in K : \E n \in 1 .. Cardinality(K) : L[n] = i
        /\ out = [n \in 1 .. Cardinality(K) |-> c[L[n]]]
  BY DEF Picks
<1>2. K \subseteq DOMAIN c
  BY DEF Picks
<1>3. /\ DOMAIN out = 1 .. Cardinality(K)
      /\ \A n \in 1 .. Cardinality(K) : L[n] \in DOMAIN c /\ out[n] = c[L[n]]
  BY <1>1, <1>2
<1>4. Distinct(out)
  BY <1>1, <1>3 DEF Distinct
<1> QED
  BY <1>4, PickedFacts DEF Image

LEMMA StormRuleMatch ==
  ASSUME NEW c \in Seq(Trial), Distinct(c), NEW d \in Seq(Trial), Distinct(d),
         Range(c) = Range(d), NEW s, s.cap \in Int
  PROVE  /\ StormRule(c, s) \in Seq(Trial) /\ StormRule(d, s) \in Seq(Trial)
         /\ Distinct(StormRule(c, s)) /\ Distinct(StormRule(d, s))
         /\ Range(StormRule(c, s)) = Range(StormRule(d, s))
<1>1. Image(c, DOMAIN c) = Image(d, DOMAIN d)
  BY DEF Image, Range
<1>2. Len(c) = Len(d)
  <2>1. /\ Cardinality(Image(c, DOMAIN c)) = Len(c)
        /\ Cardinality(Image(d, DOMAIN d)) = Len(d)
    BY ImagesCount, PlacesFinite
  <2> QED
    BY <1>1, <2>1
<1>3. CASE SkipsGulp(c, s)
  <2>1. StormRule(c, s) = <<>> /\ StormRule(d, s) = <<>>
    BY <1>2, <1>3 DEF StormRule, SkipsGulp
  <2>2. Distinct(<<>>) /\ <<>> \in Seq(Trial)
    BY DEF Distinct
  <2> QED
    BY <2>1, <2>2
<1>4. CASE ~ SkipsGulp(c, s) /\ (s.cap <= 0 \/ Len(c) <= s.cap)
  <2>1. StormRule(c, s) = c /\ StormRule(d, s) = d
    BY <1>2, <1>4, StormCapIs DEF StormRule, SkipsGulp
  <2> QED
    BY <2>1
<1>5. CASE ~ SkipsGulp(c, s) /\ ~ (s.cap <= 0 \/ Len(c) <= s.cap)
  <2>1. PICK A : A = Kept(c, s.cap)
    OBVIOUS
  <2>2. PICK B : B = Kept(d, s.cap)
    OBVIOUS
  <2>3. StormRule(c, s) = At(c, A) /\ StormRule(d, s) = At(d, B)
    BY <1>2, <1>5, <2>1, <2>2, StormCapIs DEF StormRule, SkipsGulp
  <2>4. /\ A \in SUBSET (DOMAIN c) /\ B \in SUBSET (DOMAIN d)
        /\ Image(c, A) = Image(d, B)
    BY <1>1, <2>1, <2>2, KeptMatch
  <2>5. Picks(At(c, A), c, A) /\ Picks(At(d, B), d, B)
    BY <2>4, InPlacePicks
  <2>6. At(c, A) \in Seq(Trial) /\ Distinct(At(c, A)) /\ Range(At(c, A)) = Image(c, A)
    BY <2>5, PickedDistinct
  <2>7. At(d, B) \in Seq(Trial) /\ Distinct(At(d, B)) /\ Range(At(d, B)) = Image(d, B)
    BY <2>5, PickedDistinct
  <2> QED
    BY <2>3, <2>4, <2>6, <2>7
<1> QED
  BY <1>3, <1>4, <1>5

\* The cells and their points are the same, under other names.
SamePoints(p, q, phi) ==
  /\ phi \in Bijection(DOMAIN p, DOMAIN q)
  /\ \A k \in DOMAIN p : q[phi[k]] = p[k]

LEMMA PointFacts ==
  ASSUME NEW c \in Seq(Trial), NEW s
  PROVE  LET cellOf == CellOf(c, s) IN
         /\ DOMAIN Points(c, s) = Range(cellOf) /\ IsFiniteSet(Range(cellOf))
         /\ Range(cellOf) \subseteq Nat \ {0}
         /\ \A i \in DOMAIN c : cellOf[i] \in Range(cellOf) /\ cellOf[cellOf[i]] = cellOf[i]
         /\ \A k \in Range(cellOf) : k \in DOMAIN c /\ cellOf[k] = k
         /\ \A i, j \in DOMAIN c : cellOf[i] = cellOf[j] <=> CellKey(c[i], s) = CellKey(c[j], s)
<1>1. PICK cellOf : cellOf = CellOf(c, s)
  OBVIOUS
<1>2. PICK rep : rep = Reps(c, cellOf)
  OBVIOUS
<1>3. GoodCells(c, cellOf, rep)
  BY <1>1, <1>2, CellsGood
<1>4. DOMAIN Points(c, s) = Range(cellOf)
  BY <1>1, <1>2, <1>3 DEF Points, GoodCells
<1>5. /\ DOMAIN cellOf = DOMAIN c /\ \A i \in DOMAIN c : cellOf[i] \in DOMAIN c
      /\ \A i, j \in DOMAIN c : cellOf[i] = cellOf[j] <=> CellKey(c[i], s) = CellKey(c[j], s)
      /\ \A i \in DOMAIN c : cellOf[cellOf[i]] = cellOf[i]
  BY <1>1, CellFacts
<1>6. \A i \in DOMAIN c : cellOf[i] \in Range(cellOf)
  BY <1>5 DEF Range
<1>7. \A k \in Range(cellOf) : \E i \in DOMAIN c : k = cellOf[i]
  BY <1>5 DEF Range
<1>8. \A k \in Range(cellOf) : k \in DOMAIN c /\ cellOf[k] = k
  BY <1>5, <1>7
<1>9. IsFiniteSet(Range(cellOf)) /\ Range(cellOf) \subseteq Nat \ {0}
  BY <1>3 DEF GoodCells
<1> QED
  BY <1>1, <1>4, <1>5, <1>6, <1>8, <1>9

LEMMA CellsMatch ==
  ASSUME NEW c \in Seq(Trial), Distinct(c), NEW d \in Seq(Trial), Distinct(d),
         Range(c) = Range(d), NEW s
  PROVE  \E phi : /\ SamePoints(Points(c, s), Points(d, s), phi)
                  /\ \A i \in DOMAIN c, j \in DOMAIN d :
                       c[i] = d[j] => CellOf(d, s)[j] = phi[CellOf(c, s)[i]]
<1>1. PICK A : A = CellOf(c, s)
  OBVIOUS
<1>2. PICK B : B = CellOf(d, s)
  OBVIOUS
<1>3. PICK p : p = Points(c, s)
  OBVIOUS
<1>4. PICK q : q = Points(d, s)
  OBVIOUS
<1>5. PICK rep : rep = Reps(c, A)
  OBVIOUS
<1>6. PICK peer : peer = Reps(d, B)
  OBVIOUS
<1>7. /\ DOMAIN p = Range(A)
      /\ \A i \in DOMAIN c : A[i] \in Range(A) /\ A[A[i]] = A[i]
      /\ \A k \in Range(A) : k \in DOMAIN c /\ A[k] = k
      /\ \A i, j \in DOMAIN c : A[i] = A[j] <=> CellKey(c[i], s) = CellKey(c[j], s)
  BY <1>1, <1>3, PointFacts
<1>8. /\ DOMAIN q = Range(B)
      /\ \A i \in DOMAIN d : B[i] \in Range(B) /\ B[B[i]] = B[i]
      /\ \A k \in Range(B) : k \in DOMAIN d /\ B[k] = k
      /\ \A i, j \in DOMAIN d : B[i] = B[j] <=> CellKey(d[i], s) = CellKey(d[j], s)
  BY <1>2, <1>4, PointFacts
<1>9. \A i \in DOMAIN c : \E j \in DOMAIN d : d[j] = c[i]
  BY DEF Range
<1>10. \A j \in DOMAIN d : \E i \in DOMAIN c : d[j] = c[i]
  BY DEF Range
<1>11. PICK phi : phi = [k \in Range(A) |-> B[CHOOSE j \in DOMAIN d : d[j] = c[k]]]
  OBVIOUS
<1>12. ASSUME NEW k \in Range(A)
       PROVE  \E j \in DOMAIN d : d[j] = c[k] /\ phi[k] = B[j]
  <2>1. PICK j : j = CHOOSE x \in DOMAIN d : d[x] = c[k]
    OBVIOUS
  <2>2. j \in DOMAIN d /\ d[j] = c[k]
    BY <1>7, <1>9, <2>1
  <2> QED
    BY <1>11, <2>1, <2>2
<1>13. ASSUME NEW i \in DOMAIN c, NEW j \in DOMAIN d, c[i] = d[j]
       PROVE  B[j] = phi[A[i]]
  <2>1. A[i] \in Range(A) /\ A[i] \in DOMAIN c /\ CellKey(c[A[i]], s) = CellKey(c[i], s)
    BY <1>7
  <2>2. PICK x \in DOMAIN d : d[x] = c[A[i]] /\ phi[A[i]] = B[x]
    BY <1>12, <2>1
  <2> QED
    BY <1>8, <1>13, <2>1, <2>2
<1>14. ASSUME NEW k \in Range(A), NEW l \in Range(A), phi[k] = phi[l]
       PROVE  k = l
  <2>1. PICK i \in DOMAIN d : d[i] = c[k] /\ phi[k] = B[i]
    BY <1>12
  <2>2. PICK j \in DOMAIN d : d[j] = c[l] /\ phi[l] = B[j]
    BY <1>12
  <2>3. CellKey(c[k], s) = CellKey(c[l], s)
    <3>1. B[i] = B[j]
      BY <1>14, <2>1, <2>2
    <3>2. CellKey(d[i], s) = CellKey(d[j], s)
      BY <1>8, <3>1
    <3> QED
      BY <2>1, <2>2, <3>2
  <2> QED
    BY <1>7, <2>3
<1>15. phi \in Bijection(Range(A), Range(B))
  <2>1. phi \in [Range(A) -> Range(B)]
    <3>1. \A k \in Range(A) : phi[k] \in Range(B)
      BY <1>8, <1>12
    <3> QED
      BY <1>11, <3>1
  <2>2. ASSUME NEW l \in Range(B)
        PROVE  \E k \in Range(A) : phi[k] = l
    <3>1. l \in DOMAIN d /\ B[l] = l
      BY <1>8
    <3>2. PICK i \in DOMAIN c : d[l] = c[i]
      BY <1>10, <3>1
    <3> QED
      BY <1>7, <1>13, <3>1, <3>2
  <2> QED
    BY <1>14, <2>1, <2>2 DEF Bijection, Injection, Surjection, IsInjective
<1>16. /\ \A k \in Range(A) : rep[k] \in DOMAIN c /\ A[rep[k]] = k
       /\ \A i \in DOMAIN c : c[i].snr <= c[rep[A[i]]].snr
       /\ DOMAIN rep = Range(A)
  BY <1>1, <1>5, CellsGood DEF GoodCells
<1>17. /\ \A k \in Range(B) : peer[k] \in DOMAIN d /\ B[peer[k]] = k
       /\ \A i \in DOMAIN d : d[i].snr <= d[peer[B[i]]].snr
       /\ DOMAIN peer = Range(B)
  BY <1>2, <1>6, CellsGood DEF GoodCells
<1>18. ASSUME NEW k \in Range(A)
       PROVE  phi[k] \in Range(B) /\ d[peer[phi[k]]] = c[rep[k]]
  <2>1. PICK l \in Range(B) : l = phi[k]
    BY <1>8, <1>12
  <2>2. PICK j \in DOMAIN d : d[j] = c[rep[k]]
    BY <1>9, <1>16
  <2>3. B[j] = l
    BY <1>13, <1>16, <2>1, <2>2
  <2>4. PICK i \in DOMAIN c : d[peer[l]] = c[i]
    BY <1>10, <1>17
  <2>5. phi[A[i]] = l /\ A[i] \in Range(A)
    BY <1>7, <1>13, <1>17, <2>4
  <2>6. A[i] = k
    BY <1>14, <2>1, <2>5
  <2>7. d[j].snr <= d[peer[l]].snr /\ c[i].snr <= c[rep[k]].snr
    BY <1>16, <1>17, <2>3, <2>6
  <2>8. d[j].snr \in Nat /\ d[peer[l]].snr \in Nat
    BY <1>17, TrialFields
  <2>9. d[j].snr = d[peer[l]].snr
    BY <2>2, <2>4, <2>7, <2>8
  <2>10. j = peer[l]
    BY <1>17, <2>9 DEF Distinct
  <2> QED
    BY <2>1, <2>2, <2>10
<1>19. /\ \A k \in Range(A) : p[k] = Features(c[rep[k]], s)
       /\ \A k \in Range(B) : q[k] = Features(d[peer[k]], s)
  BY <1>1, <1>2, <1>3, <1>4, <1>5, <1>6, <1>16, <1>17 DEF Points
<1>20. SamePoints(p, q, phi)
  BY <1>7, <1>8, <1>15, <1>18, <1>19 DEF SamePoints
<1> QED
  BY <1>1, <1>2, <1>3, <1>4, <1>13, <1>20

(***************************************************************************)
(* DBSCAN.  Nearness is mutual, so that two cores that no closed set tells *)
(* apart are so both ways, and the first core of a cluster names it.       *)
(***************************************************************************)
NearCores(point, m, k) == NearTo(point, k) \intersect Cores(point, m)
ClosedCores(point, m) ==
  {U \in SUBSET Cores(point, m) : \A k \in U : NearCores(point, m, k) \subseteq U}
Joined(point, m, k, l) == \A U \in ClosedCores(point, m) : k \in U => l \in U
FirstCore(point, m, k) == Min({l \in Cores(point, m) : Joined(point, m, k, l)})

Mutual(point) ==
  /\ \A k \in DOMAIN point : Near(point[k], point[k])
  /\ \A k, l \in DOMAIN point : Near(point[k], point[l]) => Near(point[l], point[k])

LEMMA DbscanIs ==
  ASSUME NEW point, NEW m
  PROVE  /\ DOMAIN Dbscan(point, m) = DOMAIN point
         /\ \A k \in DOMAIN point :
              Dbscan(point, m)[k] =
                IF NearCores(point, m, k) = {} THEN - k
                ELSE Min({FirstCore(point, m, l) : l \in NearCores(point, m, k)})
<1>1. PICK cores : cores = Cores(point, m)
  OBVIOUS
<1>2. PICK near : near = [k \in DOMAIN point |-> NearTo(point, k) \intersect cores]
  OBVIOUS
<1>3. PICK closed : closed = {U \in SUBSET cores : \A k \in U : near[k] \subseteq U}
  OBVIOUS
<1>4. cores \subseteq DOMAIN point
  BY <1>1 DEF Cores
<1>5. \A k \in DOMAIN point : near[k] = NearCores(point, m, k)
  BY <1>1, <1>2 DEF NearCores
<1>6. closed = ClosedCores(point, m)
  <2>1. ASSUME NEW U \in SUBSET cores
        PROVE  (\A k \in U : near[k] \subseteq U)
               <=> (\A k \in U : NearCores(point, m, k) \subseteq U)
    BY <1>4, <1>5
  <2> QED
    BY <1>1, <1>3, <2>1 DEF ClosedCores
<1> DEFINE FirstOne(k) == Min({l \in cores : \A U \in closed : k \in U => l \in U})
<1>7. \A k : FirstOne(k) = FirstCore(point, m, k)
  BY <1>1, <1>6 DEF FirstCore, Joined
<1>8. Dbscan(point, m) = [k \in DOMAIN point |->
                            IF near[k] = {} THEN - k ELSE Min({FirstOne(l) : l \in near[k]})]
  BY <1>1, <1>2, <1>3 DEF Dbscan
<1> HIDE DEF FirstOne
<1>9. ASSUME NEW k \in DOMAIN point
      PROVE  Dbscan(point, m)[k] =
               IF NearCores(point, m, k) = {} THEN - k
               ELSE Min({FirstCore(point, m, l) : l \in NearCores(point, m, k)})
  <2>1. {FirstOne(l) : l \in near[k]} = {FirstCore(point, m, l) : l \in near[k]}
    BY <1>7
  <2>2. Dbscan(point, m)[k] = IF near[k] = {} THEN - k ELSE Min({FirstOne(l) : l \in near[k]})
    BY <1>8
  <2> QED
    BY <1>5, <2>1, <2>2
<1> QED
  BY <1>8, <1>9

LEMMA JoinedBothWays ==
  ASSUME NEW point, NEW m, Mutual(point)
  PROVE  /\ \A k \in Cores(point, m) : k \in NearCores(point, m, k) /\ Joined(point, m, k, k)
         /\ \A k \in Cores(point, m) : \A l \in NearCores(point, m, k) :
              l \in Cores(point, m) /\ Joined(point, m, k, l)
         /\ \A k, l \in Cores(point, m) : Joined(point, m, k, l) => Joined(point, m, l, k)
         /\ \A k, l, n \in Cores(point, m) :
              Joined(point, m, k, l) /\ Joined(point, m, l, n) => Joined(point, m, k, n)
<1>1. Cores(point, m) \subseteq DOMAIN point
  BY DEF Cores
<1>2. \A k, l \in Cores(point, m) :
        l \in NearCores(point, m, k) <=> Near(point[k], point[l])
  BY <1>1 DEF NearCores, NearTo
<1>3. \A k \in Cores(point, m) : k \in NearCores(point, m, k) /\ Joined(point, m, k, k)
  BY <1>1, <1>2 DEF Mutual, Joined
<1>4. ASSUME NEW k \in Cores(point, m), NEW l \in NearCores(point, m, k)
      PROVE  l \in Cores(point, m) /\ Joined(point, m, k, l)
  BY DEF NearCores, Joined, ClosedCores
<1>5. ASSUME NEW k \in Cores(point, m), NEW l \in Cores(point, m), Joined(point, m, k, l)
      PROVE  Joined(point, m, l, k)
  <2> SUFFICES ASSUME NEW U \in ClosedCores(point, m), l \in U, k \notin U
               PROVE  FALSE
    BY DEF Joined
  <2>1. PICK V : V = Cores(point, m) \ U
    OBVIOUS
  <2>2. ASSUME NEW x \in V, NEW y \in NearCores(point, m, x)
        PROVE  y \in V
    <3>1. x \in Cores(point, m) /\ y \in Cores(point, m) /\ Near(point[x], point[y])
      BY <1>2, <2>1 DEF NearCores
    <3>2. x \in NearCores(point, m, y)
      BY <1>1, <1>2, <3>1 DEF Mutual
    <3>3. y \in U => x \in U
      BY <3>2 DEF ClosedCores
    <3> QED
      BY <2>1, <3>1, <3>3
  <2>3. V \in ClosedCores(point, m)
    <3>1. V \in SUBSET Cores(point, m)
      BY <2>1
    <3>2. \A x \in V : NearCores(point, m, x) \subseteq V
      BY <2>2
    <3> QED
      BY <3>1, <3>2 DEF ClosedCores
  <2> QED
    BY <1>5, <2>1, <2>3 DEF Joined
<1>6. \A k, l, n \in Cores(point, m) :
        Joined(point, m, k, l) /\ Joined(point, m, l, n) => Joined(point, m, k, n)
  BY DEF Joined
<1> QED
  BY <1>3, <1>4, <1>5, <1>6

LEMMA FirstCores ==
  ASSUME NEW point, DOMAIN point \subseteq Nat \ {0}, NEW m, Mutual(point)
  PROVE  /\ \A k \in Cores(point, m) :
              /\ FirstCore(point, m, k) \in Cores(point, m)
              /\ Joined(point, m, k, FirstCore(point, m, k))
         /\ \A k, l \in Cores(point, m) :
              FirstCore(point, m, k) = FirstCore(point, m, l) <=> Joined(point, m, k, l)
<1>1. PICK cores : cores = Cores(point, m)
  OBVIOUS
<1>2. cores \subseteq Nat
  BY <1>1 DEF Cores
<1>3. ASSUME NEW k \in cores
      PROVE  FirstCore(point, m, k) \in cores /\ Joined(point, m, k, FirstCore(point, m, k))
  <2>1. PICK S : S = {l \in cores : Joined(point, m, k, l)}
    OBVIOUS
  <2>2. S \in SUBSET Nat /\ k \in S
    BY <1>1, <1>2, <2>1, JoinedBothWays
  <2>3. Min(S) \in S
    BY <2>2, MinOfNats
  <2>4. FirstCore(point, m, k) = Min(S)
    BY <1>1, <2>1 DEF FirstCore
  <2> QED
    BY <2>1, <2>3, <2>4
<1>4. ASSUME NEW k \in cores, NEW l \in cores, Joined(point, m, k, l)
      PROVE  FirstCore(point, m, k) = FirstCore(point, m, l)
  <2>1. \A n \in cores : Joined(point, m, k, n) <=> Joined(point, m, l, n)
    BY <1>1, <1>4, JoinedBothWays
  <2>2. {n \in cores : Joined(point, m, k, n)} = {n \in cores : Joined(point, m, l, n)}
    BY <2>1
  <2> QED
    BY <1>1, <2>2 DEF FirstCore
<1>5. ASSUME NEW k \in cores, NEW l \in cores,
             FirstCore(point, m, k) = FirstCore(point, m, l)
      PROVE  Joined(point, m, k, l)
  <2>1. PICK n \in cores : n = FirstCore(point, m, k)
    BY <1>3
  <2>2. Joined(point, m, k, n) /\ Joined(point, m, l, n)
    BY <1>3, <1>5, <2>1
  <2> QED
    BY <1>1, <2>2, JoinedBothWays
<1> QED
  BY <1>1, <1>3, <1>4, <1>5

LEMMA LabelsMark ==
  ASSUME NEW point, DOMAIN point \subseteq Nat \ {0}, NEW m, Mutual(point)
  PROVE  /\ \A k \in DOMAIN point :
              \/ NearCores(point, m, k) = {} /\ Dbscan(point, m)[k] = - k
              \/ \E l \in NearCores(point, m, k) : Dbscan(point, m)[k] = FirstCore(point, m, l)
         /\ \A k \in Cores(point, m) : Dbscan(point, m)[k] = FirstCore(point, m, k)
<1>1. ASSUME NEW k \in DOMAIN point, NearCores(point, m, k) # {}
      PROVE  \E l \in NearCores(point, m, k) : Dbscan(point, m)[k] = FirstCore(point, m, l)
  <2>1. PICK S : S = {FirstCore(point, m, l) : l \in NearCores(point, m, k)}
    OBVIOUS
  <2>2. S # {} /\ S \in SUBSET Nat
    <3>1. \A l \in NearCores(point, m, k) : FirstCore(point, m, l) \in Cores(point, m)
      BY FirstCores DEF NearCores
    <3>2. Cores(point, m) \subseteq Nat
      BY DEF Cores
    <3> QED
      BY <1>1, <2>1, <3>1, <3>2
  <2>3. Min(S) \in S
    BY <2>2, MinOfNats
  <2>4. Dbscan(point, m)[k] = Min(S)
    BY <1>1, <2>1, DbscanIs
  <2> QED
    BY <2>1, <2>3, <2>4
<1>2. \A k \in DOMAIN point : NearCores(point, m, k) = {} => Dbscan(point, m)[k] = - k
  BY DbscanIs
<1>3. ASSUME NEW k \in Cores(point, m)
      PROVE  Dbscan(point, m)[k] = FirstCore(point, m, k)
  <2>1. k \in DOMAIN point /\ k \in NearCores(point, m, k)
    BY JoinedBothWays DEF Cores
  <2>2. PICK l \in NearCores(point, m, k) : Dbscan(point, m)[k] = FirstCore(point, m, l)
    BY <1>1, <2>1
  <2>3. l \in Cores(point, m) /\ Joined(point, m, k, l)
    BY JoinedBothWays
  <2> QED
    BY <2>2, <2>3, FirstCores
<1> QED
  BY <1>1, <1>2, <1>3

LEMMA CoresMatch ==
  ASSUME NEW p, IsFiniteSet(DOMAIN p), NEW q, NEW phi, SamePoints(p, q, phi), NEW m
  PROVE  /\ \A k \in DOMAIN p : phi[k] \in DOMAIN q
         /\ \A k, l \in DOMAIN p : phi[k] = phi[l] => k = l
         /\ \A x \in DOMAIN q : \E k \in DOMAIN p : phi[k] = x
         /\ \A k \in DOMAIN p : k \in Cores(p, m) <=> phi[k] \in Cores(q, m)
         /\ \A k, l \in DOMAIN p :
              l \in NearCores(p, m, k) <=> phi[l] \in NearCores(q, m, phi[k])
<1>1. /\ phi \in Bijection(DOMAIN p, DOMAIN q)
      /\ \A k \in DOMAIN p : q[phi[k]] = p[k]
  BY DEF SamePoints
<1>2. /\ \A k \in DOMAIN p : phi[k] \in DOMAIN q
      /\ \A k, l \in DOMAIN p : phi[k] = phi[l] => k = l
      /\ \A x \in DOMAIN q : \E k \in DOMAIN p : phi[k] = x
  BY <1>1 DEF Bijection, Injection, Surjection, IsInjective
<1>3. \A k, l \in DOMAIN p : l \in NearTo(p, k) <=> phi[l] \in NearTo(q, phi[k])
  BY <1>1, <1>2 DEF NearTo
<1>4. ASSUME NEW k \in DOMAIN p
      PROVE  Cardinality(NearTo(p, k)) = Cardinality(NearTo(q, phi[k]))
  <2>1. PICK S : S = NearTo(p, k)
    OBVIOUS
  <2>2. PICK T : T = NearTo(q, phi[k])
    OBVIOUS
  <2>3. S \subseteq DOMAIN p /\ T \subseteq DOMAIN q
    BY <2>1, <2>2 DEF NearTo
  <2>4. PICK f : f = [l \in S |-> phi[l]]
    OBVIOUS
  <2>5. f \in [S -> T] /\ \A x \in T : \E l \in S : f[l] = x
    BY <1>2, <1>3, <2>1, <2>2, <2>3, <2>4
  <2>6. \A x, y \in S : f[x] = f[y] => x = y
    BY <1>2, <2>3, <2>4
  <2>7. f \in Bijection(S, T)
    BY <2>5, <2>6 DEF Bijection, Injection, Surjection, IsInjective
  <2>8. IsFiniteSet(S) /\ ExistsBijection(S, T)
    BY <2>3, <2>7, FS_Subset DEF ExistsBijection
  <2> QED
    BY <2>1, <2>2, <2>8, FS_Bijection
<1>5. \A k \in DOMAIN p : k \in Cores(p, m) <=> phi[k] \in Cores(q, m)
  BY <1>2, <1>4 DEF Cores
<1>6. \A k, l \in DOMAIN p : l \in NearCores(p, m, k) <=> phi[l] \in NearCores(q, m, phi[k])
  BY <1>3, <1>5 DEF NearCores
<1> QED
  BY <1>2, <1>5, <1>6

LEMMA JoinedMatch ==
  ASSUME NEW p, IsFiniteSet(DOMAIN p), NEW q, NEW phi, SamePoints(p, q, phi), NEW m,
         NEW k \in Cores(p, m), NEW l \in Cores(p, m)
  PROVE  Joined(p, m, k, l) <=> Joined(q, m, phi[k], phi[l])
<1>1. Cores(p, m) \subseteq DOMAIN p /\ Cores(q, m) \subseteq DOMAIN q
  BY DEF Cores
<1>2. ASSUME Joined(p, m, k, l), NEW V \in ClosedCores(q, m), phi[k] \in V
      PROVE  phi[l] \in V
  <2>1. PICK U : U = {x \in Cores(p, m) : phi[x] \in V}
    OBVIOUS
  <2>2. ASSUME NEW x \in U, NEW y \in NearCores(p, m, x)
        PROVE  y \in U
    <3>1. x \in DOMAIN p /\ y \in DOMAIN p /\ y \in Cores(p, m) /\ phi[x] \in V
      BY <1>1, <2>1 DEF NearCores
    <3>2. phi[y] \in NearCores(q, m, phi[x])
      BY <3>1, CoresMatch
    <3>3. phi[y] \in V
      BY <3>1, <3>2 DEF ClosedCores
    <3> QED
      BY <2>1, <3>1, <3>3
  <2>3. U \in ClosedCores(p, m)
    <3>1. U \in SUBSET Cores(p, m)
      BY <2>1
    <3> QED
      BY <2>2, <3>1 DEF ClosedCores
  <2>4. l \in U
    BY <1>2, <2>1, <2>3 DEF Joined
  <2> QED
    BY <2>1, <2>4
<1>3. ASSUME Joined(q, m, phi[k], phi[l]), NEW U \in ClosedCores(p, m), k \in U
      PROVE  l \in U
  <2>1. PICK V : V = {phi[x] : x \in U}
    OBVIOUS
  <2>2. U \subseteq Cores(p, m)
    BY DEF ClosedCores
  <2>3. V \in SUBSET Cores(q, m)
    BY <1>1, <2>1, <2>2, CoresMatch
  <2>4. ASSUME NEW x \in V, NEW y \in NearCores(q, m, x)
        PROVE  y \in V
    <3>1. PICK w \in U : x = phi[w]
      BY <2>1
    <3>2. y \in DOMAIN q
      BY DEF NearCores, NearTo
    <3>3. PICK z \in DOMAIN p : y = phi[z]
      BY <3>2, CoresMatch
    <3>4. z \in NearCores(p, m, w)
      BY <1>1, <2>2, <3>1, <3>3, CoresMatch
    <3>5. z \in U
      BY <3>4 DEF ClosedCores
    <3> QED
      BY <2>1, <3>3, <3>5
  <2>5. V \in ClosedCores(q, m)
    BY <2>3, <2>4 DEF ClosedCores
  <2>6. phi[l] \in V
    BY <1>3, <2>1, <2>5 DEF Joined
  <2>7. PICK x \in U : phi[l] = phi[x]
    BY <2>1, <2>6
  <2>8. l = x
    BY <1>1, <2>2, <2>7, CoresMatch
  <2> QED
    BY <2>8
<1> QED
  BY <1>2, <1>3 DEF Joined

\* As many labels, by one from each to each.
LEMMA LabelsInjected ==
  ASSUME NEW p, DOMAIN p \subseteq Nat \ {0}, IsFiniteSet(DOMAIN p), Mutual(p),
         NEW q, DOMAIN q \subseteq Nat \ {0}, IsFiniteSet(DOMAIN q), Mutual(q),
         NEW phi, SamePoints(p, q, phi), NEW m,
         IsFiniteSet(Range(Dbscan(q, m)))
  PROVE  Cardinality(Range(Dbscan(p, m))) <= Cardinality(Range(Dbscan(q, m)))
<1>1. PICK a : a = Dbscan(p, m)
  OBVIOUS
<1>2. PICK b : b = Dbscan(q, m)
  OBVIOUS
<1>3. DOMAIN a = DOMAIN p /\ DOMAIN b = DOMAIN q
  BY <1>1, <1>2, DbscanIs
<1>4. PICK cores : cores = Cores(p, m)
  OBVIOUS
<1>5. cores \subseteq DOMAIN p
  BY <1>4 DEF Cores
<1>6. \A x \in Range(a) : \/ x < 0 /\ - x \in DOMAIN p /\ NearCores(p, m, - x) = {}
                          \/ x \in cores /\ a[x] = x
  <2> SUFFICES ASSUME NEW k \in DOMAIN p
               PROVE  \/ a[k] < 0 /\ - a[k] \in DOMAIN p /\ NearCores(p, m, - a[k]) = {}
                      \/ a[k] \in cores /\ a[a[k]] = a[k]
    BY <1>3 DEF Range
  <2>1. CASE NearCores(p, m, k) = {} /\ a[k] = - k
    <3>1. k \in Nat \ {0} /\ - a[k] = k /\ a[k] < 0
      BY <2>1
    <3> QED
      BY <2>1, <3>1
  <2>2. CASE \E l \in NearCores(p, m, k) : a[k] = FirstCore(p, m, l)
    <3>1. PICK l \in NearCores(p, m, k) : a[k] = FirstCore(p, m, l)
      BY <2>2
    <3>2. l \in cores
      BY <1>4 DEF NearCores
    <3>3. PICK x : x = FirstCore(p, m, l)
      OBVIOUS
    <3>4. x \in cores /\ Joined(p, m, l, x)
      BY <1>4, <3>2, <3>3, FirstCores
    <3>5. FirstCore(p, m, x) = x
      BY <1>4, <3>2, <3>3, <3>4, FirstCores
    <3>6. a[x] = x
      BY <1>1, <1>4, <3>4, <3>5, LabelsMark
    <3> QED
      BY <3>1, <3>3, <3>4, <3>6
  <2> QED
    BY <1>1, <2>1, <2>2, LabelsMark
<1>7. \A k \in cores : k \in Nat /\ ~ (k < 0)
  BY <1>5
<1>8. PICK f : f = [x \in Range(a) |-> b[phi[IF x < 0 THEN - x ELSE x]]]
  OBVIOUS
<1>9. ASSUME NEW x \in Range(a), x < 0
      PROVE  /\ - x \in DOMAIN p /\ f[x] = - phi[- x] /\ phi[- x] \in Nat \ {0}
             /\ f[x] \in Range(b)
  <2>1. - x \in DOMAIN p /\ NearCores(p, m, - x) = {}
    BY <1>6, <1>7, <1>9
  <2>2. PICK k \in DOMAIN p : k = - x
    BY <2>1
  <2>3. phi[k] \in DOMAIN q
    BY CoresMatch
  <2>4. ASSUME NEW y \in NearCores(q, m, phi[k])
        PROVE  FALSE
    <3>1. y \in DOMAIN q
      BY DEF NearCores, NearTo
    <3>2. PICK z \in DOMAIN p : phi[z] = y
      BY <3>1, CoresMatch
    <3>3. z \in NearCores(p, m, k)
      BY <3>2, CoresMatch
    <3> QED
      BY <2>1, <2>2, <3>3
  <2>5. b[phi[k]] = - phi[k]
    BY <1>2, <2>3, <2>4, LabelsMark
  <2>6. f[x] = b[phi[k]]
    BY <1>8, <1>9, <2>2
  <2> QED
    BY <1>3, <2>1, <2>2, <2>3, <2>5, <2>6 DEF Range
<1>10. ASSUME NEW x \in Range(a), ~ (x < 0)
       PROVE  /\ x \in cores /\ a[x] = x /\ f[x] = FirstCore(q, m, phi[x])
              /\ phi[x] \in Cores(q, m) /\ f[x] \in Nat \ {0} /\ f[x] \in Range(b)
  <2>1. x \in cores /\ a[x] = x
    BY <1>6, <1>10
  <2>2. phi[x] \in Cores(q, m)
    BY <1>4, <1>5, <2>1, CoresMatch
  <2>3. b[phi[x]] = FirstCore(q, m, phi[x])
    BY <1>2, <2>2, LabelsMark
  <2>4. f[x] = b[phi[x]]
    BY <1>8, <1>10
  <2>5. FirstCore(q, m, phi[x]) \in Cores(q, m)
    BY <2>2, FirstCores
  <2>6. Cores(q, m) \subseteq DOMAIN q
    BY DEF Cores
  <2>7. f[x] \in Range(b)
    BY <1>3, <2>2, <2>4, <2>6 DEF Range
  <2>8. f[x] \in Nat \ {0}
    BY <2>3, <2>4, <2>5, <2>6
  <2> QED
    BY <2>1, <2>2, <2>3, <2>4, <2>7, <2>8
<1>11. ASSUME NEW x \in Range(a), NEW y \in Range(a), f[x] = f[y]
       PROVE  x = y
  <2>1. CASE x < 0 /\ y < 0
    <3>1. phi[- x] = phi[- y]
      BY <1>9, <1>11, <2>1
    <3>2. - x = - y
      BY <1>9, <2>1, <3>1, CoresMatch
    <3>3. x \in Int /\ y \in Int
      <4>1. a \in [DOMAIN p -> Int \ {0}]
        BY <1>1, LabelType
      <4> QED
        BY <4>1 DEF Range
    <3> QED
      BY <3>2, <3>3
  <2>2. CASE ~ (x < 0) /\ ~ (y < 0)
    <3>1. Joined(q, m, phi[x], phi[y])
      BY <1>10, <1>11, <2>2, FirstCores
    <3>2. Joined(p, m, x, y)
      BY <1>4, <1>10, <2>2, <3>1, JoinedMatch
    <3>3. FirstCore(p, m, x) = FirstCore(p, m, y)
      BY <1>4, <1>10, <2>2, <3>2, FirstCores
    <3> QED
      BY <1>1, <1>4, <1>10, <2>2, <3>3, LabelsMark
  <2>3. CASE x < 0 /\ ~ (y < 0)
    <3>1. f[x] = - phi[- x] /\ phi[- x] \in Nat \ {0} /\ f[y] \in Nat \ {0}
      BY <1>9, <1>10, <2>3
    <3> QED
      BY <1>11, <3>1
  <2>4. CASE ~ (x < 0) /\ y < 0
    <3>1. f[y] = - phi[- y] /\ phi[- y] \in Nat \ {0} /\ f[x] \in Nat \ {0}
      BY <1>9, <1>10, <2>4
    <3> QED
      BY <1>11, <3>1
  <2> QED
    BY <2>1, <2>2, <2>3, <2>4
<1>12. f \in Injection(Range(a), Range(b))
  <2>1. f \in [Range(a) -> Range(b)]
    <3>1. \A x \in Range(a) : f[x] \in Range(b)
      BY <1>9, <1>10
    <3> QED
      BY <1>8, <3>1
  <2> QED
    BY <1>11, <2>1 DEF Injection, IsInjective
<1>13. Cardinality(Range(a)) <= Cardinality(Range(b))
  BY <1>2, <1>12, FS_Injection
<1> QED
  BY <1>1, <1>2, <1>13

\* A place is settled when all cores in its reach are of one cluster.
Settled(point, m, k) == \A l, n \in NearCores(point, m, k) : Joined(point, m, l, n)

LEMMA LabelsAgree ==
  ASSUME NEW p, DOMAIN p \subseteq Nat \ {0}, IsFiniteSet(DOMAIN p), Mutual(p),
         NEW q, DOMAIN q \subseteq Nat \ {0}, Mutual(q),
         NEW phi, SamePoints(p, q, phi), NEW m,
         NEW k \in DOMAIN p, Settled(p, m, k), NEW l \in DOMAIN p, Settled(p, m, l)
  PROVE  Dbscan(p, m)[k] = Dbscan(p, m)[l] <=> Dbscan(q, m)[phi[k]] = Dbscan(q, m)[phi[l]]
<1>1. PICK a : a = Dbscan(p, m)
  OBVIOUS
<1>2. PICK b : b = Dbscan(q, m)
  OBVIOUS
<1>3. ASSUME NEW x \in DOMAIN p
      PROVE  /\ x \in Nat \ {0} /\ phi[x] \in Nat \ {0}
             /\ \/ NearCores(p, m, x) = {} /\ a[x] = - x /\ b[phi[x]] = - phi[x]
                \/ \E c, d \in NearCores(p, m, x) :
                     /\ c \in Cores(p, m) /\ d \in Cores(p, m)
                     /\ phi[c] \in Cores(q, m) /\ phi[d] \in Cores(q, m)
                     /\ a[x] = FirstCore(p, m, c) /\ b[phi[x]] = FirstCore(q, m, phi[d])
                     /\ a[x] > 0 /\ b[phi[x]] > 0
  <2>1. phi[x] \in DOMAIN q
    BY CoresMatch
  <2>2. ASSUME NEW y \in NearCores(q, m, phi[x])
        PROVE  \E z \in NearCores(p, m, x) : phi[z] = y
    <3>1. y \in DOMAIN q
      BY DEF NearCores, NearTo
    <3>2. PICK z \in DOMAIN p : phi[z] = y
      BY <3>1, CoresMatch
    <3> QED
      BY <3>2, CoresMatch
  <2>3. ASSUME NEW z \in NearCores(p, m, x)
        PROVE  /\ z \in Cores(p, m) /\ phi[z] \in Cores(q, m)
               /\ phi[z] \in NearCores(q, m, phi[x])
    <3>1. z \in DOMAIN p /\ z \in Cores(p, m)
      BY DEF NearCores, NearTo
    <3> QED
      BY <3>1, CoresMatch
  <2>4. Cores(p, m) \subseteq Nat \ {0} /\ Cores(q, m) \subseteq Nat \ {0}
    BY DEF Cores
  <2>5. CASE NearCores(p, m, x) = {}
    <3>1. NearCores(q, m, phi[x]) = {}
      BY <2>2, <2>5
    <3> QED
      BY <1>1, <1>2, <2>1, <2>5, <3>1, LabelsMark
  <2>6. CASE NearCores(p, m, x) # {}
    <3>1. NearCores(q, m, phi[x]) # {}
      BY <2>3, <2>6
    <3>2. PICK c \in NearCores(p, m, x) : a[x] = FirstCore(p, m, c)
      BY <1>1, <2>6, LabelsMark
    <3>3. PICK y \in NearCores(q, m, phi[x]) : b[phi[x]] = FirstCore(q, m, y)
      BY <1>2, <2>1, <3>1, LabelsMark
    <3>4. PICK d \in NearCores(p, m, x) : phi[d] = y
      BY <2>2
    <3>5. /\ c \in Cores(p, m) /\ d \in Cores(p, m)
          /\ phi[c] \in Cores(q, m) /\ phi[d] \in Cores(q, m)
      BY <2>3
    <3>6. FirstCore(p, m, c) \in Cores(p, m) /\ FirstCore(q, m, phi[d]) \in Cores(q, m)
      BY <3>5, FirstCores
    <3>7. FirstCore(p, m, c) > 0 /\ FirstCore(q, m, phi[d]) > 0
      BY <2>4, <3>6
    <3> QED
      BY <2>1, <3>2, <3>3, <3>4, <3>5, <3>7
  <2> QED
    BY <2>5, <2>6
<1>4. CASE NearCores(p, m, k) = {} /\ a[k] = - k /\ b[phi[k]] = - phi[k]
  <2>1. CASE NearCores(p, m, l) = {} /\ a[l] = - l /\ b[phi[l]] = - phi[l]
    <3>1. phi[k] = phi[l] => k = l
      BY CoresMatch
    <3>2. a[k] = a[l] <=> k = l
      BY <1>3, <1>4, <2>1
    <3>3. b[phi[k]] = b[phi[l]] <=> phi[k] = phi[l]
      BY <1>3, <1>4, <2>1
    <3> QED
      BY <1>1, <1>2, <3>1, <3>2, <3>3
  <2>2. CASE a[l] > 0 /\ b[phi[l]] > 0
    <3>1. ~ (a[k] > 0) /\ ~ (b[phi[k]] > 0)
      BY <1>3, <1>4
    <3> QED
      BY <1>1, <1>2, <2>2, <3>1
  <2> QED
    BY <1>3, <2>1, <2>2
<1>5. CASE \E c, d \in NearCores(p, m, k) :
             /\ c \in Cores(p, m) /\ d \in Cores(p, m)
             /\ phi[c] \in Cores(q, m) /\ phi[d] \in Cores(q, m)
             /\ a[k] = FirstCore(p, m, c) /\ b[phi[k]] = FirstCore(q, m, phi[d])
             /\ a[k] > 0 /\ b[phi[k]] > 0
  <2>1. CASE NearCores(p, m, l) = {} /\ a[l] = - l /\ b[phi[l]] = - phi[l]
    <3>1. ~ (a[l] > 0) /\ ~ (b[phi[l]] > 0)
      BY <1>3, <2>1
    <3> QED
      BY <1>1, <1>2, <1>5, <3>1
  <2>2. CASE \E c, d \in NearCores(p, m, l) :
               /\ c \in Cores(p, m) /\ d \in Cores(p, m)
               /\ phi[c] \in Cores(q, m) /\ phi[d] \in Cores(q, m)
               /\ a[l] = FirstCore(p, m, c) /\ b[phi[l]] = FirstCore(q, m, phi[d])
               /\ a[l] > 0 /\ b[phi[l]] > 0
    <3>1. PICK c \in NearCores(p, m, k), d \in NearCores(p, m, k) :
            /\ c \in Cores(p, m) /\ d \in Cores(p, m)
            /\ phi[c] \in Cores(q, m) /\ phi[d] \in Cores(q, m)
            /\ a[k] = FirstCore(p, m, c) /\ b[phi[k]] = FirstCore(q, m, phi[d])
      BY <1>5
    <3>2. PICK e \in NearCores(p, m, l), f \in NearCores(p, m, l) :
            /\ e \in Cores(p, m) /\ f \in Cores(p, m)
            /\ phi[e] \in Cores(q, m) /\ phi[f] \in Cores(q, m)
            /\ a[l] = FirstCore(p, m, e) /\ b[phi[l]] = FirstCore(q, m, phi[f])
      BY <2>2
    <3>3. a[k] = a[l] <=> Joined(p, m, c, e)
      BY <3>1, <3>2, FirstCores
    <3>4. b[phi[k]] = b[phi[l]] <=> Joined(p, m, d, f)
      <4>1. b[phi[k]] = b[phi[l]] <=> Joined(q, m, phi[d], phi[f])
        BY <3>1, <3>2, FirstCores
      <4> QED
        BY <3>1, <3>2, <4>1, JoinedMatch
    <3>5. Joined(p, m, c, d) /\ Joined(p, m, d, c) /\ Joined(p, m, e, f) /\ Joined(p, m, f, e)
      BY DEF Settled
    <3>6. Joined(p, m, c, e) <=> Joined(p, m, d, f)
      BY <3>5 DEF Joined
    <3> QED
      BY <1>1, <1>2, <3>3, <3>4, <3>6
  <2> QED
    BY <1>3, <2>1, <2>2
<1> QED
  BY <1>3, <1>4, <1>5

(***************************************************************************)
(* Nearness is mutual: the squared distance is the same sum either way.    *)
(***************************************************************************)
SquareDist(u, v) ==
  LET SquareOfDiff(n) == (u[n] - v[n]) * (u[n] - v[n])
  IN MapThenSumSet(SquareOfDiff, DOMAIN u)
Squares(u, v) == [n \in DOMAIN u |-> (u[n] - v[n]) * (u[n] - v[n])]

LEMMA SquareType ==
  ASSUME NEW a \in Int, NEW b \in Int
  PROVE  /\ (a - b) * (a - b) \in Nat /\ (a - b) * (a - b) = (b - a) * (b - a)
         /\ (a - a) * (a - a) = 0
<1>1. PICK n \in Int : n = a - b
  OBVIOUS
<1>2. n * n \in Nat
  <2>1. CASE n >= 0
    BY <2>1
  <2>2. CASE n <= 0
    <3>1. PICK k \in Nat : k = - n
      BY <2>2
    <3>2. n * n = k * k /\ k * k \in Nat
      BY <3>1
    <3> QED
      BY <3>2
  <2> QED
    BY <2>1, <2>2
<1>3. b - a = - n /\ (- n) * (- n) = n * n /\ a - a = 0
  BY <1>1
<1> QED
  BY <1>1, <1>2, <1>3

LEMMA DistIsCount ==
  ASSUME NEW n \in Nat, NEW u \in [1 .. n -> Int], NEW v \in [1 .. n -> Int]
  PROVE  SquareDist(u, v) = Cardinality(Units(Squares(u, v), 1 .. n))
<1> DEFINE D == 1 .. n
           f == Squares(u, v)
           Pick(s) == CHOOSE x \in s : TRUE
           Sq(x) == (u[x] - v[x]) * (u[x] - v[x])
           It(h) == h = [s \in SUBSET D |->
                           IF s = {} THEN 0 ELSE Sq(Pick(s)) + h[s \ {Pick(s)}]]
           iter == CHOOSE h : It(h)
           count == [s \in SUBSET D |-> Cardinality(Units(f, s))]
<1>1. SquareDist(u, v) = iter[D]
  BY DEF SquareDist, MapThenSumSet, MapThenFoldSet
<1>2. \A x \in D : f[x] = Sq(x) /\ f[x] \in Nat
  BY SquareType DEF Squares
<1>3. ASSUME NEW h
      PROVE  It(h) <=> SumsUp(h, f, D)
  <2>1. ASSUME NEW s \in SUBSET D
        PROVE  (IF s = {} THEN 0 ELSE Sq(Pick(s)) + h[s \ {Pick(s)}])
               = (IF s = {} THEN 0 ELSE f[Pick(s)] + h[s \ {Pick(s)}])
    <3>1. s # {} => f[Pick(s)] = Sq(Pick(s))
      BY <1>2
    <3> HIDE DEF f, Sq
    <3> QED
      BY <3>1
  <2> HIDE DEF f, Sq
  <2> QED
    BY <2>1 DEF SumsUp
<1>4. IsFiniteSet(D)
  BY FS_Interval
<1> HIDE DEF f, Sq
<1>5. SumsUp(count, f, D)
  BY <1>2, <1>4, CountSumsUp
<1>6. It(count)
  BY <1>3, <1>5
<1>7. SumsUp(iter, f, D)
  <2>1. It(iter)
    <3> HIDE DEF It, count
    <3> QED
      BY <1>6
  <2> HIDE DEF It, iter
  <2> QED
    BY <1>3, <2>1
<1>8. count[D] = Cardinality(Units(f, D))
  OBVIOUS
<1> HIDE DEF iter, count, D
<1>9. iter[D] = count[D]
  BY <1>4, <1>5, <1>7, SumsAgree
<1> QED
  BY <1>1, <1>8, <1>9 DEF f, D

LEMMA NearBothWays ==
  ASSUME NEW n \in Nat, NEW u \in [1 .. n -> Int], NEW v \in [1 .. n -> Int]
  PROVE  Near(u, u) /\ (Near(u, v) => Near(v, u))
<1>1. Near(u, u) <=> SquareDist(u, u) <= Scale * Scale
  BY DEF Near, SquareDist
<1>2. Near(u, v) <=> SquareDist(u, v) <= Scale * Scale
  BY DEF Near, SquareDist
<1>3. Near(v, u) <=> SquareDist(v, u) <= Scale * Scale
  BY DEF Near, SquareDist
<1>4. Squares(u, v) = Squares(v, u)
  <2>1. \A x \in 1 .. n : (u[x] - v[x]) * (u[x] - v[x]) = (v[x] - u[x]) * (v[x] - u[x])
    BY SquareType
  <2> QED
    BY <2>1 DEF Squares
<1>5. SquareDist(u, v) = SquareDist(v, u)
  BY <1>4, DistIsCount
<1>6. Units(Squares(u, u), 1 .. n) = {}
  <2>1. \A x \in 1 .. n : Squares(u, u)[x] = 0
    BY SquareType DEF Squares
  <2> QED
    BY <2>1 DEF Units
<1>7. SquareDist(u, u) = 0
  <2>1. SquareDist(u, u) = Cardinality(Units(Squares(u, u), 1 .. n))
    BY DistIsCount
  <2> QED
    BY <1>6, <2>1, FS_EmptySet
<1>8. 0 <= Scale * Scale
  BY ScaleAssumption
<1> QED
  BY <1>1, <1>2, <1>3, <1>5, <1>7, <1>8

LEMMA FeaturesType ==
  ASSUME NEW t \in Trial, NEW s \in Settings
  PROVE  Features(t, s) \in [1 .. IF s.table = None THEN 4 ELSE 5 -> Int]
<1>1. PICK half \in Int : half = Scale \div 2
  BY ScaleAssumption
<1>2. PICK quarter \in Int : quarter = Scale \div 4
  BY ScaleAssumption
<1>3. t.samp \in Int /\ t.dm \in Int /\ t.width \in Int /\ t.beam \in Int
  BY DEF Trial
<1>4. t.width * half \in Int /\ t.beam * quarter \in Int
  BY <1>1, <1>2, <1>3
<1>5. PICK axes : axes = <<t.samp, t.dm, t.width * half>>
  OBVIOUS
<1>6. axes \in Seq(Int) /\ Len(axes) = 3
  BY <1>3, <1>4, <1>5
<1>7. ASSUME NEW sky \in Seq(Int)
      PROVE  axes \o sky \in [1 .. 3 + Len(sky) -> Int]
  <2>1. PICK all : all = axes \o sky
    OBVIOUS
  <2>2. all \in Seq(Int) /\ Len(all) = 3 + Len(sky)
    <3>1. axes \in Seq(Int) /\ sky \in Seq(Int)
      BY <1>6
    <3>2. axes \o sky \in Seq(Int) /\ Len(axes \o sky) = Len(axes) + Len(sky)
      BY <3>1, ConcatProperties
    <3> QED
      BY <1>6, <2>1, <3>2
  <2>3. all \in [1 .. Len(all) -> Int]
    BY <2>2
  <2> QED
    BY <2>1, <2>2, <2>3
<1>8. CASE s.table = None
  <2>1. PICK sky : sky = <<t.beam * quarter>>
    OBVIOUS
  <2>2. Features(t, s) = axes \o sky
    BY <1>1, <1>2, <1>5, <1>8, <2>1 DEF Features
  <2>3. sky \in Seq(Int) /\ 3 + Len(sky) = 4
    BY <1>4, <2>1
  <2> QED
    BY <1>7, <1>8, <2>2, <2>3
<1>9. CASE s.table # None
  <2>1. PICK sky : sky = Place(t.beam, s.table)
    OBVIOUS
  <2>2. sky \in Int \X Int
    <3>1. \A b \in DOMAIN s.table : s.table[b] \in Int \X Int
      BY <1>9, SettingsAssumption
    <3> QED
      BY <2>1, <3>1 DEF Place
  <2>3. PICK x \in Int, y \in Int : sky = <<x, y>>
    BY <2>2
  <2>4. Features(t, s) = axes \o sky
    BY <1>1, <1>5, <1>9, <2>1 DEF Features
  <2>5. sky \in Seq(Int) /\ 3 + Len(sky) = 5
    BY <2>3
  <2> QED
    BY <1>7, <1>9, <2>4, <2>5
<1> QED
  BY <1>8, <1>9

LEMMA PointsMutual ==
  ASSUME NEW c \in Seq(Trial), NEW s \in Settings
  PROVE  Mutual(Points(c, s))
<1>1. PICK p : p = Points(c, s)
  OBVIOUS
<1>2. PICK n : n = IF s.table = None THEN 4 ELSE 5
  OBVIOUS
<1>3. n \in Nat
  BY <1>2
<1>4. PICK rep : rep = Reps(c, CellOf(c, s))
  OBVIOUS
<1>5. p = [k \in DOMAIN rep |-> Features(c[rep[k]], s)]
  BY <1>1, <1>4 DEF Points
<1>6. \A k \in DOMAIN rep : rep[k] \in DOMAIN c
  BY <1>4, CellsGood DEF GoodCells
<1>7. ASSUME NEW k \in DOMAIN p
      PROVE  p[k] \in [1 .. n -> Int]
  <2>1. c[rep[k]] \in Trial /\ p[k] = Features(c[rep[k]], s)
    BY <1>5, <1>6, <1>7, TrialFields
  <2> QED
    BY <1>2, <2>1, FeaturesType
<1> QED
  BY <1>1, <1>3, <1>7, NearBothWays DEF Mutual

(***************************************************************************)
(* Every order of the jobs brings the same trials, and as many.            *)
(***************************************************************************)
Chained(f, n, g) == g[1] = f[1] /\ \A k \in 2 .. n : g[k] = g[k - 1] \o f[k]

LEMMA Flattened ==
  ASSUME NEW n \in Nat \ {0}, NEW f, DOMAIN f = 1 .. n, Len(f) = n
  PROVE  \E g : Chained(f, n, g) /\ FlattenSeq(f) = g[n]
<1> DEFINE Solves(h, k) == h = [i \in 1 .. k |-> IF i = 1 THEN f[i] ELSE h[i - 1] \o f[i]]
           W == {k \in 1 .. n : ~ \E h : Solves(h, k)}
<1>1. W = {}
  <2> SUFFICES ASSUME W # {} PROVE FALSE
    OBVIOUS
  <2>1. PICK k \in W : \A j \in W : k <= j
    <3> HIDE DEF Solves
    <3>1. W \in SUBSET Nat
      OBVIOUS
    <3> HIDE DEF W
    <3> QED
      BY <3>1, MinOfNats
  <2>2. k \in 1 .. n /\ ~ \E h : Solves(h, k)
    BY <2>1
  <2>3. CASE k = 1
    <3> DEFINE h == [i \in 1 .. 1 |-> f[1]]
    <3>1. Solves(h, 1)
      OBVIOUS
    <3> QED
      BY <2>2, <2>3, <3>1
  <2>4. CASE k # 1
    <3>1. k - 1 \in 1 .. n /\ ~ (k <= k - 1)
      BY <2>2, <2>4
    <3>2. \E h : Solves(h, k - 1)
      <4>1. k - 1 \notin W
        <5> HIDE DEF W
        <5> QED
          BY <2>1, <3>1
      <4> HIDE DEF Solves
      <4> QED
        BY <3>1, <4>1
    <3>3. PICK h : Solves(h, k - 1)
      BY <3>2
    <3>4. PICK all : all = [i \in 1 .. k |-> IF i = k THEN h[k - 1] \o f[k] ELSE h[i]]
      OBVIOUS
    <3>5. ASSUME NEW i \in 1 .. k
          PROVE  all[i] = IF i = 1 THEN f[i] ELSE all[i - 1] \o f[i]
      <4>1. CASE i = k
        <5>1. i # 1 /\ i - 1 \in 1 .. k /\ i - 1 # k /\ i - 1 = k - 1
          BY <2>2, <2>4, <4>1
        <5>2. all[i] = h[k - 1] \o f[k] /\ all[i - 1] = h[k - 1]
          BY <3>4, <4>1, <5>1
        <5> QED
          BY <4>1, <5>1, <5>2
      <4>2. CASE i # k
        <5>1. i \in 1 .. k - 1 /\ all[i] = h[i]
          BY <2>2, <3>4, <4>2
        <5>2. h[i] = IF i = 1 THEN f[i] ELSE h[i - 1] \o f[i]
          BY <3>3, <5>1
        <5>3. i # 1 => i - 1 \in 1 .. k /\ i - 1 # k
          BY <2>2, <5>1
        <5>4. i # 1 => all[i - 1] = h[i - 1]
          BY <3>4, <5>3
        <5> QED
          BY <5>1, <5>2, <5>4
      <4> QED
        BY <4>1, <4>2
    <3>6. Solves(all, k)
      BY <3>4, <3>5
    <3> QED
      BY <2>2, <3>6
  <2> QED
    BY <2>3, <2>4
<1>2. PICK g : g = CHOOSE h : Solves(h, n)
  OBVIOUS
<1>3. Solves(g, n)
  <2> HIDE DEF Solves
  <2>1. n \in 1 .. n
    OBVIOUS
  <2>2. \E h : Solves(h, n)
    BY <1>1, <2>1
  <2> QED
    BY <1>2, <2>2
<1>4. FlattenSeq(f) = g[n]
  <2>1. FlattenSeq(f) = IF Len(f) = 0 THEN f ELSE (CHOOSE h : Solves(h, Len(f)))[Len(f)]
    BY DEF FlattenSeq
  <2> HIDE DEF Solves
  <2> QED
    BY <1>2, <2>1
<1>5. Chained(f, n, g)
  <2>1. \A i \in 1 .. n : g[i] = IF i = 1 THEN f[i] ELSE g[i - 1] \o f[i]
    BY <1>3
  <2>2. 1 \in 1 .. n /\ \A k \in 2 .. n : k \in 1 .. n /\ k # 1
    OBVIOUS
  <2> QED
    BY <2>1, <2>2 DEF Chained
<1> QED
  BY <1>4, <1>5

LEMMA OrderKeeps ==
  ASSUME NEW g \in Gulps, NEW veto, NEW n \in Nat \ {0}, NEW order \in [1 .. n -> DOMAIN g],
         \A i, j \in 1 .. n : order[i] = order[j] => i = j,
         NEW f, DOMAIN f = 1 .. n, Len(f) = n,
         \A k \in 1 .. n : f[k] = ApplyWidthVeto(g[order[k]], veto)
  PROVE  /\ FlattenSeq(f) \in Seq(Trial)
         /\ Range(FlattenSeq(f)) = Passed(g, veto, Range(order))
         /\ Len(FlattenSeq(f)) = Cardinality(KeptUnits(g, veto, Range(order)))
<1>1. PICK h : Chained(f, n, h) /\ FlattenSeq(f) = h[n]
  BY Flattened
<1>2. h[1] = f[1] /\ \A k \in 2 .. n : h[k] = h[k - 1] \o f[k]
  BY <1>1 DEF Chained
<1> DEFINE Jobs(k) == {order[i] : i \in 1 .. k}
           Keeps(k) == /\ h[k] \in Seq(Trial) /\ Range(h[k]) = Passed(g, veto, Jobs(k))
                       /\ Len(h[k]) = Cardinality(KeptUnits(g, veto, Jobs(k)))
           W == {k \in 1 .. n : ~ Keeps(k)}
<1>3. Passed(g, veto, {}) = {} /\ Cardinality(KeptUnits(g, veto, {})) = 0
  <2>1. KeptUnits(g, veto, {}) = {}
    BY DEF KeptUnits, Units
  <2>2. Passed(g, veto, {}) = {}
    BY DEF Passed
  <2> QED
    BY <2>1, <2>2, FS_EmptySet
<1>4. ASSUME NEW k \in 1 .. n, NEW S \in SUBSET (DOMAIN g), order[k] \notin S
      PROVE  /\ f[k] \in Seq(Trial)
             /\ Passed(g, veto, S \union {order[k]}) = Passed(g, veto, S) \union Range(f[k])
             /\ Cardinality(KeptUnits(g, veto, S \union {order[k]}))
                  = Len(f[k]) + Cardinality(KeptUnits(g, veto, S))
  <2>1. PICK job \in DOMAIN g : job = order[k]
    OBVIOUS
  <2>2. PICK kept : kept = f[k]
    OBVIOUS
  <2>3. job \notin S /\ kept = ApplyWidthVeto(g[job], veto)
    BY <1>4, <2>1, <2>2
  <2>4. BatchIn(g, veto, S, job, kept)
    BY <2>3, BatchAdds
  <2> QED
    BY <2>1, <2>2, <2>4 DEF BatchIn
<1>5. Keeps(1)
  <2>1. PICK S \in SUBSET (DOMAIN g) : S = {}
    OBVIOUS
  <2>2. S \union {order[1]} = Jobs(1) /\ 1 \in 1 .. n /\ order[1] \notin S
    BY <2>1
  <2> HIDE DEF Jobs
  <2>3. /\ f[1] \in Seq(Trial)
        /\ Passed(g, veto, Jobs(1)) = Passed(g, veto, S) \union Range(f[1])
        /\ Cardinality(KeptUnits(g, veto, Jobs(1)))
             = Len(f[1]) + Cardinality(KeptUnits(g, veto, S))
    BY <1>4, <2>2
  <2>4. Passed(g, veto, Jobs(1)) = Range(f[1])
    BY <1>3, <2>1, <2>3
  <2>5. Cardinality(KeptUnits(g, veto, Jobs(1))) = Len(f[1])
    <3>1. Len(f[1]) \in Nat /\ Cardinality(KeptUnits(g, veto, S)) = 0
      BY <1>3, <2>1, <2>3
    <3> QED
      BY <2>3, <3>1
  <2> QED
    BY <1>2, <2>3, <2>4, <2>5
<1>6. ASSUME NEW k \in 2 .. n, Keeps(k - 1)
      PROVE  Keeps(k)
  <2>1. k \in 1 .. n /\ k - 1 \in 1 .. n
    OBVIOUS
  <2>2. Jobs(k) = Jobs(k - 1) \union {order[k]}
    <3>1. 1 .. k = (1 .. k - 1) \union {k}
      OBVIOUS
    <3> QED
      BY <3>1
  <2>3. Jobs(k - 1) \in SUBSET (DOMAIN g) /\ order[k] \notin Jobs(k - 1)
    BY <2>1
  <2> HIDE DEF Jobs
  <2>4. PICK S \in SUBSET (DOMAIN g) : S = Jobs(k - 1)
    BY <2>3
  <2>5. /\ f[k] \in Seq(Trial)
        /\ Passed(g, veto, S \union {order[k]}) = Passed(g, veto, S) \union Range(f[k])
        /\ Cardinality(KeptUnits(g, veto, S \union {order[k]}))
             = Len(f[k]) + Cardinality(KeptUnits(g, veto, S))
    BY <1>4, <2>1, <2>3, <2>4
  <2>6. /\ h[k - 1] \in Seq(Trial) /\ Range(h[k - 1]) = Passed(g, veto, S)
        /\ Len(h[k - 1]) = Cardinality(KeptUnits(g, veto, S))
    BY <1>6, <2>4
  <2>7. PICK a : a = h[k - 1]
    OBVIOUS
  <2>8. PICK b : b = f[k]
    OBVIOUS
  <2>9. h[k] = a \o b
    BY <1>2, <2>7, <2>8
  <2>10. a \o b \in Seq(Trial) /\ Len(a \o b) = Len(a) + Len(b)
         /\ Range(a \o b) = Range(a) \union Range(b)
    BY <2>5, <2>6, <2>7, <2>8, ConcatProperties, RangeOfMore
  <2>11. Len(a) \in Nat /\ Len(b) \in Nat
    BY <2>5, <2>6, <2>7, <2>8
  <2>12. Len(a \o b) = Cardinality(KeptUnits(g, veto, S \union {order[k]}))
    <3>1. PICK m : m = Cardinality(KeptUnits(g, veto, S \union {order[k]}))
      OBVIOUS
    <3>2. m = Len(b) + Len(a)
      BY <2>5, <2>6, <2>7, <2>8, <3>1
    <3> QED
      BY <2>10, <2>11, <3>1, <3>2
  <2>13. Range(a \o b) = Passed(g, veto, S \union {order[k]})
    BY <2>5, <2>6, <2>7, <2>8, <2>10
  <2> QED
    BY <2>2, <2>4, <2>9, <2>10, <2>12, <2>13
<1> HIDE DEF Keeps
<1>7. W = {}
  <2> SUFFICES ASSUME W # {} PROVE FALSE
    OBVIOUS
  <2>1. PICK k \in W : \A j \in W : k <= j
    <3>1. W \in SUBSET Nat
      OBVIOUS
    <3> HIDE DEF W
    <3> QED
      BY <3>1, MinOfNats
  <2>2. k \in 1 .. n /\ ~ Keeps(k) /\ k # 1
    BY <1>5, <2>1
  <2>3. k \in 2 .. n /\ k - 1 \in 1 .. n /\ ~ (k <= k - 1)
    BY <2>2
  <2>4. Keeps(k - 1)
    BY <2>1, <2>3
  <2> QED
    BY <1>6, <2>2, <2>3, <2>4
<1>8. Keeps(n) /\ Jobs(n) = Range(order)
  <2>1. n \in 1 .. n
    OBVIOUS
  <2> QED
    BY <1>7, <2>1 DEF Range
<1> QED
  BY <1>1, <1>8 DEF Keeps

LEMMA DistinctByCount ==
  ASSUME NEW c \in Seq(Trial), Cardinality({t.snr : t \in Range(c)}) = Len(c)
  PROVE  Distinct(c)
<1>1. PICK D : D = DOMAIN c
  OBVIOUS
<1>2. PICK f : f = [i \in D |-> c[i].snr]
  OBVIOUS
<1>3. PICK V : V = {t.snr : t \in Range(c)}
  OBVIOUS
<1>4. f \in Surjection(D, V)
  BY <1>1, <1>2, <1>3 DEF Surjection, Range
<1>5. IsFiniteSet(D) /\ Cardinality(D) = Cardinality(V)
  BY <1>1, <1>3, PlacesFinite
<1>6. f \in Injection(D, V)
  BY <1>4, <1>5, FS_Surjection
<1> QED
  BY <1>1, <1>2, <1>6 DEF Injection, IsInjective, Distinct

(***************************************************************************)
(* The same trials in two orders form as many clusters, and two trials     *)
(* that are settled keep company in both or in neither.                    *)
(***************************************************************************)
LEMMA FewerClusters ==
  ASSUME NEW c \in Seq(Trial), Distinct(c), NEW d \in Seq(Trial), Distinct(d),
         Range(c) = Range(d), NEW s \in Settings
  PROVE  Len(ClusterCandidates(c, s).clusters) <= Len(ClusterCandidates(d, s).clusters)
<1>1. PICK p : p = Points(c, s)
  OBVIOUS
<1>2. PICK q : q = Points(d, s)
  OBVIOUS
<1>3. PICK phi : SamePoints(p, q, phi)
  BY <1>1, <1>2, CellsMatch
<1>4. /\ DOMAIN p \subseteq Nat \ {0} /\ IsFiniteSet(DOMAIN p) /\ Mutual(p)
      /\ DOMAIN q \subseteq Nat \ {0} /\ IsFiniteSet(DOMAIN q) /\ Mutual(q)
  BY <1>1, <1>2, PointFacts, PointsMutual
<1>5. /\ Len(ClusterCandidates(c, s).clusters) = Cardinality(Range(Dbscan(p, s.minSamples)))
      /\ Len(ClusterCandidates(d, s).clusters) = Cardinality(Range(Dbscan(q, s.minSamples)))
      /\ IsFiniteSet(Range(Dbscan(q, s.minSamples)))
  BY <1>1, <1>2, CandidatesClustered DEF CellLabel
<1>6. Cardinality(Range(Dbscan(p, s.minSamples))) <= Cardinality(Range(Dbscan(q, s.minSamples)))
  BY <1>3, <1>4, <1>5, LabelsInjected
<1> QED
  BY <1>5, <1>6

LEMMA AsManyClusters ==
  ASSUME NEW c \in Seq(Trial), Distinct(c), NEW d \in Seq(Trial), Distinct(d),
         Range(c) = Range(d), NEW s \in Settings
  PROVE  Len(ClusterCandidates(c, s).clusters) = Len(ClusterCandidates(d, s).clusters)
<1>1. /\ Len(ClusterCandidates(c, s).clusters) \in Nat
      /\ Len(ClusterCandidates(d, s).clusters) \in Nat
  BY CandidatesClustered DEF ClustersTell
<1>2. Len(ClusterCandidates(c, s).clusters) <= Len(ClusterCandidates(d, s).clusters)
  BY FewerClusters
<1>3. Len(ClusterCandidates(d, s).clusters) <= Len(ClusterCandidates(c, s).clusters)
  BY FewerClusters
<1> QED
  BY <1>1, <1>2, <1>3

\* A trial is settled when its cell is.
SettledTrial(c, s, i) == Settled(Points(c, s), s.minSamples, CellOf(c, s)[i])

LEMMA SameCompany ==
  ASSUME NEW c \in Seq(Trial), Distinct(c), NEW d \in Seq(Trial), Distinct(d),
         Range(c) = Range(d), NEW s \in Settings,
         NEW i \in DOMAIN c, SettledTrial(c, s, i), NEW j \in DOMAIN c, SettledTrial(c, s, j),
         NEW x \in DOMAIN d, d[x] = c[i], NEW y \in DOMAIN d, d[y] = c[j]
  PROVE  ClusterCandidates(c, s).labels[i] = ClusterCandidates(c, s).labels[j]
         <=> ClusterCandidates(d, s).labels[x] = ClusterCandidates(d, s).labels[y]
<1>1. PICK p : p = Points(c, s)
  OBVIOUS
<1>2. PICK q : q = Points(d, s)
  OBVIOUS
<1>3. PICK A : A = CellOf(c, s)
  OBVIOUS
<1>4. PICK B : B = CellOf(d, s)
  OBVIOUS
<1>5. PICK phi : /\ SamePoints(p, q, phi)
                 /\ \A m \in DOMAIN c, n \in DOMAIN d : c[m] = d[n] => B[n] = phi[A[m]]
  BY <1>1, <1>2, <1>3, <1>4, CellsMatch
<1>6. /\ DOMAIN p \subseteq Nat \ {0} /\ IsFiniteSet(DOMAIN p) /\ Mutual(p)
      /\ DOMAIN q \subseteq Nat \ {0} /\ Mutual(q)
      /\ A[i] \in DOMAIN p /\ A[j] \in DOMAIN p
  BY <1>1, <1>2, <1>3, PointFacts, PointsMutual
<1>7. Settled(p, s.minSamples, A[i]) /\ Settled(p, s.minSamples, A[j])
  BY <1>1, <1>3 DEF SettledTrial
<1>8. Dbscan(p, s.minSamples)[A[i]] = Dbscan(p, s.minSamples)[A[j]]
      <=> Dbscan(q, s.minSamples)[phi[A[i]]] = Dbscan(q, s.minSamples)[phi[A[j]]]
  <2>1. PICK k \in DOMAIN p : k = A[i]
    BY <1>6
  <2>2. PICK l \in DOMAIN p : l = A[j]
    BY <1>6
  <2>3. PICK m : m = s.minSamples
    OBVIOUS
  <2>4. SamePoints(p, q, phi) /\ Settled(p, m, k) /\ Settled(p, m, l)
    BY <1>5, <1>7, <2>1, <2>2, <2>3
  <2>5. Dbscan(p, m)[k] = Dbscan(p, m)[l] <=> Dbscan(q, m)[phi[k]] = Dbscan(q, m)[phi[l]]
    BY <1>6, <2>4, LabelsAgree
  <2> QED
    BY <2>1, <2>2, <2>3, <2>5
<1>9. B[x] = phi[A[i]] /\ B[y] = phi[A[j]]
  BY <1>5
<1>10. ClusterCandidates(c, s).labels[i] = ClusterCandidates(c, s).labels[j]
       <=> Dbscan(p, s.minSamples)[A[i]] = Dbscan(p, s.minSamples)[A[j]]
  <2>1. CellLabel(c, s) = Dbscan(p, s.minSamples)
    BY <1>1 DEF CellLabel
  <2> QED
    BY <1>3, <2>1, CandidatesClustered
<1>11. ClusterCandidates(d, s).labels[x] = ClusterCandidates(d, s).labels[y]
       <=> Dbscan(q, s.minSamples)[B[x]] = Dbscan(q, s.minSamples)[B[y]]
  <2>1. CellLabel(d, s) = Dbscan(q, s.minSamples)
    BY <1>2 DEF CellLabel
  <2> QED
    BY <1>4, <2>1, CandidatesClustered
<1> QED
  BY <1>8, <1>9, <1>10, <1>11

\* A trial with one label only in reach is settled.
LEMMA OneLabelSettles ==
  ASSUME NEW c \in Seq(Trial), NEW s \in Settings, NEW i \in DOMAIN c,
         NEW l, l = ClusterCandidates(c, s).labels,
         ~ (Cardinality({l[k] : k \in NearCores(Points(c, s), s.minSamples, CellOf(c, s)[i])}) > 1)
  PROVE  SettledTrial(c, s, i)
<1>1. PICK p : p = Points(c, s)
  OBVIOUS
<1>2. PICK A : A = CellOf(c, s)
  OBVIOUS
<1>3. PICK m : m = s.minSamples
  OBVIOUS
<1>4. PICK S : S = {l[k] : k \in NearCores(p, m, A[i])}
  OBVIOUS
<1>5. /\ DOMAIN p = Range(A) /\ DOMAIN p \subseteq Nat \ {0} /\ IsFiniteSet(DOMAIN p) /\ Mutual(p)
      /\ \A k \in Range(A) : k \in DOMAIN c /\ A[k] = k
  BY <1>1, <1>2, PointFacts, PointsMutual
<1>6. NearCores(p, m, A[i]) \subseteq Cores(p, m) /\ Cores(p, m) \subseteq Range(A)
  BY <1>5 DEF NearCores, Cores
<1>7. IsFiniteSet(S)
  <2>1. PICK f : f = [k \in NearCores(p, m, A[i]) |-> l[k]]
    OBVIOUS
  <2>2. f \in Surjection(NearCores(p, m, A[i]), S)
    BY <1>4, <2>1 DEF Surjection
  <2>3. IsFiniteSet(NearCores(p, m, A[i]))
    BY <1>5, <1>6, FS_Subset
  <2> QED
    BY <2>2, <2>3, FS_Surjection
<1>8. ASSUME NEW x \in S, NEW y \in S
      PROVE  x = y
  <2> SUFFICES ASSUME x # y PROVE FALSE
    OBVIOUS
  <2>1. IsFiniteSet({y}) /\ Cardinality({y}) = 1
    BY FS_Singleton
  <2>2. IsFiniteSet({x, y}) /\ Cardinality({x, y}) = 2
    <3>1. {x, y} = {y} \union {x} /\ x \notin {y}
      OBVIOUS
    <3>2. PICK Y : Y = {y}
      OBVIOUS
    <3>3. IsFiniteSet(Y \union {x}) /\ Cardinality(Y \union {x}) = Cardinality(Y) + 1
      BY <2>1, <3>1, <3>2, FS_AddElement
    <3>4. Y \union {x} = {x, y}
      BY <3>2
    <3>5. IsFiniteSet({x, y}) /\ Cardinality({x, y}) = Cardinality(Y) + 1
      BY <3>3, <3>4
    <3>6. Cardinality(Y) = 1
      BY <2>1, <3>2
    <3> QED
      BY <3>5, <3>6
  <2>3. {x, y} \subseteq S
    OBVIOUS
  <2>4. Cardinality({x, y}) <= Cardinality(S) /\ Cardinality(S) \in Nat
    BY <1>7, <2>3, FS_Subset, FS_CardinalityType
  <2>5. Cardinality(S) > 1
    BY <2>2, <2>4
  <2> QED
    BY <1>1, <1>2, <1>3, <1>4, <2>5
<1>9. ASSUME NEW k \in NearCores(p, m, A[i]), NEW n \in NearCores(p, m, A[i])
      PROVE  Joined(p, m, k, n)
  <2>1. /\ k \in Cores(p, m) /\ n \in Cores(p, m)
        /\ k \in DOMAIN c /\ n \in DOMAIN c /\ A[k] = k /\ A[n] = n
    BY <1>5, <1>6
  <2>2. l[k] = l[n]
    BY <1>4, <1>8
  <2>3. Dbscan(p, m)[k] = Dbscan(p, m)[n]
    <3>1. l[k] = l[n] <=> Dbscan(p, m)[A[k]] = Dbscan(p, m)[A[n]]
      BY <1>1, <1>2, <1>3, <2>1, CandidatesClustered DEF CellLabel
    <3> QED
      BY <2>1, <2>2, <3>1
  <2>4. FirstCore(p, m, k) = FirstCore(p, m, n)
    BY <1>5, <2>1, <2>3, LabelsMark
  <2> QED
    BY <1>5, <2>1, <2>4, FirstCores
<1> QED
  BY <1>1, <1>2, <1>3, <1>9 DEF SettledTrial, Settled

\* Wherever t comes, it is settled.
SettledAt(c, s, t) == \A i \in DOMAIN c : c[i] = t => SettledTrial(c, s, i)

\* Two settled trials are together in one order if they are in the other.
LEMMA CompanyKept ==
  ASSUME NEW c \in Seq(Trial), Distinct(c), NEW d \in Seq(Trial), Distinct(d),
         Range(c) = Range(d), NEW s \in Settings,
         NEW l, l = ClusterCandidates(c, s).labels, NEW a, a = ClusterCandidates(d, s).labels,
         NEW t, SettledAt(c, s, t), NEW u, SettledAt(c, s, u)
  PROVE  Together(d, a, t, u) <=> Together(c, l, t, u)
<1>1. ASSUME NEW i \in DOMAIN c, NEW j \in DOMAIN c, NEW x \in DOMAIN d, NEW y \in DOMAIN d,
             c[i] = t, c[j] = u, d[x] = t, d[y] = u
      PROVE  l[i] = l[j] <=> a[x] = a[y]
  <2>1. SettledTrial(c, s, i) /\ SettledTrial(c, s, j) /\ d[x] = c[i] /\ d[y] = c[j]
    BY <1>1 DEF SettledAt
  <2> QED
    BY <2>1, SameCompany
<1>2. ASSUME NEW i \in DOMAIN c
      PROVE  \E x \in DOMAIN d : d[x] = c[i]
  BY DEF Range
<1>3. ASSUME NEW x \in DOMAIN d
      PROVE  \E i \in DOMAIN c : c[i] = d[x]
  BY DEF Range
<1>4. ASSUME Together(c, l, t, u)
      PROVE  Together(d, a, t, u)
  <2>1. PICK i \in DOMAIN c, j \in DOMAIN c : c[i] = t /\ c[j] = u /\ l[i] = l[j]
    BY <1>4 DEF Together
  <2>2. PICK x \in DOMAIN d : d[x] = t
    BY <1>2, <2>1
  <2>3. PICK y \in DOMAIN d : d[y] = u
    BY <1>2, <2>1
  <2>4. a[x] = a[y]
    BY <1>1, <2>1, <2>2, <2>3
  <2> QED
    BY <2>2, <2>3, <2>4 DEF Together
<1>5. ASSUME Together(d, a, t, u)
      PROVE  Together(c, l, t, u)
  <2>1. PICK x \in DOMAIN d, y \in DOMAIN d : d[x] = t /\ d[y] = u /\ a[x] = a[y]
    BY <1>5 DEF Together
  <2>2. PICK i \in DOMAIN c : c[i] = t
    BY <1>3, <2>1
  <2>3. PICK j \in DOMAIN c : c[j] = u
    BY <1>3, <2>1
  <2>4. l[i] = l[j]
    BY <1>1, <2>1, <2>2, <2>3
  <2> QED
    BY <2>2, <2>3, <2>4 DEF Together
<1> QED
  BY <1>4, <1>5

\* An order of all jobs: each comes once.
LEMMA OrdersAll ==
  ASSUME NEW g \in Gulps, NEW order \in SetToSeqs(DOMAIN g)
  PROVE  /\ Cardinality(DOMAIN g) \in Nat
         /\ order \in [1 .. Cardinality(DOMAIN g) -> DOMAIN g]
         /\ \A i, j \in 1 .. Cardinality(DOMAIN g) : order[i] = order[j] => i = j
         /\ Range(order) = DOMAIN g
<1>1. PICK S : S = DOMAIN g
  OBVIOUS
<1>2. IsFiniteSet(S)
  BY <1>1, GulpFacts
<1>3. PICK n : n = Cardinality(S)
  OBVIOUS
<1>4. n \in Nat
  BY <1>2, <1>3, FS_CardinalityType
<1>5. order \in [1 .. n -> S] /\ \A i, j \in 1 .. n : order[i] = order[j] => i = j
  BY <1>1, <1>3 DEF SetToSeqs
<1>6. order \in Injection(1 .. n, S)
  BY <1>5 DEF Injection, IsInjective
<1>7. Cardinality(1 .. n) = n
  BY <1>4, FS_Interval
<1>8. order \in Surjection(1 .. n, S)
  <2>1. PICK D : D = 1 .. n
    OBVIOUS
  <2>2. order \in Injection(D, S) /\ Cardinality(D) = Cardinality(S)
    BY <1>3, <1>6, <1>7, <2>1
  <2> QED
    BY <1>2, <2>1, <2>2, FS_Injection
<1>9. Range(order) = S
  BY <1>5, <1>8 DEF Surjection, Range
<1> QED
  BY <1>1, <1>3, <1>4, <1>5, <1>9

\* The other orders bring the same trials.
LEMMA OthersSame ==
  ASSUME FlowInv, Range(arrived) = DOMAIN gulp, pending # <<>>,
         Cardinality({t.snr : t \in Range(pending)}) = Len(pending),
         NEW order \in SetToSeqs(DOMAIN gulp), NEW d, d = InOrder(order)
  PROVE  /\ pending \in Seq(Trial) /\ Distinct(pending)
         /\ d \in Seq(Trial) /\ Distinct(d) /\ Range(d) = Range(pending)
<1>1. /\ gulp \in Gulps /\ pending \in Seq(Trial)
      /\ Range(pending) = Passed(gulp, setting.veto, DOMAIN gulp)
      /\ Len(pending) = Cardinality(KeptUnits(gulp, setting.veto, DOMAIN gulp))
  BY DEF FlowInv
<1>2. PICK n : n = Cardinality(DOMAIN gulp)
  OBVIOUS
<1>3. /\ n \in Nat /\ order \in [1 .. n -> DOMAIN gulp] /\ Range(order) = DOMAIN gulp
      /\ \A i, j \in 1 .. n : order[i] = order[j] => i = j
  BY <1>1, <1>2, OrdersAll
<1>4. n # 0
  <2> SUFFICES ASSUME n = 0 PROVE FALSE
    OBVIOUS
  <2>1. DOMAIN gulp = {}
    <3>1. DOMAIN order = {}
      BY <1>3
    <3> QED
      BY <1>3, <3>1 DEF Range
  <2>2. Range(pending) = {}
    BY <1>1, <2>1 DEF Passed
  <2>3. 1 \in DOMAIN pending
    BY <1>1
  <2> QED
    BY <2>2, <2>3 DEF Range
<1>5. PICK f : f = [k \in DOMAIN order |-> ApplyWidthVeto(gulp[order[k]], setting.veto)]
  OBVIOUS
<1>6. DOMAIN f = 1 .. n /\ \A k \in 1 .. n : f[k] = ApplyWidthVeto(gulp[order[k]], setting.veto)
  BY <1>3, <1>5
<1>7. Len(f) = n
  <2>1. PICK T : T = {f[k] : k \in 1 .. n}
    OBVIOUS
  <2>2. f \in [1 .. n -> T]
    BY <1>5, <1>6, <2>1
  <2>3. f \in Seq(T)
    BY <1>3, <2>2
  <2> QED
    BY <1>3, <1>6, <2>3
<1>8. FlattenSeq(f) = d
  BY <1>5 DEF InOrder
<1>9. /\ d \in Seq(Trial) /\ Range(d) = Passed(gulp, setting.veto, DOMAIN gulp)
      /\ Len(d) = Cardinality(KeptUnits(gulp, setting.veto, DOMAIN gulp))
  <2>1. n \in Nat \ {0}
    BY <1>3, <1>4
  <2> QED
    BY <1>1, <1>3, <1>6, <1>7, <1>8, <2>1, OrderKeeps
<1>10. Distinct(pending)
  BY <1>1, DistinctByCount
<1>11. Distinct(d)
  <2>1. Range(d) = Range(pending) /\ Len(d) = Len(pending)
    BY <1>1, <1>9
  <2>2. Cardinality({t.snr : t \in Range(d)}) = Len(d)
    BY <2>1
  <2> QED
    BY <1>9, <2>2, DistinctByCount
<1> QED
  BY <1>1, <1>9, <1>10, <1>11

\* A trial that does not straddle is settled wherever it comes.
LEMMA NotStraddling ==
  ASSUME cands \in Seq(Trial), setting \in Settings,
         labels = ClusterCandidates(cands, setting).labels,
         NEW t, t \notin Straddling, NEW i \in DOMAIN cands, cands[i] = t
  PROVE  SettledTrial(cands, setting, i)
<1>1. PICK A : A = CellOf(cands, setting)
  OBVIOUS
<1>2. Straddling =
        {cands[j] : j \in {k \in DOMAIN cands :
           Cardinality({labels[x] : x \in NearCores(Points(cands, setting), setting.minSamples, A[k])})
             > 1}}
  BY <1>1 DEF Straddling, NearCores
<1>3. ~ (Cardinality({labels[x] : x \in NearCores(Points(cands, setting), setting.minSamples, A[i])})
           > 1)
  BY <1>2
<1> QED
  BY <1>1, <1>3, OneLabelSettles

LEMMA FlowOrder == FlowInv => OrderMovesBordersOnly
<1> SUFFICES ASSUME FlowInv, Done, cands # <<>>,
                    Cardinality({t.snr : t \in Range(pending)}) = Len(pending),
                    NEW order \in SetToSeqs(DOMAIN gulp),
                    NEW others, others = StormRule(InOrder(order), setting),
                    NEW answer, answer = ClusterCandidates(others, setting)
             PROVE  /\ Range(others) = Range(cands)
                    /\ Len(answer.clusters) = Len(clusters)
                    /\ \A t, u \in Range(cands) \ Straddling :
                         Together(others, answer.labels, t, u) <=> Together(cands, labels, t, u)
  BY DEF OrderMovesBordersOnly
<1>1. /\ setting \in Settings /\ HandedOver
      /\ clusters = ClusterCandidates(cands, setting).clusters
      /\ labels = ClusterCandidates(cands, setting).labels
  BY DEF FlowInv, Done
<1>2. /\ Range(arrived) = DOMAIN gulp /\ pending # <<>>
      /\ cands = StormRule(pending, setting)
  BY <1>1 DEF HandedOver
<1>3. PICK d : d = InOrder(order)
  OBVIOUS
<1>4. /\ pending \in Seq(Trial) /\ Distinct(pending)
      /\ d \in Seq(Trial) /\ Distinct(d) /\ Range(d) = Range(pending)
  BY <1>2, <1>3, OthersSame
<1>5. setting.cap \in Int
  BY <1>1, SettingsAssumption
<1>6. /\ cands \in Seq(Trial) /\ Distinct(cands)
      /\ others \in Seq(Trial) /\ Distinct(others) /\ Range(others) = Range(cands)
  BY <1>2, <1>3, <1>4, <1>5, StormRuleMatch
<1>7. Len(answer.clusters) = Len(clusters)
  BY <1>1, <1>6, AsManyClusters
<1>8. ASSUME NEW t \in Range(cands) \ Straddling, NEW u \in Range(cands) \ Straddling
      PROVE  Together(others, answer.labels, t, u) <=> Together(cands, labels, t, u)
  <2>1. SettledAt(cands, setting, t) /\ SettledAt(cands, setting, u)
    BY <1>1, <1>6, NotStraddling DEF SettledAt
  <2> QED
    BY <1>1, <1>6, <2>1, CompanyKept
<1> QED
  BY <1>6, <1>7, <1>8

(***************************************************************************)
(* No gulp leaves its types.                                               *)
(***************************************************************************)
THEOREM TypeCorrect == Spec => []TypeOK
  BY FlowInit, FlowStep, FlowType, PTL DEF Spec

(***************************************************************************)
(* The storm rule is fair, and the occupancy counts what it shed, for any  *)
(* gulp, cap, quota, floor and window.                                     *)
(***************************************************************************)
THEOREM ShedFairCorrect == Spec => []ShedIsFair
  BY FlowInit, FlowStep, FlowShedFair, PTL DEF Spec

(***************************************************************************)
(* A gulp's row, clusters and labels account for every trial, and the      *)
(* reason for a miss is the true one.                                      *)
(***************************************************************************)
THEOREM RowTellsCorrect == Spec => []RowTells
<1>1. FlowInv => RowTells
  BY FlowType, FlowAccounted, FlowReasons DEF RowTells
<1> QED
  BY <1>1, FlowInit, FlowStep, PTL DEF Spec

(***************************************************************************)
(* The order in which the jobs report moves borders only, whatever the     *)
(* gulp, the setting, the pointing table and the order, if no two trials   *)
(* have the same S/N: _handle appends each batch as it comes, and neither  *)
(* the storm rule nor DBSCAN may turn that order into other candidates,    *)
(* another number of clusters or other company for a trial that is within  *)
(* reach of one cluster's cores only.                                      *)
(***************************************************************************)
THEOREM OrderMovesBordersCorrect == Spec => []OrderMovesBordersOnly
  BY FlowInit, FlowStep, FlowOrder, PTL DEF Spec

=============================================================================
