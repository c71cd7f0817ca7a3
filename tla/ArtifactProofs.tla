--------------------------- MODULE ArtifactProofs ---------------------------
(***************************************************************************)
(* Proofs about the chain of artifacts.                                    *)
(*                                                                         *)
(* First Catalogue and QueryRun, for every set of artifacts, catalogue     *)
(* files, requests and options: only whole chains are admitted.  Then      *)
(* TokenPlan and Pipeline, for every corpus, request and limit: the tasks  *)
(* of every plan cut its corpus into pieces that could not be longer, and  *)
(* every index holds the vectors of its corpus.                            *)
(***************************************************************************)
EXTENDS QueryRun, Pipeline, FiniteSetTheorems, SequenceTheorems, TLAPS

-----------------------------------------------------------------------------
(* Sorted sets.                                                            *)

(* A set of numbers has a least one.                                       *)
LEMMA LeastNumber ==
    ASSUME NEW T, T \subseteq Nat, T # {}
    PROVE  \E x \in T : \A y \in T : x <= y
<1>1. PICK x \in T : \A y \in T : << y, x >> \notin OpToRel(<, Nat)
  BY NatLessThanWellFounded, WFMin
<1>2. ASSUME NEW y \in T
      PROVE  x <= y
  <2>1. x \in Nat /\ y \in Nat
    OBVIOUS
  <2>2. ~ (y < x)
    BY <1>1, <2>1 DEF OpToRel
  <2>3. QED
    BY <2>1, <2>2
<1>3. QED
  BY <1>2

\* R orders S strictly and totally.
Orders(R, S) ==
    /\ \A x \in S : << x, x >> \notin R
    /\ \A x, y, z \in S : << x, y >> \in R /\ << y, z >> \in R => << x, z >> \in R
    /\ \A x, y \in S : x = y \/ << x, y >> \in R \/ << y, x >> \in R

\* How many elements come before x.
Preceding(R, S, x) == {y \in S : << y, x >> \in R}

(* In an ordered finite set the number of predecessors numbers the set.    *)
LEMMA RanksNumber ==
    ASSUME NEW S, IsFiniteSet(S), NEW R, Orders(R, S)
    PROVE  LET rank == [x \in S |-> Cardinality(Preceding(R, S, x))]
           IN  /\ rank \in Injection(S, 0 .. Cardinality(S) - 1)
               /\ rank \in Surjection(S, 0 .. Cardinality(S) - 1)
<1> DEFINE rank == [x \in S |-> Cardinality(Preceding(R, S, x))]
           n == Cardinality(S)
<1>0. n \in Nat
  BY FS_CardinalityType
<1>1. \A x \in S : Preceding(R, S, x) \in SUBSET S /\ x \notin Preceding(R, S, x)
  BY DEF Preceding, Orders
<1>2. \A x \in S : IsFiniteSet(Preceding(R, S, x)) /\ Cardinality(Preceding(R, S, x)) \in 0 .. n - 1
  <2>1. SUFFICES ASSUME NEW x \in S
                 PROVE  /\ IsFiniteSet(Preceding(R, S, x))
                        /\ Cardinality(Preceding(R, S, x)) \in 0 .. n - 1
    OBVIOUS
  <2>2. /\ IsFiniteSet(Preceding(R, S, x))
        /\ Cardinality(Preceding(R, S, x)) <= n
        /\ n = Cardinality(Preceding(R, S, x)) => S = Preceding(R, S, x)
    BY <1>1, FS_Subset
  <2>3. Cardinality(Preceding(R, S, x)) \in Nat
    BY <2>2, FS_CardinalityType
  <2>4. Cardinality(Preceding(R, S, x)) # n
    BY <1>1, <2>2
  <2>5. QED
    BY <1>0, <2>2, <2>3, <2>4
<1>3. rank \in [S -> 0 .. n - 1]
  BY <1>2
<1>4. ASSUME NEW x \in S, NEW y \in S, << x, y >> \in R
      PROVE  Cardinality(Preceding(R, S, x)) < Cardinality(Preceding(R, S, y))
  <2>1. Preceding(R, S, x) \in SUBSET Preceding(R, S, y)
    BY <1>4 DEF Preceding, Orders
  <2>2. x \in Preceding(R, S, y) /\ x \notin Preceding(R, S, x)
    BY <1>4 DEF Preceding, Orders
  <2>3. /\ Cardinality(Preceding(R, S, x)) <= Cardinality(Preceding(R, S, y))
        /\ Cardinality(Preceding(R, S, x)) # Cardinality(Preceding(R, S, y))
    BY <1>2, <2>1, <2>2, FS_Subset
  <2>4. QED
    BY <1>0, <1>2, <2>3
<1>5. ASSUME NEW x \in S, NEW y \in S, rank[x] = rank[y]
      PROVE  x = y
  <2>1. Cardinality(Preceding(R, S, x)) = Cardinality(Preceding(R, S, y))
    BY <1>5
  <2>2. ~ << x, y >> \in R /\ ~ << y, x >> \in R
    BY <1>0, <1>2, <1>4, <2>1
  <2>3. QED
    BY <2>2 DEF Orders
<1>6. rank \in Injection(S, 0 .. n - 1)
  BY <1>3, <1>5 DEF Injection, IsInjective
<1>7. IsFiniteSet(0 .. n - 1) /\ Cardinality(0 .. n - 1) = n
  <2>1. 0 \in Int /\ n - 1 \in Int
    BY <1>0
  <2>2. Cardinality(0 .. n - 1) = IF 0 > n - 1 THEN 0 ELSE n - 1 - 0 + 1
    BY <2>1, FS_Interval
  <2>3. IsFiniteSet(0 .. n - 1)
    BY <2>1, FS_Interval
  <2>4. QED
    BY <1>0, <2>2, <2>3
<1>8. rank \in Surjection(S, 0 .. n - 1)
  BY <1>6, <1>7, FS_Injection
<1>9. QED
  BY <1>6, <1>8

(* Every rank is the rank of one element.                                  *)
LEMMA Ranked ==
    ASSUME NEW S, IsFiniteSet(S), NEW R, Orders(R, S)
    PROVE  /\ \A k \in 1 .. Cardinality(S) :
                 \E x \in S : Cardinality(Preceding(R, S, x)) = k - 1
           /\ \A x \in S : Cardinality(Preceding(R, S, x)) \in 0 .. Cardinality(S) - 1
           /\ \A x, y \in S :
                 Cardinality(Preceding(R, S, x)) = Cardinality(Preceding(R, S, y)) => x = y
<1> DEFINE rank == [x \in S |-> Cardinality(Preceding(R, S, x))]
<1>0. Cardinality(S) \in Nat
  BY FS_CardinalityType
<1>1. /\ rank \in Injection(S, 0 .. Cardinality(S) - 1)
      /\ rank \in Surjection(S, 0 .. Cardinality(S) - 1)
  BY RanksNumber
<1>2. \A x \in S : rank[x] = Cardinality(Preceding(R, S, x))
  OBVIOUS
<1>3. \A k \in 1 .. Cardinality(S) : k - 1 \in 0 .. Cardinality(S) - 1
  BY <1>0
<1> HIDE DEF rank
<1>4. \A k \in 1 .. Cardinality(S) : \E x \in S : rank[x] = k - 1
  BY <1>1, <1>3 DEF Surjection
<1>5. \A x \in S : rank[x] \in 0 .. Cardinality(S) - 1
  BY <1>1 DEF Injection
<1>6. \A x, y \in S : rank[x] = rank[y] => x = y
  BY <1>1 DEF Injection, IsInjective
<1>7. QED
  BY <1>2, <1>4, <1>5, <1>6

(* Ascending lists exactly the members of a set of numbers.                *)
LEMMA AscendingLists ==
    ASSUME NEW S, S \subseteq Int, IsFiniteSet(S)
    PROVE  /\ Cardinality(S) \in Nat
           /\ DOMAIN Ascending(S) = 1 .. Cardinality(S) /\ Len(Ascending(S)) = Cardinality(S)
           /\ \A k \in 1 .. Cardinality(S) : Ascending(S)[k] \in S
           /\ \A x \in S : \E k \in 1 .. Cardinality(S) : Ascending(S)[k] = x
<1> DEFINE R == {p \in Int \X Int : p[1] < p[2]}
           n == Cardinality(S)
           below == [x \in S |-> Cardinality({y \in S : y < x})]
<1>0. n \in Nat
  BY FS_CardinalityType
<1>1. \A x, y \in S : << x, y >> \in R <=> x < y
  OBVIOUS
<1>2. Orders(R, S)
  BY <1>1 DEF Orders
<1>3. \A x \in S : Preceding(R, S, x) = {y \in S : y < x}
  BY <1>1 DEF Preceding
<1>4. \A x \in S : below[x] = Cardinality(Preceding(R, S, x))
  BY <1>3
<1>5. \A k \in 1 .. n : Ascending(S)[k] = CHOOSE x \in S : Cardinality({y \in S : y < x}) = k - 1
  BY DEF Ascending, Ordered
<1>11. \A x \in S : below[x] = Cardinality({y \in S : y < x})
  OBVIOUS
<1>8. DOMAIN Ascending(S) = 1 .. n /\ Len(Ascending(S)) = n
  BY <1>0 DEF Ascending, Ordered
<1> HIDE DEF R, below
<1>9. /\ \A k \in 1 .. n : \E x \in S : below[x] = k - 1
      /\ \A x \in S : below[x] \in 0 .. n - 1
      /\ \A x, y \in S : below[x] = below[y] => x = y
  <2>1. /\ \A k \in 1 .. n : \E x \in S : Cardinality(Preceding(R, S, x)) = k - 1
        /\ \A x \in S : Cardinality(Preceding(R, S, x)) \in 0 .. n - 1
        /\ \A x, y \in S :
              Cardinality(Preceding(R, S, x)) = Cardinality(Preceding(R, S, y)) => x = y
    BY <1>2, Ranked
  <2>2. QED
    BY <1>4, <2>1
<1>6. ASSUME NEW k \in 1 .. n
      PROVE  Ascending(S)[k] \in S /\ below[Ascending(S)[k]] = k - 1
  <2>1. \E x \in S : Cardinality({y \in S : y < x}) = k - 1
    BY <1>9, <1>11
  <2>2. /\ Ascending(S)[k] \in S
        /\ Cardinality({y \in S : y < Ascending(S)[k]}) = k - 1
    BY <1>5, <2>1
  <2>3. QED
    BY <1>11, <2>2
<1>7. ASSUME NEW x \in S
      PROVE  \E k \in 1 .. n : Ascending(S)[k] = x
  <2>1. below[x] \in 0 .. n - 1
    BY <1>9
  <2>2. PICK k \in 1 .. n : k - 1 = below[x]
    <3>1. \A b \in 0 .. n - 1 : b + 1 \in 1 .. n /\ b + 1 - 1 = b
      BY <1>0
    <3>2. QED
      BY <2>1, <3>1
  <2>3. below[Ascending(S)[k]] = below[x] /\ Ascending(S)[k] \in S
    BY <1>6, <2>2
  <2>4. Ascending(S)[k] = x
    BY <1>9, <2>3
  <2>5. QED
    BY <2>2, <2>4
<1>10. QED
  BY <1>0, <1>6, <1>7, <1>8

(* A list whose neighbours ascend ascends.                                 *)
LEMMA NeighboursAscend ==
    ASSUME NEW n \in Nat, NEW f, \A k \in 1 .. n : f[k] \in Int,
           \A k \in 1 .. n - 1 : f[k] < f[k + 1],
           NEW k \in 1 .. n, NEW l \in 1 .. n, k < l
    PROVE  f[k] < f[l]
<1> DEFINE Bad == {m \in k + 1 .. n : ~ f[k] < f[m]}
<1>1. SUFFICES ASSUME l \in Bad PROVE FALSE
  OBVIOUS
<1>2. Bad \subseteq Nat /\ \A m \in Bad : m \in k + 1 .. n /\ ~ f[k] < f[m]
  OBVIOUS
<1>3. \A m \in k + 1 .. n : f[k] < f[m] \/ m \in Bad
  OBVIOUS
<1> HIDE DEF Bad
<1>4. PICK m \in Bad : \A j \in Bad : m <= j
  BY <1>1, <1>2, LeastNumber
<1>5. m \in k + 1 .. n /\ m - 1 \in 1 .. n - 1 /\ m - 1 + 1 = m
  BY <1>2
<1>6. f[m - 1] < f[m]
  BY <1>5
<1>7. f[k] < f[m]
  <2>1. CASE m = k + 1
    BY <1>6, <2>1
  <2>2. CASE m # k + 1
    <3>1. m - 1 \in k + 1 .. n /\ ~ m <= m - 1
      BY <1>5, <2>2
    <3>2. f[k] < f[m - 1]
      BY <1>3, <1>4, <3>1
    <3>3. f[k] \in Int /\ f[m - 1] \in Int /\ f[m] \in Int
      BY <1>5, <3>1
    <3>4. QED
      BY <1>6, <3>2, <3>3
  <2>3. QED
    BY <2>1, <2>2
<1>8. QED
  BY <1>2, <1>7

-----------------------------------------------------------------------------
(* Catalogues.                                                             *)

\* The positions of the datasets that include a relation.
Having(datasets, relation) ==
    {k \in DOMAIN datasets : relation \in Range(datasets[k].dataset.relations)}

\* A list of as many members as its length says.
Listed(list) == Len(list) \in Nat /\ DOMAIN list = 1 .. Len(list)

(* The owners of a relation are the datasets that include it, each once.   *)
LEMMA OwnersHave ==
    ASSUME NEW datasets, Listed(datasets), NEW relation
    PROVE  /\ IsFiniteSet(Having(datasets, relation))
           /\ Len(Owners(datasets, relation)) = Cardinality(Having(datasets, relation))
           /\ \A k \in Having(datasets, relation) :
                 datasets[k].dataset.id \in Range(Owners(datasets, relation))
<1> DEFINE H == Having(datasets, relation)
<1>1. H \subseteq Int /\ IsFiniteSet(H)
  <2>1. IsFiniteSet(1 .. Len(datasets))
    BY FS_Interval DEF Listed
  <2>2. H \in SUBSET (1 .. Len(datasets))
    BY DEF Listed, Having
  <2>3. IsFiniteSet(H)
    BY <2>1, <2>2, FS_Subset
  <2>4. QED
    BY <2>2, <2>3
<1>2. Owners(datasets, relation) =
        [j \in 1 .. Len(Ascending(H)) |-> datasets[Ascending(H)[j]].dataset.id]
  BY DEF Owners, MapSeq, Having
<1> HIDE DEF H
<1>3. /\ Cardinality(H) \in Nat /\ Len(Ascending(H)) = Cardinality(H)
      /\ \A k \in H : \E j \in 1 .. Cardinality(H) : Ascending(H)[j] = k
  BY <1>1, AscendingLists
<1>4. Len(Owners(datasets, relation)) = Cardinality(H)
  BY <1>2, <1>3
<1>5. ASSUME NEW k \in H
      PROVE  datasets[k].dataset.id \in Range(Owners(datasets, relation))
  <2>1. PICK j \in 1 .. Cardinality(H) : Ascending(H)[j] = k
    BY <1>3
  <2>2. /\ j \in DOMAIN Owners(datasets, relation)
        /\ Owners(datasets, relation)[j] = datasets[k].dataset.id
    BY <1>2, <1>3, <2>1
  <2>3. QED
    BY <2>2 DEF Range
<1>6. QED
  BY <1>1, <1>4, <1>5 DEF H

(* There are finitely many relations, and they are numbers.                *)
LEMMA OverlapsNumbers ==
    ASSUME NEW datasets, Listed(datasets),
           \A k \in DOMAIN datasets : DatasetParsed(datasets[k].dataset)
    PROVE  Overlaps(datasets) \subseteq Int /\ IsFiniteSet(Overlaps(datasets))
<1> DEFINE own == [k \in DOMAIN datasets |-> Range(datasets[k].dataset.relations)]
           All == {own[k] : k \in DOMAIN datasets}
<1>1. IsFiniteSet(DOMAIN datasets)
  BY FS_Interval DEF Listed
<1>2. IsFiniteSet(All)
  <2>1. own \in Surjection(DOMAIN datasets, All)
    BY DEF Surjection
  <2> HIDE DEF own, All
  <2>2. QED
    BY <1>1, <2>1, FS_Surjection
<1>3. ASSUME NEW k \in DOMAIN datasets
      PROVE  IsFiniteSet(own[k]) /\ own[k] \subseteq Int
  <2> DEFINE r == datasets[k].dataset.relations
  <2>1. r \in Seq(Int)
    BY DEF DatasetParsed
  <2>2. own[k] = Range(r)
    OBVIOUS
  <2> HIDE DEF r
  <2>3. Len(r) \in Nat /\ DOMAIN r = 1 .. Len(r) /\ \A j \in 1 .. Len(r) : r[j] \in Int
    BY <2>1
  <2>4. Range(r) \subseteq Int
    BY <2>3 DEF Range
  <2>5. IsFiniteSet(1 .. Len(r))
    BY <2>3, FS_Interval
  <2>6. r \in Surjection(1 .. Len(r), Range(r))
    <3>1. r \in [1 .. Len(r) -> Range(r)]
      BY <2>1, <2>3 DEF Range
    <3>2. QED
      BY <2>3, <3>1 DEF Surjection, Range
  <2>7. QED
    BY <2>2, <2>4, <2>5, <2>6, FS_Surjection
<1>4. \A T \in All : IsFiniteSet(T) /\ T \subseteq Int
  BY <1>3
<1>5. Relations(datasets) = UNION All
  BY DEF Relations
<1> HIDE DEF All
<1>6. Relations(datasets) \subseteq Int /\ IsFiniteSet(Relations(datasets))
  BY <1>2, <1>4, <1>5, FS_UNION
<1>7. Overlaps(datasets) \in SUBSET Relations(datasets)
  BY DEF Overlaps
<1>8. QED
  BY <1>6, <1>7, FS_Subset

(* No allowance is missing: there are as many as overlaps, for different   *)
(* overlaps.                                                               *)
LEMMA OverlapAllowed ==
    ASSUME NEW cat, CatalogueParsed(cat), CatalogueValid(cat),
           NEW r \in Overlaps(cat.datasets)
    PROVE  \E a \in Range(cat.allowances) :
              a.relation = r /\ a.datasets = Owners(cat.datasets, r)
<1> DEFINE A == cat.allowances
           n == Len(A)
           O == Overlaps(cat.datasets)
           named == [j \in 1 .. n |-> A[j].relation]
<1>1. Listed(cat.datasets) /\ \A k \in DOMAIN cat.datasets : DatasetParsed(cat.datasets[k].dataset)
  BY DEF CatalogueParsed, Listed
<1>2. O \subseteq Int /\ IsFiniteSet(O)
  BY <1>1, OverlapsNumbers
<1>3. n \in Nat /\ DOMAIN A = 1 .. n
  BY DEF CatalogueParsed
<1>4. /\ \A a \in Range(A) : a.relation \in O /\ a.datasets = Owners(cat.datasets, a.relation)
      /\ n = Cardinality(O)
  BY DEF CatalogueValid, ValidateOverlapAllowances
<1>5. \A k \in 1 .. n - 1 : named[k] < named[k + 1]
  <2>1. StrictlyAscending(named) /\ Len(named) = n
    BY <1>3 DEF CatalogueValid, ValidateOverlapAllowances, MapSeq
  <2>2. QED
    BY <2>1 DEF StrictlyAscending
<1>6. \A k \in 1 .. n : A[k] \in Range(A) /\ named[k] = A[k].relation
  BY <1>3 DEF Range
<1>7. named \in [1 .. n -> O]
  BY <1>4, <1>6
<1> HIDE DEF A, n, O, named
<1>8. \A k \in 1 .. n : named[k] \in Int
  BY <1>2, <1>7
<1>9. ASSUME NEW k \in 1 .. n, NEW l \in 1 .. n, named[k] = named[l]
      PROVE  k = l
  <2>1. ~ k < l
    <3>1. SUFFICES ASSUME k < l PROVE FALSE
      OBVIOUS
    <3>2. named[k] < named[l]
      BY <1>3, <1>5, <1>8, <3>1, NeighboursAscend
    <3>3. QED
      BY <1>8, <1>9, <3>2
  <2>2. ~ l < k
    <3>1. SUFFICES ASSUME l < k PROVE FALSE
      OBVIOUS
    <3>2. named[l] < named[k]
      BY <1>3, <1>5, <1>8, <3>1, NeighboursAscend
    <3>3. QED
      BY <1>8, <1>9, <3>2
  <2>3. QED
    BY <1>3, <2>1, <2>2
<1>10. named \in Injection(1 .. n, O)
  BY <1>7, <1>9 DEF Injection, IsInjective
<1>11. Cardinality(1 .. n) = n
  BY <1>3, FS_Interval
<1>12. named \in Surjection(1 .. n, O)
  BY <1>2, <1>4, <1>10, <1>11, FS_Injection
<1>13. r \in O
  BY DEF O
<1>14. PICK k \in 1 .. n : named[k] = r
  BY <1>12, <1>13 DEF Surjection
<1>15. A[k] \in Range(A) /\ A[k].relation = r /\ A[k].datasets = Owners(cat.datasets, r)
  BY <1>4, <1>6, <1>14
<1>16. QED
  BY <1>15 DEF A

(* A valid catalogue names each dataset once, and every relation that two  *)
(* of them include is allowed for both.                                    *)
LEMMA CatalogueSound ==
    ASSUME NEW cat, CatalogueParsed(cat), CatalogueValid(cat),
           NEW k \in DOMAIN cat.datasets, NEW l \in DOMAIN cat.datasets, k # l
    PROVE  /\ cat.datasets[k].dataset.id # cat.datasets[l].dataset.id
           /\ \A r \in Range(cat.datasets[k].dataset.relations)
                         \cap Range(cat.datasets[l].dataset.relations) :
                 \E a \in Range(cat.allowances) :
                    /\ a.relation = r
                    /\ {cat.datasets[k].dataset.id, cat.datasets[l].dataset.id}
                          \subseteq Range(a.datasets)
<1> DEFINE D == cat.datasets
           n == Len(D)
           id == [j \in 1 .. n |-> D[j].dataset.id]
<1>1. n \in Nat /\ DOMAIN D = 1 .. n /\ Listed(D)
  BY DEF CatalogueParsed, Listed
<1>2. \A j \in 1 .. n : id[j] \in Int /\ id[j] = D[j].dataset.id
  BY <1>1 DEF CatalogueParsed, DatasetParsed
<1>3. \A j \in 1 .. n : EntryBinds(cat, j)
  BY <1>1 DEF CatalogueValid
<1>4. \A j \in 1 .. n - 1 : id[j] < id[j + 1]
  <2>1. SUFFICES ASSUME NEW j \in 1 .. n - 1 PROVE id[j] < id[j + 1]
    OBVIOUS
  <2>2. j + 1 \in 1 .. n /\ j \in 1 .. n /\ j + 1 > 1 /\ j + 1 - 1 = j
    BY <1>1
  <2>3. D[j + 1 - 1].dataset.id < D[j + 1].dataset.id
    BY <1>3, <2>2 DEF EntryBinds
  <2>4. QED
    BY <1>2, <2>2, <2>3
<1>5. k \in 1 .. n /\ l \in 1 .. n
  BY <1>1
<1> HIDE DEF D, n, id
<1>6. id[k] # id[l]
  <2>1. CASE k < l
    <3>1. id[k] < id[l]
      BY <1>1, <1>2, <1>4, <1>5, <2>1, NeighboursAscend
    <3>2. QED
      BY <1>2, <1>5, <3>1
  <2>2. CASE l < k
    <3>1. id[l] < id[k]
      BY <1>1, <1>2, <1>4, <1>5, <2>2, NeighboursAscend
    <3>2. QED
      BY <1>2, <1>5, <3>1
  <2>3. QED
    BY <1>1, <1>5, <2>1, <2>2
<1>7. ASSUME NEW r \in Range(D[k].dataset.relations) \cap Range(D[l].dataset.relations)
      PROVE  \E a \in Range(cat.allowances) :
                a.relation = r /\ {D[k].dataset.id, D[l].dataset.id} \subseteq Range(a.datasets)
  <2>1. k \in Having(D, r) /\ l \in Having(D, r)
    BY <1>1, <1>5 DEF Having
  <2>2. /\ IsFiniteSet(Having(D, r))
        /\ Len(Owners(D, r)) = Cardinality(Having(D, r))
        /\ {D[k].dataset.id, D[l].dataset.id} \subseteq Range(Owners(D, r))
    BY <1>1, <2>1, OwnersHave
  <2>3. Cardinality(Having(D, r)) > 1
    <3>1. {k, l} \in SUBSET Having(D, r)
      BY <2>1
    <3>2. Cardinality({k, l}) = 2
      <4>1. IsFiniteSet({k}) /\ Cardinality({k}) = 1 /\ l \notin {k}
        BY FS_Singleton
      <4>2. {k, l} = {k} \cup {l}
        OBVIOUS
      <4>3. Cardinality({k} \cup {l}) = 1 + 1
        BY <4>1, FS_AddElement
      <4>4. QED
        BY <4>2, <4>3
    <3>3. 2 <= Cardinality(Having(D, r)) /\ Cardinality(Having(D, r)) \in Nat
      BY <2>2, <3>1, <3>2, FS_Subset, FS_CardinalityType
    <3>4. QED
      BY <3>3
  <2>4. r \in Overlaps(D)
    <3>1. r \in Relations(D)
      BY <1>1, <1>5 DEF Relations
    <3>2. QED
      BY <2>2, <2>3, <3>1 DEF Overlaps
  <2>5. PICK a \in Range(cat.allowances) : a.relation = r /\ a.datasets = Owners(D, r)
    BY <2>4, OverlapAllowed DEF D
  <2>6. QED
    BY <2>2, <2>5
<1>8. QED
  BY <1>2, <1>5, <1>6, <1>7 DEF D

-----------------------------------------------------------------------------
(* Admission.                                                              *)

(* Indexes that bind to the entries of a valid catalogue close its chain.  *)
LEMMA BoundIndexesChain ==
    ASSUME NEW cat, CatalogueParsed(cat), CatalogueValid(cat),
           NEW indexes, indexes = [k \in DOMAIN cat.datasets |-> indexes[k]],
           \A k \in DOMAIN cat.datasets :
              ValidateRuntimeIndexEntry(cat.datasets[k], indexes[k]),
           OneProfile(indexes)
    PROVE  Chained(AdmittedAs(cat, indexes))
<1> DEFINE D == cat.datasets
           admitted == AdmittedAs(cat, indexes)
<1>1. Len(D) \in Nat /\ DOMAIN D = 1 .. Len(D) /\ DOMAIN indexes = DOMAIN D
  BY DEF CatalogueParsed
<1>2. admitted.catalogue = cat /\ admitted.indexes = indexes
  BY DEF AdmittedAs
<1>3. Len(indexes) = Len(D)
  BY <1>1
<1>4. \A k \in DOMAIN D :
        /\ indexes[k].id = D[k].ids["index"]
        /\ indexes[k].provenance =
              [dataset |-> D[k].dataset.sha, prepared |-> D[k].ids["prepared"],
               plan |-> D[k].ids["plan"], results |-> D[k].ids["results"]]
        /\ indexes[k].test_only = (cat.mode = "test_only")
        /\ indexes[k].profile = indexes[1].profile
  <2>1. SUFFICES ASSUME NEW k \in DOMAIN D
                 PROVE  /\ indexes[k].id = D[k].ids["index"]
                        /\ indexes[k].provenance =
                              [dataset |-> D[k].dataset.sha, prepared |-> D[k].ids["prepared"],
                               plan |-> D[k].ids["plan"], results |-> D[k].ids["results"]]
                        /\ indexes[k].test_only = (cat.mode = "test_only")
                        /\ indexes[k].profile = indexes[1].profile
    OBVIOUS
  <2>2. EntryBinds(cat, k)
    BY DEF CatalogueValid
  <2>3. D[k].sha = D[k].dataset.sha /\ D[k].test_only = (cat.mode = "test_only")
    BY <2>2 DEF EntryBinds
  <2>4. IndexBinds(D[k], indexes[k],
          ExpectedProvenance(D[k], D[k].ids["prepared"], D[k].ids["plan"], D[k].ids["results"]))
    BY DEF ValidateRuntimeIndexEntry
  <2>5. /\ indexes[k].id = D[k].ids["index"]
        /\ indexes[k].provenance =
              ExpectedProvenance(D[k], D[k].ids["prepared"], D[k].ids["plan"], D[k].ids["results"])
        /\ indexes[k].test_only = D[k].test_only
    BY <2>4 DEF IndexBinds
  <2>6. indexes[k].profile = indexes[1].profile
    BY <1>1 DEF OneProfile
  <2>7. QED
    BY <2>3, <2>5, <2>6 DEF ExpectedProvenance
<1>5. \A k, l \in DOMAIN D : k # l =>
        /\ D[k].dataset.id # D[l].dataset.id
        /\ \A r \in Range(D[k].dataset.relations) \cap Range(D[l].dataset.relations) :
              \E a \in Range(cat.allowances) :
                 a.relation = r /\ {D[k].dataset.id, D[l].dataset.id} \subseteq Range(a.datasets)
  BY CatalogueSound
<1>6. Chained(admitted)
  <2> DEFINE E == admitted.catalogue.datasets
             Allowed(k, l, r) ==
                \E a \in Range(admitted.catalogue.allowances) :
                   /\ a.relation = r
                   /\ {E[k].dataset.id, E[l].dataset.id} \subseteq Range(a.datasets)
  <2>1. E = D /\ admitted.catalogue.allowances = cat.allowances
    BY <1>2
  <2> HIDE DEF admitted, D
  <2>2. Len(admitted.indexes) = Len(E)
    BY <1>2, <1>3, <2>1
  <2>3. \A k \in DOMAIN E :
          /\ admitted.indexes[k].id = E[k].ids["index"]
          /\ admitted.indexes[k].provenance =
                [dataset |-> E[k].dataset.sha, prepared |-> E[k].ids["prepared"],
                 plan |-> E[k].ids["plan"], results |-> E[k].ids["results"]]
          /\ admitted.indexes[k].test_only = (admitted.catalogue.mode = "test_only")
          /\ admitted.indexes[k].profile = admitted.indexes[1].profile
    BY <1>2, <1>4, <2>1
  <2>4. \A k, l \in DOMAIN E : k # l => E[k].dataset.id # E[l].dataset.id
    BY <1>5, <2>1
  <2>5. ASSUME NEW k \in DOMAIN E, NEW l \in DOMAIN E, k # l,
               NEW r \in Range(E[k].dataset.relations) \cap Range(E[l].dataset.relations)
        PROVE  Allowed(k, l, r)
    BY <1>5, <2>1, <2>5
  <2>6. QED
    BY <2>2, <2>3, <2>4, <2>5 DEF Chained
<1>7. QED
  BY <1>6

(* What is admitted for a query is a chain.                                *)
LEMMA AdmittedForQuery ==
    ASSUME NEW cat, CatalogueParsed(cat), NEW d, AdmitCatalogueForQuery(cat, d).ok
    PROVE  Chained(AdmitCatalogueForQuery(cat, d).value)
<1> DEFINE indexes == [k \in DOMAIN cat.datasets |-> d[cat.datasets[k].paths["index"]]]
           Good == /\ CatalogueValid(cat)
                   /\ \A k \in DOMAIN indexes :
                         /\ OpenIndex(indexes[k], cat.mode = "test_only")
                         /\ ValidateRuntimeIndexEntry(cat.datasets[k], indexes[k])
                   /\ OneProfile(indexes)
<1>1. AdmitCatalogueForQuery(cat, d) =
        IF Good THEN Ok(AdmittedAs(cat, indexes)) ELSE Err("admission")
  BY DEF AdmitCatalogueForQuery
<1>2. indexes = [k \in DOMAIN cat.datasets |-> indexes[k]] /\ DOMAIN indexes = DOMAIN cat.datasets
  OBVIOUS
<1> HIDE DEF indexes
<1>3. Good /\ AdmitCatalogueForQuery(cat, d).value = AdmittedAs(cat, indexes)
  <2> HIDE DEF Good
  <2>1. QED
    BY <1>1 DEF Ok, Err
<1>4. QED
  BY <1>2, <1>3, BoundIndexesChain

(* A dataset that loads was read from its paths.                           *)
LEMMA DatasetLoaded ==
    ASSUME NEW d, NEW paths, NEW allowed, LoadDataset(d, paths, allowed).ok
    PROVE  /\ LoadDataset(d, paths, allowed).value =
                 [at |-> [r \in Roles |-> d[paths[r]]], paths |-> paths]
           /\ d[paths["prepared"]].kind = "prepared"
<1> DEFINE at == [r \in Roles |-> d[paths[r]]]
           Readable == /\ at["prepared"].kind = "prepared"
                       /\ at["plan"].kind = "plan" /\ at["plan"].version = 2
                       /\ OpenIndex(at["index"], allowed)
                       /\ LoadResults(at["results"], at["plan"], at["index"].profile)
<1>1. LoadDataset(d, paths, allowed) =
        IF Readable THEN Ok([at |-> at, paths |-> paths]) ELSE Err("load")
  BY DEF LoadDataset
<1>2. at["prepared"] = d[paths["prepared"]]
  BY DEF Roles
<1>3. Readable => at["prepared"].kind = "prepared"
  OBVIOUS
<1> HIDE DEF Readable
<1>4. Readable
  BY <1>1 DEF Ok, Err
<1>5. QED
  BY <1>1, <1>2, <1>3, <1>4 DEF Ok

(* What is admitted in full is a chain whose parts are on disk.            *)
LEMMA AdmittedInFull ==
    ASSUME NEW cat, CatalogueParsed(cat), NEW d, AdmitCatalogue(cat, d).ok
    PROVE  /\ Chained(AdmitCatalogue(cat, d).value)
           /\ LET admitted == AdmitCatalogue(cat, d).value
              IN  /\ DOMAIN admitted.indexes = DOMAIN admitted.catalogue.datasets
                  /\ \A k \in DOMAIN admitted.indexes : \A r \in Roles :
                        LET entry == admitted.catalogue.datasets[k]
                        IN  d[entry.paths[r]].id = entry.ids[r]
<1> DEFINE D == cat.datasets
           load == [k \in DOMAIN D |-> LoadDataset(d, D[k].paths, cat.mode = "test_only")]
           indexes == [k \in DOMAIN D |-> load[k].value.at["index"]]
           Good == /\ CatalogueValid(cat)
                   /\ \A k \in DOMAIN D : load[k].ok /\ ValidateLoadedEntry(D[k], load[k].value.at)
                   /\ OneProfile(indexes)
<1>1. AdmitCatalogue(cat, d) = IF Good THEN Ok(AdmittedAs(cat, indexes)) ELSE Err("admission")
  BY DEF AdmitCatalogue
<1>2. indexes = [k \in DOMAIN D |-> indexes[k]] /\ DOMAIN indexes = DOMAIN D
  OBVIOUS
<1>3. \A k \in DOMAIN D : indexes[k] = load[k].value.at["index"]
  OBVIOUS
<1>4. \A k \in DOMAIN D : load[k] = LoadDataset(d, D[k].paths, cat.mode = "test_only")
  OBVIOUS
<1> HIDE DEF indexes, load
<1>5. Good /\ AdmitCatalogue(cat, d).value = AdmittedAs(cat, indexes)
  <2> HIDE DEF Good
  <2>1. QED
    BY <1>1 DEF Ok, Err
<1>6. ASSUME NEW k \in DOMAIN D
      PROVE  load[k].value.at = [r \in Roles |-> d[D[k].paths[r]]]
  <2>1. load[k].ok /\ load[k] = LoadDataset(d, D[k].paths, cat.mode = "test_only")
    BY <1>4, <1>5
  <2>2. load[k].value = [at |-> [r \in Roles |-> d[D[k].paths[r]]], paths |-> D[k].paths]
    BY <2>1, DatasetLoaded
  <2>3. QED
    BY <2>2
<1>7. ASSUME NEW k \in DOMAIN D
      PROVE  /\ ValidateRuntimeIndexEntry(D[k], indexes[k])
             /\ \A r \in Roles : d[D[k].paths[r]].id = D[k].ids[r]
  <2> DEFINE at == load[k].value.at
  <2>1. /\ indexes[k] = at["index"]
        /\ \A r \in Roles : at[r] = d[D[k].paths[r]]
    <3>1. indexes[k] = at["index"]
      BY <1>3
    <3>2. at = [r \in Roles |-> d[D[k].paths[r]]]
      BY <1>6
    <3>3. QED
      BY <3>1, <3>2
  <2>2. ValidateLoadedEntry(D[k], at)
    BY <1>5
  <2> HIDE DEF at
  <2>3. /\ PipelineBinds(D[k], at["prepared"], at["plan"], at["results"])
        /\ IndexBinds(D[k], at["index"],
             ExpectedProvenance(D[k], at["prepared"].id, at["plan"].id, at["results"].id))
    BY <2>2 DEF ValidateLoadedEntry, ValidateFinalIndexBinding
  <2>4. /\ D[k].ids["prepared"] = at["prepared"].id /\ D[k].ids["plan"] = at["plan"].id
        /\ D[k].ids["results"] = at["results"].id
    BY <2>3 DEF PipelineBinds
  <2>5. D[k].ids["index"] = at["index"].id
    BY <2>3 DEF IndexBinds
  <2>6. ValidateRuntimeIndexEntry(D[k], indexes[k])
    BY <2>1, <2>3, <2>4 DEF ValidateRuntimeIndexEntry
  <2>7. QED
    BY <2>1, <2>4, <2>5, <2>6 DEF Roles
<1>8. Chained(AdmittedAs(cat, indexes))
  BY <1>2, <1>5, <1>7, BoundIndexesChain
<1>9. AdmittedAs(cat, indexes).catalogue = cat /\ AdmittedAs(cat, indexes).indexes = indexes
  BY DEF AdmittedAs
<1> DEFINE admitted == AdmitCatalogue(cat, d).value
<1>10. /\ Chained(admitted)
       /\ admitted.catalogue.datasets = D /\ DOMAIN admitted.indexes = DOMAIN D
  BY <1>2, <1>5, <1>8, <1>9
<1> HIDE DEF admitted, D
<1>11. \A k \in DOMAIN admitted.indexes : \A r \in Roles :
         d[admitted.catalogue.datasets[k].paths[r]].id = admitted.catalogue.datasets[k].ids[r]
  BY <1>7, <1>10
<1>12. QED
  BY <1>10, <1>11 DEF admitted

(* Allowances are as many as the relations they were requested for.        *)
LEMMA AllowancesListed ==
    ASSUME NEW datasets, Listed(datasets),
           \A k \in DOMAIN datasets : DatasetParsed(datasets[k].dataset),
           NEW requested, OverlapAllowances(datasets, requested).ok
    PROVE  Listed(OverlapAllowances(datasets, requested).value)
<1> DEFINE R == Range(requested)
           Good == NoRepeats(requested) /\ R \subseteq Overlaps(datasets)
           list == MapSeq(LAMBDA r : [relation |-> r,
                                      datasets |-> Ascending(Range(Owners(datasets, r)))],
                          Ascending(R))
<1>1. OverlapAllowances(datasets, requested) = IF Good THEN Ok(list) ELSE Err("allowance")
  BY DEF OverlapAllowances
<1>2. DOMAIN list = 1 .. Len(Ascending(R))
  BY DEF MapSeq
<1>3. Good => R \subseteq Overlaps(datasets)
  OBVIOUS
<1> HIDE DEF Good, list, R
<1>4. Good /\ OverlapAllowances(datasets, requested).value = list
  BY <1>1 DEF Ok, Err
<1>5. R \subseteq Int /\ IsFiniteSet(R)
  BY <1>3, <1>4, OverlapsNumbers, FS_Subset
<1>6. Len(Ascending(R)) \in Nat
  BY <1>5, AscendingLists
<1>7. QED
  <2>1. Len(list) = Len(Ascending(R))
    BY <1>2, <1>6
  <2>2. QED
    BY <1>2, <1>4, <1>6, <2>1 DEF Listed

(* A catalogue that is built is one that can be parsed back.               *)
LEMMA BuiltParsed ==
    ASSUME NEW d, NEW options, Len(options.datasets) \in Nat,
           \A k \in 1 .. Len(options.datasets) :
              ArtifactParsed(d[options.datasets[k]["prepared"]]),
           BuildCatalogue(options, d).ok
    PROVE  CatalogueParsed(BuildCatalogue(options, d).value)
<1> DEFINE load == MapSeq(LAMBDA paths : LoadDataset(d, paths, options.test_only),
                          options.datasets)
           Id(k) == load[k].value.at["prepared"].dataset.id
           Earlier(k, l) == Id(k) < Id(l) \/ (Id(k) = Id(l) /\ k < l)
           order == Ordered(DOMAIN load, Earlier)
           loaded == MapSeq(LAMBDA k : load[k].value, order)
           entries == MapSeq(LAMBDA one : CatalogueEntry(one, options.test_only), loaded)
           allowances == OverlapAllowances(entries, options.overlaps)
           cat == [mode |-> IF options.test_only THEN "test_only" ELSE "normal",
                   snapshot |-> entries[1].dataset.snapshot,
                   mapping |-> entries[1].dataset.mapping,
                   policy |-> entries[1].policy, profile |-> entries[1].profile,
                   datasets |-> entries, allowances |-> allowances.value]
           Loads == \A k \in DOMAIN load : load[k].ok
           Rest == /\ OneProfile(MapSeq(LAMBDA one : one.at["index"], loaded))
                   /\ \A k \in DOMAIN entries : ValidateLoadedEntry(entries[k], loaded[k].at)
                   /\ CatalogueValid(cat)
           n == Len(options.datasets)
<1>1. BuildCatalogue(options, d) =
        IF options.datasets # <<>> /\ Loads /\ Rest /\ allowances.ok
        THEN Ok(cat) ELSE Err("build")
  BY DEF BuildCatalogue, ByDataset
<1>2. /\ DOMAIN load = 1 .. n
      /\ \A k \in 1 .. n : load[k] = LoadDataset(d, options.datasets[k], options.test_only)
  BY DEF MapSeq
<1>3. order = [k \in 1 .. Cardinality(DOMAIN load) |->
                 CHOOSE x \in DOMAIN load :
                    Cardinality({y \in DOMAIN load : Earlier(y, x)}) = k - 1]
  BY DEF Ordered
<1>4. /\ DOMAIN loaded = 1 .. Len(order)
      /\ \A k \in 1 .. Len(order) : loaded[k] = load[order[k]].value
  BY DEF MapSeq
<1>5. /\ DOMAIN entries = 1 .. Len(loaded)
      /\ \A k \in 1 .. Len(loaded) : entries[k].dataset = loaded[k].at["prepared"].dataset
  BY DEF MapSeq, CatalogueEntry
<1>6. cat.datasets = entries /\ cat.allowances = allowances.value
  OBVIOUS
<1> DEFINE id == [k \in 1 .. n |-> Id(k)]
<1>7. \A k \in 1 .. n : id[k] = load[k].value.at["prepared"].dataset.id
  OBVIOUS
<1> DEFINE R == {p \in (1 .. n) \X (1 .. n) :
                    id[p[1]] < id[p[2]] \/ (id[p[1]] = id[p[2]] /\ p[1] < p[2])}
<1>8. \A x \in 1 .. n : {y \in 1 .. n : Earlier(y, x)} = Preceding(R, 1 .. n, x)
  <2>1. \A x, y \in 1 .. n : << y, x >> \in R <=> Earlier(y, x)
    OBVIOUS
  <2> HIDE DEF Earlier, R
  <2>2. QED
    BY <2>1 DEF Preceding
<1>9. \A x, y \in 1 .. n :
         << x, y >> \in R <=> id[x] < id[y] \/ (id[x] = id[y] /\ x < y)
  OBVIOUS
<1>10. Cardinality(1 .. n) = n /\ IsFiniteSet(1 .. n) /\ n \in Nat
  BY FS_Interval
<1>11. \A k \in 1 .. n :
         (\E x \in 1 .. n : Cardinality(Preceding(R, 1 .. n, x)) = k - 1) => order[k] \in 1 .. n
  <2>1. SUFFICES ASSUME NEW k \in 1 .. n,
                        NEW x \in 1 .. n, Cardinality(Preceding(R, 1 .. n, x)) = k - 1
                 PROVE  order[k] \in 1 .. n
    OBVIOUS
  <2>2. order[k] = CHOOSE y \in 1 .. n : Cardinality({z \in 1 .. n : Earlier(z, y)}) = k - 1
    BY <1>2, <1>3, <1>10
  <2>3. Cardinality({z \in 1 .. n : Earlier(z, x)}) = k - 1
    BY <1>8, <2>1
  <2> HIDE DEF Earlier, order
  <2>4. QED
    BY <2>2, <2>3
<1> HIDE DEF load, Id, Earlier, order, loaded, entries, allowances, cat, Loads, Rest, n, id, R
<1>12. Loads /\ allowances.ok /\ BuildCatalogue(options, d).value = cat
  BY <1>1 DEF Ok, Err
<1>13. \A k \in 1 .. n : DatasetParsed(load[k].value.at["prepared"].dataset)
  <2>1. SUFFICES ASSUME NEW k \in 1 .. n
                 PROVE  DatasetParsed(load[k].value.at["prepared"].dataset)
    OBVIOUS
  <2> DEFINE paths == options.datasets[k]
  <2>2. load[k] = LoadDataset(d, paths, options.test_only) /\ load[k].ok
    BY <1>2, <1>12 DEF Loads
  <2>3. /\ load[k].value = [at |-> [r \in Roles |-> d[paths[r]]], paths |-> paths]
        /\ d[paths["prepared"]].kind = "prepared"
    BY <2>2, DatasetLoaded
  <2>4. load[k].value.at["prepared"] = d[paths["prepared"]]
    BY <2>3 DEF Roles
  <2>5. ArtifactParsed(d[paths["prepared"]])
    BY DEF n
  <2>6. QED
    BY <2>3, <2>4, <2>5 DEF ArtifactParsed
<1>14. \A k \in 1 .. n : id[k] \in Int
  BY <1>7, <1>13 DEF DatasetParsed
<1>15. Orders(R, 1 .. n)
  <2>1. \A x \in 1 .. n : << x, x >> \notin R
    BY <1>9, <1>10, <1>14
  <2>2. \A x, y, z \in 1 .. n : << x, y >> \in R /\ << y, z >> \in R => << x, z >> \in R
    BY <1>9, <1>10, <1>14
  <2>3. ASSUME NEW x \in 1 .. n, NEW y \in 1 .. n
        PROVE  x = y \/ << x, y >> \in R \/ << y, x >> \in R
    <3>1. id[x] \in Int /\ id[y] \in Int /\ x \in Int /\ y \in Int
      BY <1>14
    <3>2. id[x] < id[y] \/ id[y] < id[x] \/ (id[x] = id[y] /\ (x < y \/ y < x \/ x = y))
      BY <3>1
    <3>3. QED
      BY <1>9, <3>2
  <2>4. QED
    BY <2>1, <2>2, <2>3 DEF Orders
<1>16. \A k \in 1 .. n : order[k] \in 1 .. n
  BY <1>10, <1>11, <1>15, Ranked
<1>17. Len(order) = n
  BY <1>2, <1>3, <1>10 DEF order, Ordered
<1>18. Len(loaded) = n
  BY <1>4, <1>10, <1>17
<1>19. /\ DOMAIN entries = 1 .. n /\ Len(entries) = n
       /\ \A k \in 1 .. n : DatasetParsed(entries[k].dataset)
  <2>1. DOMAIN entries = 1 .. n
    BY <1>5, <1>18
  <2>2. \A k \in 1 .. n : entries[k].dataset = load[order[k]].value.at["prepared"].dataset
    BY <1>4, <1>5, <1>17, <1>18
  <2>3. QED
    BY <1>10, <1>13, <1>16, <2>1, <2>2
<1>20. Listed(allowances.value)
  BY <1>10, <1>12, <1>19, AllowancesListed DEF allowances, Listed
<1>21. QED
  BY <1>6, <1>10, <1>12, <1>19, <1>20 DEF CatalogueParsed, Listed

-----------------------------------------------------------------------------
(* Every command.                                                          *)

(* Nothing has been read or printed at the start.                          *)
LEMMA InitInv ==
    ASSUME Init
    PROVE  IndInv
<1>1. /\ disk = Original /\ menu \in DOMAIN Menus
      /\ catalogue = Nothing /\ job = Nothing /\ run = Nothing /\ reply = Nothing
  BY DEF Init
<1>2. Parsed
  BY <1>1, QueryRunAssumption DEF Parsed
<1>3. Holding /\ AdmittedChain
  BY <1>1 DEF Holding, AdmittedChain, Nothing
<1>4. QED
  BY <1>2, <1>3 DEF IndInv

(* What a catalogue that is built is made of.                              *)
LEMMA BuildStep ==
    ASSUME IndInv, NEW options \in Menus[menu].builds, Build(options)
    PROVE  IndInv'
<1>1. /\ BuildCatalogue(options, disk).ok
      /\ catalogue' = BuildCatalogue(options, disk).value
      /\ job' = [kind |-> "built"]
      /\ menu' = menu /\ disk' = disk /\ run' = run /\ reply' = reply /\ Idle
  BY DEF Build
<1>2. CatalogueParsed(catalogue')
  <2>1. /\ Len(options.datasets) \in Nat
        /\ \A k \in 1 .. Len(options.datasets), r \in Roles :
              options.datasets[k][r] \in DOMAIN Original
    BY QueryRunAssumption DEF IndInv, Parsed
  <2>2. \A k \in 1 .. Len(options.datasets) :
           ArtifactParsed(disk[options.datasets[k]["prepared"]])
    BY <2>1 DEF IndInv, Parsed, Roles
  <2>3. QED
    BY <1>1, <2>1, <2>2, BuiltParsed
<1>3. Parsed'
  BY <1>1, <1>2 DEF IndInv, Parsed
<1>4. Holding'
  BY <1>1 DEF Holding
<1>5. AdmittedChain'
  BY <1>1 DEF IndInv, AdmittedChain, Idle, Nothing
<1>6. QED
  BY <1>3, <1>4, <1>5 DEF IndInv

\* What AdmittedChain asks of an answer.
Shown(answer) ==
    /\ answer.kind \in {"search", "similar"} =>
          /\ Chained(answer.indexes)
          /\ answer.indexes.catalogue.mode = "test_only" => answer.question.allow
    /\ answer.kind = "admitted" =>
          /\ Chained(answer.admitted)
          /\ \A k \in DOMAIN answer.admitted.indexes : \A r \in Roles :
                LET entry == answer.admitted.catalogue.datasets[k]
                IN  disk[entry.paths[r]].id = entry.ids[r]

(* A command that prints and is done: only its answer matters.             *)
LEMMA PrintStep ==
    ASSUME IndInv, UNCHANGED << menu, disk, catalogue, run >>,
           job' = job \/ job' = Nothing, Shown(reply')
    PROVE  IndInv'
<1>1. Parsed'
  BY DEF IndInv, Parsed
<1>2. Holding'
  BY DEF IndInv, Holding, Nothing
<1>3. AdmittedChain'
  BY DEF IndInv, AdmittedChain, Shown
<1>4. QED
  BY <1>1, <1>2, <1>3 DEF IndInv

(* A step of a batch: it keeps the admission it holds.                     *)
LEMMA BatchStep ==
    ASSUME IndInv, UNCHANGED << menu, disk, catalogue, reply >>, job # Nothing, Holding',
           run' = run \/ Chained(run'.admitted)
    PROVE  IndInv'
<1>1. Parsed'
  BY DEF IndInv, Parsed
<1>2. AdmittedChain'
  BY DEF IndInv, AdmittedChain
<1>3. QED
  BY <1>1, <1>2 DEF IndInv

(* The answer on the screen is one that AdmittedChain allows.              *)
LEMMA Kept ==
    ASSUME IndInv, reply' = reply
    PROVE  Shown(reply')
BY DEF IndInv, AdmittedChain, Shown

(* The admission of a catalogue in full prints a chain that is on disk.    *)
LEMMA AdmissionShown ==
    ASSUME IndInv, catalogue # Nothing \/ job # Nothing, AdmitCatalogue(catalogue, disk).ok
    PROVE  Shown([kind |-> "admitted", admitted |-> AdmitCatalogue(catalogue, disk).value])
<1> DEFINE admitted == AdmitCatalogue(catalogue, disk).value
<1>1. CatalogueParsed(catalogue)
  BY DEF IndInv, Parsed
<1>2. /\ Chained(admitted)
      /\ \A k \in DOMAIN admitted.indexes : \A r \in Roles :
            LET entry == admitted.catalogue.datasets[k]
            IN  disk[entry.paths[r]].id = entry.ids[r]
  BY <1>1, AdmittedInFull
<1> HIDE DEF admitted
<1>3. Shown([kind |-> "admitted", admitted |-> admitted])
  BY <1>2 DEF Shown
<1>4. QED
  BY <1>3 DEF admitted

(* Commands that admit in full.                                            *)
LEMMA FullAdmissionStep ==
    ASSUME IndInv, AdmitBuilt \/ ValidateCatalogue
    PROVE  IndInv'
<1>1. CASE AdmitBuilt
  <2>1. /\ job.kind = "built" /\ job' = Nothing
        /\ UNCHANGED << menu, disk, catalogue, run >>
        /\ reply' = IF AdmitCatalogue(catalogue, disk).ok
                    THEN [kind |-> "admitted", admitted |-> AdmitCatalogue(catalogue, disk).value]
                    ELSE Nothing
    BY <1>1 DEF AdmitBuilt
  <2>2. job # Nothing
    BY <2>1 DEF Nothing
  <2>3. Shown(reply')
    <3>1. CASE AdmitCatalogue(catalogue, disk).ok
      BY <2>1, <2>2, <3>1, AdmissionShown
    <3>2. CASE ~ AdmitCatalogue(catalogue, disk).ok
      BY <2>1, <3>2 DEF Nothing, Shown
    <3>3. QED
      BY <3>1, <3>2
  <2>4. QED
    BY <2>1, <2>3, PrintStep
<1>2. CASE ValidateCatalogue
  <2>1. /\ catalogue # Nothing /\ AdmitCatalogue(catalogue, disk).ok
        /\ UNCHANGED << menu, disk, catalogue, job, run >>
        /\ reply' = [kind |-> "admitted", admitted |-> AdmitCatalogue(catalogue, disk).value]
    BY <1>2 DEF ValidateCatalogue
  <2>2. Shown(reply')
    BY <2>1, AdmissionShown
  <2>3. QED
    BY <2>1, <2>2, PrintStep
<1>3. QED
  BY <1>1, <1>2

(* Hits found in what was admitted, with permission, show a chain.         *)
LEMMA HitsShown ==
    ASSUME IndInv, NEW kind \in {"search", "similar"}, NEW question, NEW vector, NEW hits,
           catalogue # Nothing, AdmitCatalogueForQuery(catalogue, disk).ok,
           Permitted(AdmitCatalogueForQuery(catalogue, disk).value, question.allow)
    PROVE  Shown(Hits(kind, question, AdmitCatalogueForQuery(catalogue, disk).value, vector, hits))
<1> DEFINE admitted == AdmitCatalogueForQuery(catalogue, disk).value
           answer == Hits(kind, question, admitted, vector, hits)
<1>1. CatalogueParsed(catalogue)
  BY DEF IndInv, Parsed
<1>2. Chained(admitted)
  BY <1>1, AdmittedForQuery
<1>3. admitted.catalogue.mode = "test_only" => question.allow
  BY DEF Permitted
<1>4. answer.kind = kind /\ answer.indexes = admitted /\ answer.question = question
  BY DEF Hits
<1> HIDE DEF admitted, answer
<1>5. Shown(answer)
  BY <1>2, <1>3, <1>4 DEF Shown
<1>6. QED
  BY <1>5 DEF answer, admitted

(* Searches and similarity over a catalogue.                               *)
LEMMA SearchStep ==
    ASSUME IndInv, NEW options, SearchCatalogue(options) \/ SimilarCatalogue(options)
    PROVE  IndInv'
<1> DEFINE admission == AdmitCatalogueForQuery(catalogue, disk)
<1>1. CASE SearchCatalogue(options)
  <2>1. /\ catalogue # Nothing /\ admission.ok /\ Permitted(admission.value, options.allow)
        /\ UNCHANGED << menu, disk, catalogue, job, run >>
    BY <1>1 DEF SearchCatalogue
  <2>2. \E vector, hits : reply' = Hits("search", options, admission.value, vector, hits)
    BY <1>1 DEF SearchCatalogue
  <2>3. Shown(reply')
    BY <2>1, <2>2, HitsShown
  <2>4. QED
    BY <2>1, <2>3, PrintStep
<1>2. CASE SimilarCatalogue(options)
  <2>1. /\ catalogue # Nothing /\ admission.ok /\ Permitted(admission.value, options.allow)
        /\ UNCHANGED << menu, disk, catalogue, job, run >>
    BY <1>2 DEF SimilarCatalogue
  <2>2. \E vector, hits : reply' = Hits("similar", options, admission.value, vector, hits)
    BY <1>2 DEF SimilarCatalogue
  <2>3. Shown(reply')
    BY <2>1, <2>2, HitsShown
  <2>4. QED
    BY <2>1, <2>3, PrintStep
<1>3. QED
  BY <1>1, <1>2

(* Commands on one index print no catalogue.                               *)
LEMMA IndexStep ==
    ASSUME IndInv, NEW options,
           \/ QueryIndex(options) \/ QueryIndexBatch(options)
           \/ BenchmarkQuery(options) \/ CompareIndexOverlap(options)
    PROVE  IndInv'
<1>1. /\ UNCHANGED << menu, disk, catalogue, job, run >>
      /\ reply'.kind \in {"query", "lines", "benchmark", "overlap"}
  <2>1. CASE QueryIndex(options)
    BY <2>1 DEF QueryIndex, Hits
  <2>2. CASE QueryIndexBatch(options)
    BY <2>2 DEF QueryIndexBatch
  <2>3. CASE BenchmarkQuery(options)
    <3>1. UNCHANGED << menu, disk, catalogue, job, run >>
      BY <2>3, Zenon DEF BenchmarkQuery
    <3> DEFINE index == disk[options.path]
               request == options.request
               Fused(vector) == Search(index, [request EXCEPT !.mode = "fused"], vector)
               calls == options.warmups + options.repeats + options.ends
               Vector(answers) == [k \in 1 .. calls |-> EmbedQuery(index.profile, answers[k])]
               last(answers) == Vector(answers)[options.warmups + options.repeats].value
    <3>2. \E answers :
             reply' = [kind |-> "benchmark", options |-> options, index |-> index,
                       calls |-> calls, vector |-> last(answers),
                       observed |-> [k \in 1 .. options.repeats |-> answers[options.warmups + k]],
                       latency |-> SummarizeLatencies(
                          [k \in 1 .. options.repeats |-> answers[options.warmups + k].micros]),
                       dense |-> Search(index, [request EXCEPT !.mode = "dense"], last(answers)),
                       fused |-> Fused(last(answers)),
                       lexical |-> Search(index, [request EXCEPT !.mode = "lexical"], <<>>)]
      BY <2>3, Zenon DEF BenchmarkQuery
    <3>3. QED
      BY <3>1, <3>2
  <2>4. CASE CompareIndexOverlap(options)
    BY <2>4 DEF CompareIndexOverlap
  <2>5. QED
    BY <2>1, <2>2, <2>3, <2>4
<1>2. Shown(reply')
  BY <1>1 DEF Shown
<1>3. QED
  BY <1>1, <1>2, PrintStep

(* A batch admits for queries, and keeps what it admitted to the end.      *)
LEMMA BatchHolds ==
    ASSUME IndInv,
           \/ AdmitBatch \/ Stage \/ CopyRequests \/ AnswerLexical \/ AnswerSealed
           \/ AnswerEndpoint \/ Publish \/ Kill
    PROVE  IndInv'
<1>1. ASSUME job.kind = "batch", job.pc # "admit", UNCHANGED << menu, disk, catalogue, reply, run >>,
             "admitted" \in DOMAIN job', job'.admitted = job.admitted
      PROVE  IndInv'
  <2>1. Holding'
    <3>1. Chained(job.admitted)
      BY <1>1 DEF IndInv, Holding
    <3>2. Chained(job'.admitted)
      BY <1>1, <3>1
    <3>3. QED
      BY <1>1, <3>2 DEF Holding, Chained
  <2>2. job # Nothing
    BY <1>1 DEF Nothing
  <2>3. QED
    BY <1>1, <2>1, <2>2, BatchStep
<1>2. ASSUME job # Nothing, UNCHANGED << menu, disk, catalogue, reply >>, Fail
      PROVE  IndInv'
  <2>1. Holding'
    BY <1>2 DEF Fail, Holding, Nothing
  <2>2. QED
    BY <1>2, <2>1, BatchStep DEF Fail
<1>3. CASE AdmitBatch
  <2> DEFINE admission == AdmitCatalogueForQuery(catalogue, disk)
  <2>1. job.kind = "batch" /\ job # Nothing /\ UNCHANGED << menu, disk, catalogue, reply >>
    BY <1>3 DEF AdmitBatch, Nothing
  <2>2. \/ Fail
        \/ /\ admission.ok /\ run' = run
           /\ job' = [kind |-> "batch", pc |-> "stage", options |-> job.options,
                       plan |-> job.plan, admitted |-> admission.value,
                       set |-> IF job.options.set THEN sealed ELSE Nothing]
    BY <1>3, Zenon DEF AdmitBatch
  <2>3. CASE Fail
    BY <1>2, <2>1, <2>3
  <2>4. CASE /\ admission.ok /\ run' = run
             /\ job' = [kind |-> "batch", pc |-> "stage", options |-> job.options,
                         plan |-> job.plan, admitted |-> admission.value,
                         set |-> IF job.options.set THEN sealed ELSE Nothing]
    <3>1. CatalogueParsed(catalogue)
      BY <2>1 DEF IndInv, Parsed
    <3>2. Chained(admission.value)
      BY <2>4, <3>1, AdmittedForQuery
    <3> HIDE DEF admission
    <3>3. "admitted" \in DOMAIN job' /\ job'.admitted = admission.value
      BY <2>4
    <3>4. Chained(job'.admitted)
      BY <3>2, <3>3
    <3>5. Holding'
      BY <3>3, <3>4 DEF Holding, Chained
    <3>6. QED
      BY <2>1, <2>4, <3>5, BatchStep
  <2>5. QED
    BY <2>2, <2>3, <2>4
<1>4. CASE Stage
  <2>1. job.kind = "batch" /\ job.pc = "stage" /\ UNCHANGED << menu, disk, catalogue, reply >>
    BY <1>4 DEF Stage
  <2>2. Fail \/ (job' = [job EXCEPT !.pc = "copy"] /\ run' = run)
    BY <1>4 DEF Stage
  <2>3. "admitted" \in DOMAIN job /\ job # Nothing
    BY <2>1 DEF IndInv, Holding, Nothing
  <2>4. QED
    BY <1>1, <1>2, <2>1, <2>2, <2>3
<1>5. CASE CopyRequests
  <2>1. /\ job.kind = "batch" /\ job.pc = "copy"
        /\ UNCHANGED << menu, disk, catalogue, reply, run >>
        /\ job' = [kind |-> "batch", pc |-> "answer", options |-> job.options, plan |-> job.plan,
                    admitted |-> job.admitted, set |-> job.set, copied |-> requests,
                    cache |-> << >>, calls |-> 0, model |-> "", results |-> <<>>]
    BY <1>5 DEF CopyRequests
  <2>2. "admitted" \in DOMAIN job' /\ job'.admitted = job.admitted
    BY <2>1
  <2>3. QED
    BY <1>1, <2>1, <2>2
<1>6. CASE AnswerLexical
  <2>1. /\ job.kind = "batch" /\ job.pc = "answer"
        /\ UNCHANGED << menu, disk, catalogue, reply, run >>
        /\ job' = [job EXCEPT !.results = Answered(NextRequest, <<>>)]
    BY <1>6 DEF AnswerLexical, Answering
  <2>2. "admitted" \in DOMAIN job
    BY <2>1 DEF IndInv, Holding
  <2>3. QED
    BY <1>1, <2>1, <2>2
<1>7. CASE AnswerSealed
  <2>1. /\ job.kind = "batch" /\ job.pc = "answer"
        /\ UNCHANGED << menu, disk, catalogue, reply >>
    BY <1>7 DEF AnswerSealed, Answering
  <2>2. "admitted" \in DOMAIN job /\ job # Nothing
    BY <2>1 DEF IndInv, Holding, Nothing
  <2> DEFINE key == Composed(NextRequest)
             vector == VectorForRequest(job.set, NextRequest, key)
  <2>3. \/ Fail
        \/ /\ run' = run
           /\ job' = [job EXCEPT !.cache = (key :> vector.value) @@ @,
                                 !.model = job.set.manifest.model,
                                 !.results = Answered(NextRequest, vector.value)]
    BY <1>7, Zenon DEF AnswerSealed
  <2>4. QED
    BY <1>1, <1>2, <2>1, <2>2, <2>3
<1>8. CASE AnswerEndpoint
  <2>1. /\ job.kind = "batch" /\ job.pc = "answer"
        /\ UNCHANGED << menu, disk, catalogue, reply >>
    BY <1>8 DEF AnswerEndpoint, Answering
  <2>2. "admitted" \in DOMAIN job /\ job # Nothing
    BY <2>1 DEF IndInv, Holding, Nothing
  <2>3. \/ Fail
        \/ run' = run /\ \E r : job' = [job EXCEPT !.results = r]
        \/ /\ run' = run
           /\ \E c, n, m, r :
                 job' = [job EXCEPT !.cache = c, !.calls = n, !.model = m, !.results = r]
    BY <1>8 DEF AnswerEndpoint
  <2>4. QED
    BY <1>1, <1>2, <2>1, <2>2, <2>3
<1>9. CASE Publish
  <2>1. /\ job.kind = "batch" /\ job.pc = "answer"
        /\ UNCHANGED << menu, disk, catalogue, reply >>
    BY <1>9 DEF Publish
  <2>2. Chained(job.admitted) /\ job # Nothing
    BY <2>1 DEF IndInv, Holding, Nothing
  <2>3. Fail \/ (job' = Nothing /\ run'.admitted = job.admitted)
    BY <1>9 DEF Publish
  <2>4. CASE Fail
    BY <1>2, <2>1, <2>2, <2>4
  <2>5. CASE job' = Nothing /\ run'.admitted = job.admitted
    <3>1. Holding'
      BY <2>5 DEF Holding, Nothing
    <3>2. Chained(run'.admitted)
      BY <2>2, <2>5
    <3>3. QED
      BY <2>1, <2>2, <3>1, <3>2, BatchStep
  <2>6. QED
    BY <2>3, <2>4, <2>5
<1>10. CASE Kill
  BY <1>2, <1>10 DEF Kill
<1>11. QED
  BY <1>3, <1>4, <1>5, <1>6, <1>7, <1>8, <1>9, <1>10

(* Around the commands: nothing is replaced under an answer.               *)
LEMMA OutsideStep ==
    ASSUME IndInv,
           \/ \E execution \in Menus[menu].sets : WriteSealed(execution)
           \/ \E options \in Menus[menu].batches : ReadPlan(options)
           \/ \E path \in DOMAIN Menus[menu].variants : Replace(path)
           \/ \E file \in Menus[menu].foreign : ReceiveCatalogue(file)
           \/ \E file \in Menus[menu].files : EditRequests(file)
           \/ Read
           \/ UNCHANGED vars
    PROVE  IndInv'
<1>1. CASE \E execution \in Menus[menu].sets : WriteSealed(execution)
  BY <1>1, PrintStep, Kept DEF WriteSealed
<1>2. CASE \E options \in Menus[menu].batches : ReadPlan(options)
  <2>1. /\ UNCHANGED << menu, disk, catalogue, run, reply >> /\ catalogue # Nothing
        /\ job'.kind = "batch" /\ job'.pc = "admit"
    BY <1>2 DEF ReadPlan
  <2>2. Parsed'
    BY <2>1 DEF IndInv, Parsed
  <2>3. Holding' /\ AdmittedChain'
    BY <2>1 DEF IndInv, Holding, AdmittedChain
  <2>4. QED
    BY <2>2, <2>3 DEF IndInv
<1>3. CASE \E path \in DOMAIN Menus[menu].variants : Replace(path)
  <2>1. PICK path \in DOMAIN Menus[menu].variants : Replace(path)
    BY <1>3
  <2>2. PICK artifact \in Menus[menu].variants[path] : disk' = [disk EXCEPT ![path] = artifact]
    BY <2>1 DEF Replace
  <2>3. reply = Nothing /\ UNCHANGED << menu, catalogue, job, run, reply >>
    BY <2>1 DEF Replace
  <2>4. ArtifactParsed(artifact)
    BY <2>2, QueryRunAssumption DEF IndInv, Parsed
  <2>5. Parsed'
    BY <2>2, <2>3, <2>4 DEF IndInv, Parsed
  <2>6. Holding' /\ AdmittedChain'
    BY <2>3 DEF IndInv, Holding, AdmittedChain, Nothing
  <2>7. QED
    BY <2>5, <2>6 DEF IndInv
<1>4. CASE \E file \in Menus[menu].foreign : ReceiveCatalogue(file)
  <2>1. PICK file \in Menus[menu].foreign : ReceiveCatalogue(file)
    BY <1>4
  <2>2. catalogue' = file /\ UNCHANGED << menu, disk, job, run, reply >>
    BY <2>1 DEF ReceiveCatalogue
  <2>3. CatalogueParsed(file)
    BY QueryRunAssumption DEF IndInv, Parsed
  <2>4. Parsed'
    BY <2>2, <2>3 DEF IndInv, Parsed
  <2>5. Holding' /\ AdmittedChain'
    BY <2>2 DEF IndInv, Holding, AdmittedChain
  <2>6. QED
    BY <2>4, <2>5 DEF IndInv
<1>5. CASE \E file \in Menus[menu].files : EditRequests(file)
  BY <1>5, PrintStep, Kept DEF EditRequests
<1>6. CASE Read
  <2>1. UNCHANGED << menu, disk, catalogue, job, run >> /\ reply' = Nothing
    BY <1>6 DEF Read
  <2>2. Shown(reply')
    BY <2>1 DEF Shown, Nothing
  <2>3. QED
    BY <2>1, <2>2, PrintStep
<1>7. CASE UNCHANGED vars
  BY <1>7, PrintStep, Kept DEF vars
<1>8. QED
  BY <1>1, <1>2, <1>3, <1>4, <1>5, <1>6, <1>7

(* IndInv is inductive.                                                    *)
LEMMA InvStep ==
    ASSUME IndInv, [Next]_vars
    PROVE  IndInv'
BY BuildStep, FullAdmissionStep, SearchStep, IndexStep, BatchHolds, OutsideStep DEF Next

(* admit_catalogue and admit_catalogue_for_query: whatever is printed from *)
(* a catalogue, and every published run, was answered by a whole chain:    *)
(* each dataset once, its recorded index and parents, one profile, and an  *)
(* allowance for every shared relation.                                    *)
THEOREM ChainsAdmitted == Spec => []AdmittedChain
<1>1. IndInv /\ [Next]_vars => IndInv'
  BY InvStep
<1>2. Init => IndInv
  BY InitInv
<1>3. IndInv => AdmittedChain
  BY DEF IndInv
<1>4. QED
  BY <1>1, <1>2, <1>3, PTL DEF Spec

-----------------------------------------------------------------------------
(* Plans (TokenPlan, Pipeline).  A plan is built by two recursive          *)
(* functions: the counts of the rows, and the ranges from every start,     *)
(* which use the walk to the end of a task.  Each is first shown to be     *)
(* defined and to have its values where they belong; then the slices of a  *)
(* task are shown to select its rows, the tasks of a plan its corpus, and  *)
(* every command to leave plans of that kind only.                         *)

\* The sequences up to each of them, one after the other.
Flat(h, seqs, n) ==
    h = [i \in 1 .. n |-> IF i = 1 THEN seqs[i] ELSE h[i - 1] \o seqs[i]]

(* Sequences can be joined.                                                *)
LEMMA FlatExists ==
    ASSUME NEW T, NEW seqs, NEW n \in Nat, \A k \in 1 .. n : seqs[k] \in Seq(T)
    PROVE  \E h \in [1 .. n -> Seq(T)] : Flat(h, seqs, n)
<1> DEFINE Bad == { m \in 0 .. n : ~ \E h \in [1 .. m -> Seq(T)] : Flat(h, seqs, m) }
<1>2. SUFFICES ASSUME n \in Bad PROVE FALSE
  OBVIOUS
<1>3. Bad \subseteq Nat /\ \A m \in Bad : m \in 0 .. n
  OBVIOUS
<1>4. \A m \in 0 .. n : m \in Bad \/ \E h \in [1 .. m -> Seq(T)] : Flat(h, seqs, m)
  OBVIOUS
<1>5. \A m \in Bad : ~ \E h \in [1 .. m -> Seq(T)] : Flat(h, seqs, m)
  OBVIOUS
<1> HIDE DEF Bad
<1>6. PICK m \in Bad : \A j \in Bad : m <= j
  BY <1>2, <1>3, LeastNumber
<1>7. CASE m = 0
  <2> DEFINE h == [i \in 1 .. 0 |-> << >>]
  <2>1. h \in [1 .. m -> Seq(T)] /\ Flat(h, seqs, m)
    BY <1>7 DEF Flat
  <2>2. QED
    BY <1>5, <2>1
<1>8. CASE m # 0
  <2>1. m \in 1 .. n /\ m - 1 \in 0 .. n /\ ~ m <= m - 1
    BY <1>3, <1>8
  <2>2. PICK g \in [1 .. m - 1 -> Seq(T)] : Flat(g, seqs, m - 1)
    BY <1>4, <1>6, <2>1
  <2>3. \A i \in 1 .. m - 1 : g[i] = IF i = 1 THEN seqs[i] ELSE g[i - 1] \o seqs[i]
    BY <2>2 DEF Flat
  <2> DEFINE last == IF m = 1 THEN seqs[m] ELSE g[m - 1] \o seqs[m]
             h == [i \in 1 .. m |-> IF i = m THEN last ELSE g[i]]
  <2>4. \A i \in 1 .. m : i = m \/ i \in 1 .. m - 1
    BY <2>1
  <2>5. last \in Seq(T)
    <3>1. seqs[m] \in Seq(T)
      BY <2>1
    <3>2. CASE m # 1
      <4>1. m - 1 \in 1 .. m - 1
        BY <2>1, <3>2
      <4>2. g[m - 1] \in Seq(T)
        BY <4>1
      <4>3. QED
        BY <3>1, <3>2, <4>2
    <3>3. QED
      BY <3>1, <3>2
  <2> HIDE DEF last
  <2>6. h \in [1 .. m -> Seq(T)]
    BY <2>4, <2>5
  <2>7. ASSUME NEW i \in 1 .. m
        PROVE  h[i] = IF i = 1 THEN seqs[i] ELSE h[i - 1] \o seqs[i]
    <3>1. CASE i = m
      <4>1. m \in 1 .. m /\ (m = 1 \/ (m - 1 \in 1 .. m /\ m - 1 # m))
        BY <2>1
      <4>2. h[m] = last /\ (m = 1 \/ h[m - 1] = g[m - 1])
        BY <4>1
      <4> HIDE DEF h
      <4>3. QED
        BY <3>1, <4>2 DEF last
    <3>2. CASE i # m
      <4>1. i \in 1 .. m - 1 /\ (i = 1 \/ (i - 1 \in 1 .. m /\ i - 1 # m))
        BY <2>1, <3>2
      <4>2. h[i] = g[i] /\ (i = 1 \/ h[i - 1] = g[i - 1])
        BY <3>2, <4>1
      <4> HIDE DEF h
      <4>3. QED
        BY <2>3, <4>1, <4>2
    <3>3. QED
      BY <3>1, <3>2
  <2>8. Flat(h, seqs, m)
    <3> HIDE DEF h
    <3>1. QED
      BY <2>6, <2>7 DEF Flat
  <2>9. QED
    BY <1>5, <2>6, <2>8
<1>9. QED
  BY <1>7, <1>8

(* Two ways to join the first sequences are one, and joining is one of     *)
(* them.                                                                   *)
LEMMA FlatIs ==
    ASSUME NEW T, NEW seqs, NEW n \in Nat \ {0}, Len(seqs) = n,
           \A k \in 1 .. n : seqs[k] \in Seq(T), NEW h, Flat(h, seqs, n)
    PROVE  FlattenSeq(seqs) = h[n]
<1> DEFINE g == CHOOSE f : Flat(f, seqs, n)
<1>1. FlattenSeq(seqs) = g[n]
  BY DEF FlattenSeq, Flat
<1>2. Flat(g, seqs, n)
  OBVIOUS
<1> HIDE DEF g
<1>3. \A i \in 1 .. n : /\ g[i] = IF i = 1 THEN seqs[i] ELSE g[i - 1] \o seqs[i]
                        /\ h[i] = IF i = 1 THEN seqs[i] ELSE h[i - 1] \o seqs[i]
  BY <1>2 DEF Flat
<1> DEFINE Bad == {i \in 1 .. n : g[i] # h[i]}
<1>4. /\ Bad \subseteq Nat /\ \A i \in Bad : i \in 1 .. n /\ g[i] # h[i]
      /\ \A i \in 1 .. n : i \in Bad \/ g[i] = h[i]
  OBVIOUS
<1> HIDE DEF Bad
<1>5. Bad = {}
  <2>1. SUFFICES ASSUME Bad # {} PROVE FALSE
    OBVIOUS
  <2>2. PICK i \in Bad : \A j \in Bad : i <= j
    BY <1>4, <2>1, LeastNumber
  <2>3. i \in 1 .. n /\ g[i] # h[i]
    BY <1>4
  <2>4. i # 1
    BY <1>3, <2>3
  <2>5. i - 1 \in 1 .. n /\ ~ i <= i - 1
    BY <2>3, <2>4
  <2>6. g[i - 1] = h[i - 1]
    BY <1>4, <2>2, <2>5
  <2>7. QED
    BY <1>3, <2>3, <2>4, <2>6
<1>6. n \in 1 .. n
  OBVIOUS
<1>7. QED
  BY <1>1, <1>4, <1>5, <1>6

(* A piece of a sequence is a sequence.                                    *)
LEMMA PieceOf ==
    ASSUME NEW T, NEW s \in Seq(T), NEW a \in Nat, NEW b \in Nat, a <= b, b <= Len(s)
    PROVE  /\ SubSeq(s, a + 1, b) \in Seq(T) /\ Len(SubSeq(s, a + 1, b)) = b - a
           /\ \A i \in 1 .. b - a : SubSeq(s, a + 1, b)[i] = s[a + i]
<1>1. Len(s) \in Nat
  BY LenProperties
<1>2. \A i \in a + 1 .. b : s[i] \in T
  BY <1>1, ElementOfSeq
<1>3. a + 1 \in Int /\ b \in Int
  OBVIOUS
<1>4. /\ SubSeq(s, a + 1, b) \in Seq(T)
      /\ Len(SubSeq(s, a + 1, b)) = IF a + 1 <= b THEN b - (a + 1) + 1 ELSE 0
      /\ \A i \in 1 .. b - (a + 1) + 1 : SubSeq(s, a + 1, b)[i] = s[a + 1 + i - 1]
  BY <1>2, <1>3, SubSeqProperties
<1>5. /\ b - (a + 1) + 1 = b - a /\ (~ a + 1 <= b => b - a = 0)
      /\ \A i \in 1 .. b - a : a + 1 + i - 1 = a + i
  OBVIOUS
<1>6. QED
  BY <1>4, <1>5

\* The n sequences are the pieces of s between consecutive bounds.
Pieces(s, seqs, n, b) ==
    /\ Len(seqs) = n
    /\ \A k \in 0 .. n : b[k] \in Nat /\ b[k] <= Len(s)
    /\ \A k \in 1 .. n : b[k - 1] <= b[k] /\ seqs[k] = SubSeq(s, b[k - 1] + 1, b[k])

(* A sequence that is cut into consecutive pieces is what they join to.    *)
LEMMA PiecesFlatten ==
    ASSUME NEW T, NEW s \in Seq(T), NEW seqs, NEW n \in Nat \ {0}, NEW b, Pieces(s, seqs, n, b)
    PROVE  FlattenSeq(seqs) = SubSeq(s, b[0] + 1, b[n])
<1>0. /\ Len(seqs) = n /\ \A k \in 0 .. n : b[k] \in Nat /\ b[k] <= Len(s)
      /\ \A k \in 1 .. n : b[k - 1] <= b[k] /\ seqs[k] = SubSeq(s, b[k - 1] + 1, b[k])
  BY DEF Pieces
<1> DEFINE h == [i \in 1 .. n |-> SubSeq(s, b[0] + 1, b[i])]
           Bad == {i \in 0 .. n : ~ b[0] <= b[i]}
<1>1. \A k \in 1 .. n : seqs[k] \in Seq(T)
  <2>1. SUFFICES ASSUME NEW k \in 1 .. n PROVE seqs[k] \in Seq(T)
    OBVIOUS
  <2>2. k - 1 \in 0 .. n /\ k \in 0 .. n
    OBVIOUS
  <2> DEFINE x == b[k - 1]
             y == b[k]
  <2>3. x \in Nat /\ y \in Nat /\ x <= y /\ y <= Len(s) /\ y <= y /\ seqs[k] = SubSeq(s, x + 1, y)
    BY <1>0, <2>2
  <2> HIDE DEF x, y
  <2>4. SubSeq(s, x + 1, y) \in Seq(T)
    BY <2>3, PieceOf
  <2>5. QED
    BY <2>3, <2>4
<1>2. \A i \in 0 .. n : b[0] <= b[i]
  <2>1. /\ Bad \subseteq Nat /\ \A i \in Bad : i \in 0 .. n /\ ~ b[0] <= b[i]
        /\ \A i \in 0 .. n : i \in Bad \/ b[0] <= b[i]
    OBVIOUS
  <2> HIDE DEF Bad
  <2>2. SUFFICES ASSUME Bad # {} PROVE FALSE
    BY <2>1
  <2>3. PICK i \in Bad : \A j \in Bad : i <= j
    BY <2>1, <2>2, LeastNumber
  <2>4. i \in 0 .. n /\ ~ b[0] <= b[i] /\ 0 \in 0 .. n
    BY <2>1
  <2>5. i # 0
    BY <1>0, <2>4
  <2>6. i \in 1 .. n /\ i - 1 \in 0 .. n /\ ~ i <= i - 1
    BY <2>4, <2>5
  <2>7. b[0] <= b[i - 1] /\ b[i - 1] <= b[i]
    BY <1>0, <2>1, <2>3, <2>6
  <2>8. b[0] \in Nat /\ b[i] \in Nat /\ b[i - 1] \in Nat
    BY <1>0, <2>4, <2>6
  <2>9. QED
    BY <2>4, <2>7, <2>8
<1>3. ASSUME NEW i \in 1 .. n
      PROVE  h[i] = IF i = 1 THEN seqs[i] ELSE h[i - 1] \o seqs[i]
  <2>1. CASE i = 1
    BY <1>0, <2>1
  <2>2. CASE i # 1
    <3>1. i - 1 \in 1 .. n /\ i - 1 \in 0 .. n /\ i \in 0 .. n /\ 0 \in 0 .. n
      BY <2>2
    <3>2. /\ b[0] \in Nat /\ b[i - 1] \in Nat /\ b[i] \in Nat
          /\ b[0] <= b[i - 1] /\ b[i - 1] <= b[i] /\ b[i] <= Len(s)
      BY <1>0, <1>2, <3>1
    <3> DEFINE x == b[0]
               y == b[i - 1]
               z == b[i]
    <3>3. /\ x \in Nat /\ y \in Nat /\ z \in Nat /\ x <= y /\ y <= z /\ z <= Len(s)
          /\ h[i] = SubSeq(s, x + 1, z) /\ h[i - 1] = SubSeq(s, x + 1, y)
          /\ seqs[i] = SubSeq(s, y + 1, z)
      BY <1>0, <3>1, <3>2
    <3> HIDE DEF x, y, z, h
    <3>4. SubSeq(s, x + 1, y) \o SubSeq(s, y + 1, z) = SubSeq(s, x + 1, z)
      <4>1. Len(s) \in Nat
        BY LenProperties
      <4>2. x + 1 \in 1 .. Len(s) + 1 /\ y \in (x + 1) - 1 .. Len(s) /\ z \in y .. Len(s)
        BY <3>3, <4>1
      <4>3. QED
        BY <4>2, ConcatAdjacentSubSeq
    <3>5. QED
      BY <2>2, <3>3, <3>4
  <2>3. QED
    BY <2>1, <2>2
<1>4. h = [i \in 1 .. n |-> h[i]] /\ h[n] = SubSeq(s, b[0] + 1, b[n])
  <2>1. n \in 1 .. n
    OBVIOUS
  <2>2. QED
    BY <2>1
<1> HIDE DEF h
<1>5. Flat(h, seqs, n)
  BY <1>3, <1>4 DEF Flat
<1>6. QED
  BY <1>0, <1>1, <1>4, <1>5, FlatIs

(* What precedes a member of joined sequences ends where it begins, and    *)
(* the member is the piece that begins there.                              *)
LEMMA MemberIsPiece ==
    ASSUME NEW T, NEW objs \in Seq(Seq(T)), NEW k \in 1 .. Len(objs)
    PROVE  LET from == Len(FlattenSeq(SubSeq(objs, 1, k - 1)))
               whole == FlattenSeq(objs)
           IN  /\ whole \in Seq(T) /\ from \in Nat /\ Len(objs[k]) \in Nat
               /\ from + Len(objs[k]) <= Len(whole)
               /\ \A i \in 1 .. Len(objs[k]) : whole[from + i] = objs[k][i]
<1> DEFINE n == Len(objs)
           from == Len(FlattenSeq(SubSeq(objs, 1, k - 1)))
           whole == FlattenSeq(objs)
<1>1. n \in Nat \ {0} /\ n \in 1 .. n /\ \A i \in 1 .. n : objs[i] \in Seq(T)
  OBVIOUS
<1>2. PICK h \in [1 .. n -> Seq(T)] : Flat(h, objs, n)
  BY <1>1, FlatExists
<1>3. \A i \in 1 .. n : h[i] = IF i = 1 THEN objs[i] ELSE h[i - 1] \o objs[i]
  BY <1>2 DEF Flat
<1>4. whole = h[n] /\ whole \in Seq(T)
  BY <1>1, <1>2, FlatIs
<1> DEFINE before == IF k = 1 THEN << >> ELSE h[k - 1]
<1>5. FlattenSeq(SubSeq(objs, 1, k - 1)) = before
  <2> DEFINE m == k - 1
             part == SubSeq(objs, 1, m)
             g == [i \in 1 .. m |-> h[i]]
  <2>1. /\ m \in Nat /\ m <= n /\ part \in Seq(Seq(T)) /\ Len(part) = m
        /\ \A i \in 1 .. m : part[i] = objs[i]
    BY <1>1
  <2>2. CASE k = 1
    <3>1. Len(part) = 0 /\ part = << >>
      BY <2>1, <2>2
    <3>2. QED
      BY <2>2, <3>1 DEF FlattenSeq
  <2>3. CASE k # 1
    <3>1. m \in Nat \ {0} /\ m \in 1 .. m /\ \A i \in 1 .. m : i \in 1 .. n /\ part[i] \in Seq(T)
      BY <1>1, <2>1, <2>3
    <3>2. ASSUME NEW i \in 1 .. m
          PROVE  g[i] = IF i = 1 THEN part[i] ELSE g[i - 1] \o part[i]
      <4>1. i \in 1 .. n /\ g[i] = h[i] /\ part[i] = objs[i]
        BY <2>1, <3>1
      <4>2. i # 1 => g[i - 1] = h[i - 1]
        BY <2>1
      <4> HIDE DEF g, part
      <4>3. QED
        BY <1>3, <4>1, <4>2
    <3>3. g = [i \in 1 .. m |-> g[i]] /\ g[m] = h[m]
      BY <3>1
    <3> HIDE DEF g, part, m
    <3>4. Flat(g, part, m)
      BY <3>2, <3>3 DEF Flat
    <3>5. FlattenSeq(part) = g[m]
      BY <2>1, <3>1, <3>4, FlatIs
    <3>6. QED
      BY <2>3, <3>3, <3>5 DEF m, part
  <2>4. QED
    BY <2>2, <2>3
<1>6. before \in Seq(T) /\ h[k] = before \o objs[k]
  <2>1. CASE k = 1
    <3>1. h[1] = objs[1] /\ objs[1] \in Seq(T)
      BY <1>1, <1>3, <2>1
    <3>2. << >> \o objs[1] = objs[1]
      BY <3>1
    <3>3. QED
      BY <2>1, <3>1, <3>2
  <2>2. CASE k # 1
    <3>1. k - 1 \in 1 .. n
      BY <1>1, <2>2
    <3>2. QED
      BY <1>2, <1>3, <2>2, <3>1
  <2>3. QED
    BY <2>1, <2>2
<1> HIDE DEF before
<1>7. /\ from = Len(before) /\ from \in Nat /\ Len(objs[k]) \in Nat
      /\ h[k] \in Seq(T) /\ Len(h[k]) = from + Len(objs[k])
      /\ \A i \in 1 .. Len(objs[k]) : h[k][from + i] = objs[k][i]
  <2>1. objs[k] \in Seq(T) /\ Len(objs[k]) \in Nat /\ Len(before) \in Nat
    BY <1>1, <1>6, LenProperties
  <2>2. /\ before \o objs[k] \in Seq(T) /\ Len(before \o objs[k]) = Len(before) + Len(objs[k])
        /\ \A i \in 1 .. Len(before) + Len(objs[k]) :
              (before \o objs[k])[i] =
                  IF i <= Len(before) THEN before[i] ELSE objs[k][i - Len(before)]
    BY <1>6, <2>1, ConcatProperties
  <2>3. \A i \in 1 .. Len(objs[k]) :
           /\ Len(before) + i \in 1 .. Len(before) + Len(objs[k])
           /\ ~ Len(before) + i <= Len(before) /\ (Len(before) + i) - Len(before) = i
    BY <2>1
  <2>4. QED
    BY <1>5, <1>6, <2>1, <2>2, <2>3
<1> HIDE DEF from
\* Joining more only appends.
<1> DEFINE Extends(i) == /\ Len(h[k]) <= Len(h[i])
                         /\ \A j \in 1 .. Len(h[k]) : h[i][j] = h[k][j]
           Bad == {i \in k .. n : ~ Extends(i)}
<1>8. \A i \in k .. n : Extends(i)
  <2>1. /\ Bad \subseteq Nat /\ \A i \in Bad : i \in k .. n /\ ~ Extends(i)
        /\ \A i \in k .. n : i \in Bad \/ Extends(i)
    BY <1>1
  <2>2. Extends(k)
    BY <1>7
  <2> HIDE DEF Bad, Extends
  <2>3. SUFFICES ASSUME Bad # {} PROVE FALSE
    BY <2>1
  <2>4. PICK i \in Bad : \A j \in Bad : i <= j
    BY <2>1, <2>3, LeastNumber
  <2>5. i \in k .. n /\ ~ Extends(i)
    BY <2>1
  <2>6. i # k
    BY <2>2, <2>5
  <2>7. i \in 1 .. n /\ i - 1 \in 1 .. n /\ i - 1 \in k .. n /\ i # 1 /\ ~ i <= i - 1
    BY <1>1, <2>5, <2>6
  <2>8. Extends(i - 1)
    BY <2>1, <2>4, <2>7
  <2>9. h[i] = h[i - 1] \o objs[i] /\ h[i - 1] \in Seq(T) /\ objs[i] \in Seq(T)
    BY <1>1, <1>2, <1>3, <2>7
  <2>10. /\ Len(h[i - 1]) <= Len(h[i])
         /\ \A j \in 1 .. Len(h[i - 1]) : h[i][j] = h[i - 1][j]
    <3> DEFINE l == h[i - 1]
               r == objs[i]
    <3>1. l \in Seq(T) /\ r \in Seq(T)
      BY <2>9
    <3>2. Len(l) \in Nat /\ Len(r) \in Nat
      BY <3>1, LenProperties
    <3>3. /\ Len(l \o r) = Len(l) + Len(r)
          /\ \A j \in 1 .. Len(l) + Len(r) :
                (l \o r)[j] = IF j <= Len(l) THEN l[j] ELSE r[j - Len(l)]
      BY <3>1, ConcatProperties
    <3>5. h[i] = l \o r
      BY <2>9
    <3> HIDE DEF l, r
    <3>4. \A j \in 1 .. Len(l) : j \in 1 .. Len(l) + Len(r) /\ j <= Len(l)
      BY <3>2
    <3>6. Len(l) <= Len(h[i]) /\ \A j \in 1 .. Len(l) : h[i][j] = l[j]
      BY <3>2, <3>3, <3>4, <3>5
    <3>7. QED
      BY <3>6 DEF l
  <2>11. Len(h[i - 1]) \in Nat /\ Len(h[i]) \in Nat /\ Len(h[k]) \in Nat
    <3>1. h[i] \in Seq(T)
      BY <1>2, <2>7
    <3>2. QED
      BY <1>7, <2>9, <3>1, LenProperties
  <2>12. Extends(i)
    BY <2>8, <2>10, <2>11 DEF Extends
  <2>13. QED
    BY <2>5, <2>12
<1>9. Extends(n)
  BY <1>1, <1>8
<1>10. from + Len(objs[k]) <= Len(whole)
  BY <1>4, <1>7, <1>9
<1>11. \A i \in 1 .. Len(objs[k]) : whole[from + i] = objs[k][i]
  <2>1. SUFFICES ASSUME NEW i \in 1 .. Len(objs[k]) PROVE whole[from + i] = objs[k][i]
    OBVIOUS
  <2>2. from + i \in 1 .. Len(h[k])
    BY <1>7
  <2>3. QED
    BY <1>4, <1>7, <1>9, <2>2
<1>12. QED
  BY <1>4, <1>7, <1>10, <1>11 DEF from

-----------------------------------------------------------------------------
(* The cuts of the greedy packing.                                         *)

\* From a to n, walk on while in C.
Walk(e, a, n, C) == e = [k \in a .. n |-> IF k \in C THEN e[k + 1] ELSE k]

(* The walk is defined when it must stop at n.                             *)
LEMMA WalkExists ==
    ASSUME NEW n \in Nat, NEW a \in 0 .. n, NEW C, n \notin C
    PROVE  \E e : Walk(e, a, n, C)
<1> DEFINE Bad == {m \in 0 .. n : ~ \E e : Walk(e, n - m, n, C)}
<1>1. /\ Bad \subseteq Nat /\ \A m \in Bad : m \in 0 .. n /\ ~ \E e : Walk(e, n - m, n, C)
      /\ \A m \in 0 .. n : m \in Bad \/ \E e : Walk(e, n - m, n, C)
  OBVIOUS
<1> HIDE DEF Bad
<1>2. Bad = {}
  <2>1. SUFFICES ASSUME Bad # {} PROVE FALSE
    OBVIOUS
  <2>2. PICK m \in Bad : \A j \in Bad : m <= j
    BY <1>1, <2>1, LeastNumber
  <2>3. m \in 0 .. n
    BY <1>1
  <2>4. CASE m = 0
    <3> DEFINE e == [k \in n .. n |-> k]
    <3>1. \A k \in n .. n : k = n
      OBVIOUS
    <3>2. e = [k \in n .. n |-> IF k \in C THEN e[k + 1] ELSE k]
      BY <3>1
    <3>3. n - m = n
      BY <2>4
    <3> HIDE DEF e
    <3>4. Walk(e, n - m, n, C)
      BY <3>2, <3>3 DEF Walk
    <3>5. QED
      BY <1>1, <3>4
  <2>5. CASE m # 0
    <3> DEFINE p == n - m
    <3>1. /\ m - 1 \in 0 .. n /\ ~ m <= m - 1 /\ n - (m - 1) = p + 1
          /\ p \in 0 .. n /\ p + 1 \in 0 .. n /\ p # p + 1
      BY <2>3, <2>5
    <3>2. PICK f : Walk(f, p + 1, n, C)
      BY <1>1, <2>2, <3>1
    <3> HIDE DEF p
    <3> DEFINE e == [k \in p .. n |-> IF k = p THEN IF p \in C THEN f[p + 1] ELSE p ELSE f[k]]
    <3>3. \A k \in p + 1 .. n : f[k] = IF k \in C THEN f[k + 1] ELSE k
      BY <3>2 DEF Walk
    <3>4. p + 1 \in p .. n /\ p \in p .. n
      BY <3>1
    <3>5. ASSUME NEW k \in p .. n
          PROVE  e[k] = IF k \in C THEN e[k + 1] ELSE k
      <4>1. CASE k = p
        <5>1. e[p + 1] = f[p + 1] /\ e[p] = IF p \in C THEN f[p + 1] ELSE p
          BY <3>1, <3>4
        <5> HIDE DEF e
        <5>2. QED
          BY <4>1, <5>1
      <4>2. CASE k # p
        <5>1. k \in p + 1 .. n /\ (k = n \/ (k + 1 \in p .. n /\ k + 1 # p))
          BY <3>1, <4>2
        <5>2. e[k] = f[k] /\ (k = n \/ e[k + 1] = f[k + 1])
          BY <4>2, <5>1
        <5> HIDE DEF e
        <5>3. QED
          BY <3>3, <5>1, <5>2
      <4>3. QED
        BY <4>1, <4>2
    <3>6. e = [k \in p .. n |-> e[k]]
      OBVIOUS
    <3> HIDE DEF e
    <3>7. Walk(e, p, n, C)
      BY <3>5, <3>6 DEF Walk
    <3>8. QED
      BY <1>1, <3>7 DEF p
  <2>6. QED
    BY <2>4, <2>5
<1>3. n - a \in 0 .. n /\ n - (n - a) = a
  OBVIOUS
<1>4. QED
  BY <1>1, <1>2, <1>3

(* The walk stops outside C, no earlier than it starts.                    *)
LEMMA WalkStops ==
    ASSUME NEW n \in Nat, NEW a \in 0 .. n, NEW C, n \notin C, NEW e, Walk(e, a, n, C)
    PROVE  e[a] \in a .. n /\ e[a] \notin C
<1> DEFINE Good(k) == e[k] \in k .. n /\ e[k] \notin C
           Bad == {m \in 0 .. n - a : ~ Good(n - m)}
<1>1. \A k \in a .. n : e[k] = IF k \in C THEN e[k + 1] ELSE k
  BY DEF Walk
<1>2. /\ Bad \subseteq Nat /\ \A m \in Bad : m \in 0 .. n - a /\ ~ Good(n - m)
      /\ \A m \in 0 .. n - a : m \in Bad \/ Good(n - m)
  OBVIOUS
<1> HIDE DEF Bad
<1>3. Bad = {}
  <2>1. SUFFICES ASSUME Bad # {} PROVE FALSE
    OBVIOUS
  <2>2. PICK m \in Bad : \A j \in Bad : m <= j
    BY <1>2, <2>1, LeastNumber
  <2> DEFINE p == n - m
  <2>3. m \in 0 .. n - a /\ ~ Good(p) /\ p \in a .. n
    BY <1>2
  <2>4. p \in C
    BY <1>1, <2>3
  <2>5. p # n
    BY <2>4
  <2>6. m - 1 \in 0 .. n - a /\ n - (m - 1) = p + 1 /\ ~ m <= m - 1
    BY <2>3, <2>5
  <2>7. Good(p + 1)
    BY <1>2, <2>2, <2>6
  <2>8. e[p] = e[p + 1]
    BY <1>1, <2>3, <2>4
  <2>9. Good(p)
    BY <2>3, <2>7, <2>8
  <2>10. QED
    BY <2>3, <2>9
<1>4. n - a \in 0 .. n - a /\ n - (n - a) = a
  OBVIOUS
<1>5. QED
  BY <1>2, <1>3, <1>4

(* A task ends where the next document no longer fits.                     *)
LEMMA EndIsMaximal ==
    ASSUME NEW counts, Len(counts) \in Nat, NEW start \in 0 .. Len(counts), NEW limits
    PROVE  LET end == TaskEnd(counts, start, limits)
           IN  /\ end \in start .. Len(counts)
               /\ end < Len(counts) =>
                     ~ Fits(SumOf(Slice(counts, start, end)), counts[end + 1], end - start, limits)
<1> DEFINE n == Len(counts)
           Goes(k) ==
               k < n /\ Fits(SumOf(Slice(counts, start, k)), counts[k + 1], k - start, limits)
           C == {k \in start .. n : Goes(k)}
           e == CHOOSE end : end = [k \in start .. n |-> IF Goes(k) THEN end[k + 1] ELSE k]
<1>1. TaskEnd(counts, start, limits) = e[start]
  BY DEF TaskEnd
<1> HIDE DEF Goes
<1>2. ASSUME NEW end
      PROVE  Walk(end, start, n, C)
               <=> end = [k \in start .. n |-> IF Goes(k) THEN end[k + 1] ELSE k]
  <2>1. \A k \in start .. n : k \in C <=> Goes(k)
    OBVIOUS
  <2> HIDE DEF C
  <2>2. [k \in start .. n |-> IF k \in C THEN end[k + 1] ELSE k]
           = [k \in start .. n |-> IF Goes(k) THEN end[k + 1] ELSE k]
    BY <2>1
  <2>3. QED
    BY <2>2 DEF Walk
<1>3. n \in Nat /\ start \in 0 .. n /\ n \notin C
  BY DEF Goes
<1> HIDE DEF C, n
<1>4. \E end : Walk(end, start, n, C)
  BY <1>3, WalkExists
<1>5. Walk(e, start, n, C)
  BY <1>2, <1>4
<1> HIDE DEF e
<1>6. e[start] \in start .. n /\ e[start] \notin C
  BY <1>3, <1>5, WalkStops
<1>7. e[start] < n => ~ Fits(SumOf(Slice(counts, start, e[start])), counts[e[start] + 1],
                             e[start] - start, limits)
  BY <1>6 DEF C, Goes
<1>8. QED
  BY <1>1, <1>6, <1>7 DEF n

(* An error is not a result.                                               *)
LEMMA ErrFails == \A reason : ~ Err(reason).ok
  BY DEF Err

\* The ranges from k on, when those from later starts are known.
RangesFrom(from, k, n, end) ==
    IF k = n THEN Ok(<<>>)
    ELSE IF end[k] = k THEN Err("overlength embedding task")
    ELSE IF from[end[k]].ok THEN Ok(<<[start |-> k, end |-> end[k]]>> \o from[end[k]].value)
    ELSE from[end[k]]

\* The ranges from every start no earlier than a.
Cuts(from, a, n, end) == from = [k \in a .. n |-> RangesFrom(from, k, n, end)]

(* The ranges are defined when no task ends before it starts.              *)
LEMMA CutsExist ==
    ASSUME NEW n \in Nat, NEW end, \A k \in 0 .. n : end[k] \in k .. n
    PROVE  \E from : Cuts(from, 0, n, end)
<1> DEFINE Bad == {m \in 0 .. n : ~ \E from : Cuts(from, n - m, n, end)}
<1>1. /\ Bad \subseteq Nat /\ \A m \in Bad : m \in 0 .. n /\ ~ \E from : Cuts(from, n - m, n, end)
      /\ \A m \in 0 .. n : m \in Bad \/ \E from : Cuts(from, n - m, n, end)
  OBVIOUS
<1> HIDE DEF Bad
<1>2. Bad = {}
  <2>1. SUFFICES ASSUME Bad # {} PROVE FALSE
    OBVIOUS
  <2>2. PICK m \in Bad : \A j \in Bad : m <= j
    BY <1>1, <2>1, LeastNumber
  <2>3. m \in 0 .. n
    BY <1>1
  <2>4. CASE m = 0
    <3> DEFINE h == [k \in n .. n |-> Ok(<<>>)]
    <3>1. \A k \in n .. n : k = n
      OBVIOUS
    <3>2. h = [k \in n .. n |-> RangesFrom(h, k, n, end)]
      <4>1. \A k \in n .. n : RangesFrom(h, k, n, end) = Ok(<<>>)
        BY <3>1 DEF RangesFrom
      <4>2. QED
        BY <4>1
    <3>3. n - m = n
      BY <2>4
    <3> HIDE DEF h
    <3>4. Cuts(h, n - m, n, end)
      BY <3>2, <3>3 DEF Cuts
    <3>5. QED
      BY <1>1, <3>4
  <2>5. CASE m # 0
    <3> DEFINE p == n - m
    <3>1. /\ m - 1 \in 0 .. n /\ ~ m <= m - 1 /\ n - (m - 1) = p + 1
          /\ p \in 0 .. n /\ p + 1 \in 0 .. n /\ p # p + 1
      BY <2>3, <2>5
    <3>2. PICK f : Cuts(f, p + 1, n, end)
      BY <1>1, <2>2, <3>1
    <3> HIDE DEF p
    <3> DEFINE h == [k \in p .. n |-> IF k = p THEN RangesFrom(f, p, n, end) ELSE f[k]]
    <3>3. \A k \in p + 1 .. n : f[k] = RangesFrom(f, k, n, end)
      BY <3>2 DEF Cuts
    <3>4. p \in p .. n
      BY <3>1
    <3>5. ASSUME NEW k \in p .. n
          PROVE  h[k] = RangesFrom(h, k, n, end)
      <4>1. h[k] = RangesFrom(f, k, n, end)
        <5>1. CASE k = p
          BY <5>1
        <5>2. CASE k # p
          <6>1. k \in p + 1 .. n
            BY <3>1, <5>2
          <6>2. QED
            BY <3>3, <5>2, <6>1
        <5>3. QED
          BY <5>1, <5>2
      <4>2. end[k] = k \/ h[end[k]] = f[end[k]]
        <5>1. end[k] \in k .. n /\ k \in 0 .. n
          BY <3>1
        <5>2. end[k] # k => end[k] \in p .. n /\ end[k] # p
          BY <3>1, <5>1
        <5>3. QED
          BY <5>2
      <4> HIDE DEF h
      <4>3. RangesFrom(f, k, n, end) = RangesFrom(h, k, n, end)
        BY <4>2 DEF RangesFrom
      <4>4. QED
        BY <4>1, <4>3
    <3>6. h = [k \in p .. n |-> h[k]]
      OBVIOUS
    <3> HIDE DEF h
    <3>7. Cuts(h, p, n, end)
      BY <3>5, <3>6 DEF Cuts
    <3>8. QED
      BY <1>1, <3>7 DEF p
  <2>6. QED
    BY <2>4, <2>5
<1>3. n \in 0 .. n /\ n - n = 0
  OBVIOUS
<1>4. QED
  BY <1>1, <1>2, <1>3

(* The ranges are a sequence of starts, each with the end of its task.     *)
LEMMA CutsListed ==
    ASSUME NEW n \in Nat, NEW end, \A k \in 0 .. n : end[k] \in k .. n,
           NEW from, Cuts(from, 0, n, end)
    PROVE  from[0].ok => from[0].value \in Seq({[start |-> k, end |-> end[k]] : k \in 0 .. n})
<1> DEFINE R == {[start |-> k, end |-> end[k]] : k \in 0 .. n}
           Good(k) == from[k].ok => from[k].value \in Seq(R)
           Bad == {m \in 0 .. n : ~ Good(n - m)}
<1>1. \A k \in 0 .. n : from[k] = RangesFrom(from, k, n, end)
  BY DEF Cuts
<1>2. \A k \in 0 .. n : [start |-> k, end |-> end[k]] \in R
  OBVIOUS
<1> HIDE DEF R
<1>3. /\ Bad \subseteq Nat /\ \A m \in Bad : m \in 0 .. n /\ ~ Good(n - m)
      /\ \A m \in 0 .. n : m \in Bad \/ Good(n - m)
  OBVIOUS
<1> HIDE DEF Bad
<1>4. Bad = {}
  <2>1. SUFFICES ASSUME Bad # {} PROVE FALSE
    OBVIOUS
  <2>2. PICK m \in Bad : \A j \in Bad : m <= j
    BY <1>3, <2>1, LeastNumber
  <2> DEFINE p == n - m
  <2>3. m \in 0 .. n /\ ~ Good(p) /\ p \in 0 .. n
    BY <1>3
  <2> HIDE DEF p
  <2>4. CASE p = n
    <3>1. from[p] = Ok(<<>>)
      BY <1>1, <2>3, <2>4 DEF RangesFrom
    <3>2. QED
      BY <2>3, <3>1, EmptySeq DEF Ok
  <2>5. CASE p # n /\ end[p] = p
    <3>1. from[p] = Err("overlength embedding task")
      BY <1>1, <2>3, <2>5 DEF RangesFrom
    <3>2. ~ from[p].ok
      BY <3>1, ErrFails
    <3>3. QED
      BY <2>3, <3>2
  <2>6. CASE p # n /\ end[p] # p
    <3> DEFINE q == end[p]
               one == <<[start |-> p, end |-> q]>>
    <3>1. q \in p .. n /\ q # p
      BY <2>3, <2>6
    <3>2. n - q \in 0 .. n /\ ~ m <= n - q /\ n - (n - q) = q
      BY <2>3, <3>1 DEF p
    <3>3. Good(q)
      BY <1>3, <2>2, <3>2
    <3>4. from[p] = IF from[q].ok THEN Ok(one \o from[q].value) ELSE from[q]
      BY <1>1, <2>3, <2>6 DEF RangesFrom
    <3>5. one \in Seq(R)
      BY <1>2, <2>3
    <3> HIDE DEF one, q
    <3>6. CASE from[q].ok
      <4>1. from[q].value \in Seq(R)
        BY <3>3, <3>6
      <4>2. one \o from[q].value \in Seq(R)
        BY <3>5, <4>1, ConcatProperties
      <4>3. QED
        BY <2>3, <3>4, <3>6, <4>2 DEF Ok
    <3>7. CASE ~ from[q].ok
      BY <2>3, <3>4, <3>7
    <3>8. QED
      BY <3>6, <3>7
  <2>7. QED
    BY <2>4, <2>5, <2>6
<1>5. n \in 0 .. n /\ n - n = 0
  OBVIOUS
<1>6. Good(0)
  BY <1>3, <1>4, <1>5
<1>7. QED
  BY <1>6 DEF R

(* Every range a plan is cut into is a task from its start to its end.     *)
LEMMA RangesAreTasks ==
    ASSUME NEW counts, Len(counts) \in Nat, NEW limits, TaskRanges(counts, limits).ok
    PROVE  TaskRanges(counts, limits).value
             \in Seq({[start |-> k, end |-> TaskEnd(counts, k, limits)] : k \in 0 .. Len(counts)})
<1> DEFINE n == Len(counts)
           end == [k \in 0 .. n |-> TaskEnd(counts, k, limits)]
           from == CHOOSE h : Cuts(h, 0, n, end)
<1>1. TaskRanges(counts, limits) = from[0]
  <2> DEFINE body(h, k) ==
        LET e == TaskEnd(counts, k, limits)
        IN  IF k = Len(counts) THEN Ok(<<>>)
            ELSE IF e = k THEN Err("overlength embedding task")
            ELSE IF h[e].ok THEN Ok(<<[start |-> k, end |-> e]>> \o h[e].value)
            ELSE h[e]
      whole(h) == h = [k \in 0 .. n |-> body(h, k)]
  <2>1. TaskRanges(counts, limits) = (CHOOSE h : whole(h))[0]
    BY DEF TaskRanges
  <2>2. ASSUME NEW h
        PROVE  whole(h) <=> Cuts(h, 0, n, end)
    <3>1. \A k \in 0 .. n : body(h, k) = RangesFrom(h, k, n, end)
      BY DEF RangesFrom
    <3> HIDE DEF body
    <3>2. [k \in 0 .. n |-> body(h, k)] = [k \in 0 .. n |-> RangesFrom(h, k, n, end)]
      BY <3>1
    <3>3. QED
      BY <3>2 DEF Cuts
  <2> HIDE DEF whole
  <2>3. (CHOOSE h : whole(h)) = (CHOOSE h : Cuts(h, 0, n, end))
    BY <2>2
  <2>4. QED
    BY <2>1, <2>3
<1>2. \A k \in 0 .. n : end[k] = TaskEnd(counts, k, limits) /\ end[k] \in k .. n
  BY EndIsMaximal
<1>3. {[start |-> k, end |-> end[k]] : k \in 0 .. n}
        = {[start |-> k, end |-> TaskEnd(counts, k, limits)] : k \in 0 .. n}
  BY <1>2
<1> HIDE DEF end
<1>4. Cuts(from, 0, n, end)
  BY <1>2, CutsExist
<1> HIDE DEF from
<1>5. QED
  BY <1>1, <1>2, <1>3, <1>4, CutsListed

-----------------------------------------------------------------------------
(* The counts.                                                             *)

\* The result after row k, from the one before it.
CountNext(profile, tokenizer, rows, limit, result, k) ==
    LET count == CountTokens(profile, tokenizer, rows[k], limit)
    IN  IF result.ok
            THEN IF count.ok THEN Ok(Append(result.value, count.value)) ELSE count
            ELSE result

\* The results after each of the first n rows.
Counted(upTo, profile, tokenizer, rows, limit, n) ==
    upTo = [k \in 0 .. n |-> IF k = 0 THEN Ok(<<>>)
                             ELSE CountNext(profile, tokenizer, rows, limit, upTo[k - 1], k)]

(* The results after each row are defined.                                 *)
LEMMA CountedExists ==
    ASSUME NEW profile, NEW tokenizer, NEW rows, NEW limit, NEW n \in Nat
    PROVE  \E upTo : Counted(upTo, profile, tokenizer, rows, limit, n)
<1> DEFINE Is(h, m) == Counted(h, profile, tokenizer, rows, limit, m)
           After(result, k) == CountNext(profile, tokenizer, rows, limit, result, k)
           Bad == {m \in 0 .. n : ~ \E h : Is(h, m)}
<1>1. /\ Bad \subseteq Nat /\ \A m \in Bad : m \in 0 .. n /\ ~ \E h : Is(h, m)
      /\ \A m \in 0 .. n : m \in Bad \/ \E h : Is(h, m)
  OBVIOUS
<1>2. \A h, m : Is(h, m) <=> h = [k \in 0 .. m |-> IF k = 0 THEN Ok(<<>>) ELSE After(h[k - 1], k)]
  BY DEF Counted
<1> HIDE DEF Bad, Is, After
<1>3. Bad = {}
  <2>1. SUFFICES ASSUME Bad # {} PROVE FALSE
    OBVIOUS
  <2>2. PICK m \in Bad : \A j \in Bad : m <= j
    BY <1>1, <2>1, LeastNumber
  <2>3. m \in 0 .. n
    BY <1>1
  <2>4. CASE m = 0
    <3> DEFINE h == [k \in 0 .. m |-> Ok(<<>>)]
    <3>1. \A k \in 0 .. m : k = 0
      BY <2>4
    <3>2. h = [k \in 0 .. m |-> IF k = 0 THEN Ok(<<>>) ELSE After(h[k - 1], k)]
      BY <3>1
    <3> HIDE DEF h
    <3>3. QED
      BY <1>1, <1>2, <3>2
  <2>5. CASE m # 0
    <3>1. m - 1 \in 0 .. n /\ ~ m <= m - 1
      BY <2>3, <2>5
    <3>2. PICK f : Is(f, m - 1)
      BY <1>1, <2>2, <3>1
    <3>3. \A k \in 0 .. m - 1 : f[k] = IF k = 0 THEN Ok(<<>>) ELSE After(f[k - 1], k)
      <4>1. f = [k \in 0 .. m - 1 |-> IF k = 0 THEN Ok(<<>>) ELSE After(f[k - 1], k)]
        BY <1>2, <3>2
      <4>2. QED
        BY <4>1
    <3> DEFINE h == [k \in 0 .. m |-> IF k = m THEN After(f[m - 1], m) ELSE f[k]]
    <3>4. ASSUME NEW k \in 0 .. m
          PROVE  h[k] = IF k = 0 THEN Ok(<<>>) ELSE After(h[k - 1], k)
      <4>1. CASE k = m
        <5>1. m \in 0 .. m /\ m - 1 \in 0 .. m /\ m - 1 # m
          BY <2>3, <2>5
        <5>2. h[m] = After(f[m - 1], m) /\ h[m - 1] = f[m - 1]
          BY <5>1
        <5> HIDE DEF h
        <5>3. QED
          BY <2>5, <4>1, <5>2
      <4>2. CASE k # m
        <5>1. k \in 0 .. m - 1 /\ (k = 0 \/ (k - 1 \in 0 .. m /\ k - 1 # m))
          BY <2>3, <4>2
        <5>2. h[k] = f[k] /\ (k = 0 \/ h[k - 1] = f[k - 1])
          BY <4>2, <5>1
        <5> HIDE DEF h
        <5>3. QED
          BY <3>3, <5>1, <5>2
      <4>3. QED
        BY <4>1, <4>2
    <3>5. h = [k \in 0 .. m |-> h[k]]
      OBVIOUS
    <3> HIDE DEF h
    <3>6. h = [k \in 0 .. m |-> IF k = 0 THEN Ok(<<>>) ELSE After(h[k - 1], k)]
      BY <3>4, <3>5
    <3>7. QED
      BY <1>1, <1>2, <3>6
  <2>6. QED
    BY <2>4, <2>5
<1>4. QED
  BY <1>1, <1>3 DEF Is

(* A row's count is a number.                                              *)
LEMMA CountIsNumber ==
    ASSUME NEW profile, NEW tokenizer, NEW row, NEW limit,
           Tokens[tokenizer.artifact][FormatInput(profile, row)] \in Nat,
           CountTokens(profile, tokenizer, row, limit).ok
    PROVE  CountTokens(profile, tokenizer, row, limit).value \in Nat
<1> DEFINE c == Tokens[tokenizer.artifact][FormatInput(profile, row)]
           long == c = 0 \/ c > profile.max_tokens \/ c > limit
<1>1. CountTokens(profile, tokenizer, row, limit)
        = IF long THEN Err("overlength embedding document") ELSE Ok(c)
  BY DEF CountTokens
<1> HIDE DEF long, c
<1>2. ~ long
  BY <1>1, ErrFails
<1>3. QED
  BY <1>1, <1>2 DEF Ok, c

(* What is counted of a corpus is numbers.                                 *)
LEMMA CountsAreNumbers ==
    ASSUME NEW profile, NEW tokenizer, NEW rows, NEW limit, Len(rows) \in Nat,
           \A k \in 1 .. Len(rows) :
              Tokens[tokenizer.artifact][FormatInput(profile, rows[k])] \in Nat,
           TokenCounts(profile, tokenizer, rows, limit).ok
    PROVE  TokenCounts(profile, tokenizer, rows, limit).value \in Seq(Nat)
<1> DEFINE n == Len(rows)
           Is(h) == Counted(h, profile, tokenizer, rows, limit, n)
           upTo == CHOOSE h : Is(h)
           After(result, k) == CountNext(profile, tokenizer, rows, limit, result, k)
<1>1. TokenCounts(profile, tokenizer, rows, limit) = upTo[n]
  <2> DEFINE body(result, row) ==
        IF result.ok
            THEN LET count == CountTokens(profile, tokenizer, row, limit)
                 IN  IF count.ok THEN Ok(Append(result.value, count.value)) ELSE count
            ELSE result
      whole(h) == h = [k \in 0 .. n |-> IF k = 0 THEN Ok(<<>>) ELSE body(h[k - 1], rows[k])]
  <2>1. TokenCounts(profile, tokenizer, rows, limit) = (CHOOSE h : whole(h))[n]
    BY DEF TokenCounts, TryFold, Loop
  <2>2. \A h : whole(h) <=> Is(h)
    BY DEF Counted, CountNext
  <2> HIDE DEF whole, Is
  <2>3. (CHOOSE h : whole(h)) = (CHOOSE h : Is(h))
    BY <2>2
  <2>4. QED
    BY <2>1, <2>3
<1>2. Is(upTo)
  BY CountedExists
<1> HIDE DEF upTo
<1>3. \A k \in 0 .. n : upTo[k] = IF k = 0 THEN Ok(<<>>) ELSE After(upTo[k - 1], k)
  BY <1>2 DEF Counted
<1> DEFINE Good(k) == upTo[k].ok => upTo[k].value \in Seq(Nat)
           Bad == {k \in 0 .. n : ~ Good(k)}
<1>4. /\ Bad \subseteq Nat /\ \A k \in Bad : k \in 0 .. n /\ ~ Good(k)
      /\ \A k \in 0 .. n : k \in Bad \/ Good(k)
  OBVIOUS
<1> HIDE DEF Bad, After, Is
<1>5. Bad = {}
  <2>1. SUFFICES ASSUME Bad # {} PROVE FALSE
    OBVIOUS
  <2>2. PICK k \in Bad : \A j \in Bad : k <= j
    BY <1>4, <2>1, LeastNumber
  <2>3. k \in 0 .. n /\ ~ Good(k)
    BY <1>4
  <2>4. CASE k = 0
    <3>1. upTo[k] = Ok(<<>>)
      BY <1>3, <2>3, <2>4
    <3>2. QED
      BY <2>3, <3>1, EmptySeq DEF Ok
  <2>5. CASE k # 0
    <3>1. k \in 1 .. n /\ k - 1 \in 0 .. n /\ ~ k <= k - 1
      BY <2>3, <2>5
    <3> DEFINE before == upTo[k - 1]
               count == CountTokens(profile, tokenizer, rows[k], limit)
    <3>2. Good(k - 1)
      BY <1>4, <2>2, <3>1
    <3>3. upTo[k] = IF before.ok
                        THEN IF count.ok THEN Ok(Append(before.value, count.value)) ELSE count
                        ELSE before
      BY <1>3, <2>3, <2>5 DEF After, CountNext
    <3>4. count.ok => count.value \in Nat
      BY <3>1, CountIsNumber
    <3>5. before.ok => before.value \in Seq(Nat)
      BY <3>2
    <3> HIDE DEF before, count
    <3>6. CASE before.ok /\ count.ok
      <4>1. Append(before.value, count.value) \in Seq(Nat)
        BY <3>4, <3>5, <3>6, AppendProperties
      <4>2. QED
        BY <2>3, <3>3, <3>6, <4>1 DEF Ok
    <3>7. CASE before.ok /\ ~ count.ok
      BY <2>3, <3>3, <3>7
    <3>8. CASE ~ before.ok
      BY <2>3, <3>3, <3>8
    <3>9. QED
      BY <3>6, <3>7, <3>8
  <2>6. QED
    BY <2>4, <2>5
<1>6. n \in 0 .. n
  OBVIOUS
<1>7. QED
  BY <1>1, <1>4, <1>5, <1>6

-----------------------------------------------------------------------------
(* The rows that slices select.                                            *)

(* Joined sequences are a sequence.                                        *)
LEMMA FlattenTyped ==
    ASSUME NEW T, NEW objs \in Seq(Seq(T))
    PROVE  FlattenSeq(objs) \in Seq(T) /\ Len(FlattenSeq(objs)) \in Nat
<1>1. CASE objs = <<>>
  <2>1. FlattenSeq(objs) = <<>>
    BY <1>1 DEF FlattenSeq
  <2>2. QED
    BY <2>1, EmptySeq
<1>2. CASE objs # <<>>
  <2>1. Len(objs) \in Nat \ {0} /\ \A i \in 1 .. Len(objs) : objs[i] \in Seq(T)
    BY <1>2, EmptySeq, ElementOfSeq
  <2>2. PICK h \in [1 .. Len(objs) -> Seq(T)] : Flat(h, objs, Len(objs))
    BY <2>1, FlatExists
  <2>3. FlattenSeq(objs) = h[Len(objs)]
    BY <2>1, <2>2, FlatIs
  <2>4. Len(objs) \in 1 .. Len(objs)
    BY <2>1
  <2>5. QED
    BY <2>2, <2>3, <2>4, LenProperties
<1>3. QED
  BY <1>1, <1>2

(* What a slice names is a piece of the documents.                         *)
LEMMA SliceIsPiece ==
    ASSUME NEW T, NEW prepared, prepared.documents \in Seq(Seq(T)), NEW slice,
           slice.object \in 1 .. Len(prepared.documents), slice.row_offset \in Nat,
           slice.rows \in Nat,
           slice.row_offset + slice.rows <= Len(prepared.documents[slice.object])
    PROVE  Slice(prepared.documents[slice.object], slice.row_offset, slice.row_offset + slice.rows)
             = SubSeq(Documents(prepared),
                      ObjectStart(prepared, slice.object) + slice.row_offset + 1,
                      ObjectStart(prepared, slice.object) + slice.row_offset + slice.rows)
<1> DEFINE objs == prepared.documents
           o == slice.object
           a == slice.row_offset
           rows == slice.rows
           first == Len(FlattenSeq(SubSeq(objs, 1, o - 1)))
           whole == FlattenSeq(objs)
           one == objs[o]
           b == a + rows
           c == first + a
           d == first + a + rows
<1>1. /\ whole \in Seq(T) /\ first \in Nat /\ Len(one) \in Nat
      /\ first + Len(one) <= Len(whole)
      /\ \A i \in 1 .. Len(one) : whole[first + i] = one[i]
  BY MemberIsPiece
<1>2. one \in Seq(T)
  BY ElementOfSeq
<1>3. Len(whole) \in Nat /\ b <= Len(one) /\ a \in Nat /\ rows \in Nat
  BY <1>1, LenProperties
<1> HIDE DEF first, whole, one, a, rows
<1>4. /\ a \in Nat /\ b \in Nat /\ c \in Nat /\ d \in Nat /\ a <= b /\ c <= d
      /\ d <= Len(whole) /\ b - a = rows /\ d - c = rows
      /\ \A i \in 1 .. rows : a + i \in 1 .. Len(one) /\ c + i = first + (a + i)
  BY <1>1, <1>3
<1> HIDE DEF b, c, d
<1>5. /\ SubSeq(one, a + 1, b) \in Seq(T) /\ Len(SubSeq(one, a + 1, b)) = b - a
      /\ \A i \in 1 .. b - a : SubSeq(one, a + 1, b)[i] = one[a + i]
  BY <1>2, <1>3, <1>4, PieceOf
<1>6. /\ SubSeq(whole, c + 1, d) \in Seq(T) /\ Len(SubSeq(whole, c + 1, d)) = d - c
      /\ \A i \in 1 .. d - c : SubSeq(whole, c + 1, d)[i] = whole[c + i]
  <2>1. whole \in Seq(T) /\ c \in Nat /\ d \in Nat /\ c <= d /\ d <= Len(whole)
    BY <1>1, <1>4
  <2>2. QED
    BY <2>1, PieceOf
<1>7. \A i \in 1 .. rows : SubSeq(one, a + 1, b)[i] = SubSeq(whole, c + 1, d)[i]
  BY <1>1, <1>4, <1>5, <1>6
<1>8. SubSeq(one, a + 1, b) = SubSeq(whole, c + 1, d)
  BY <1>4, <1>5, <1>6, <1>7, SeqEqual
<1>9. QED
  BY <1>8 DEF a, b, c, d, first, rows, whole, one, Slice, Documents, ObjectStart

(* The slices of a built task: what each selects is a range of rows.       *)
LEMMA SlicesBuilt ==
    ASSUME NEW prepared, NEW counts, NEW start \in Nat, NEW end \in Nat,
           Len(prepared.documents) \in Nat,
           \A o \in 1 .. Len(prepared.documents) :
              ObjectStart(prepared, o) \in Nat /\ Len(prepared.documents[o]) \in Nat
    PROVE  LET slices == BuildSlices(prepared, counts, start, end)
           IN  /\ Len(slices) \in Nat /\ (slices # <<>> => Len(slices) # 0)
               /\ \A k \in 1 .. Len(slices) :
                     slices[k].object \in 1 .. Len(prepared.documents) =>
                        slices[k].row_offset \in Nat /\ slices[k].rows \in Int
<1> DEFINE objects == 1 .. Len(prepared.documents)
           touched == {k \in objects :
                        /\ ObjectStart(prepared, k) < end
                        /\ start < ObjectStart(prepared, k) + Len(prepared.documents[k])}
           order == Ascending(touched)
           slices == [k \in 1 .. Len(order) |-> SliceOf(prepared, counts, order[k], start, end)]
<1>1. BuildSlices(prepared, counts, start, end) = slices
  BY DEF BuildSlices, MapSeq
<1>2. IsFiniteSet(touched)
  <2>1. IsFiniteSet(objects)
    BY FS_Interval
  <2>2. QED
    BY <2>1, FS_Subset
<1> HIDE DEF touched
<1>3. Cardinality(touched) \in Nat
  BY <1>2, FS_CardinalityType
<1>4. Len(order) = Cardinality(touched)
  BY <1>3 DEF Ascending, Ordered
<1> HIDE DEF order
<1>5. Len(slices) = Len(order) /\ Len(order) \in Nat /\ (slices # <<>> => Len(slices) # 0)
  BY <1>3, <1>4
<1>6. ASSUME NEW k \in 1 .. Len(order), slices[k].object \in objects
      PROVE  slices[k].row_offset \in Nat /\ slices[k].rows \in Int
  <2> DEFINE o == order[k]
             first == ObjectStart(prepared, o)
             last == first + Len(prepared.documents[o])
             from == Larger(start, first)
             to == Smaller(end, last)
  <2>1. slices[k] = SliceOf(prepared, counts, o, start, end)
    BY <1>6
  <2>2. SliceOf(prepared, counts, o, start, end)
          = [object |-> o, row_offset |-> from - first, rows |-> to - from,
             order |-> Slice(DocumentOrder(prepared), from, to),
             counts |-> Slice(counts, from, to)]
    BY DEF SliceOf
  <2> HIDE DEF from, to
  <2>3. slices[k].object = o /\ slices[k].row_offset = from - first /\ slices[k].rows = to - from
    BY <2>1, <2>2
  <2> HIDE DEF slices
  <2>4. first \in Nat /\ last \in Nat
    BY <1>6, <2>3
  <2> HIDE DEF first, last
  <2>5. from \in Nat /\ from >= first /\ to \in Nat
    BY <2>4 DEF from, to, Larger, Smaller
  <2>6. QED
    BY <2>3, <2>4, <2>5
<1> HIDE DEF slices
<1>7. QED
  BY <1>1, <1>5, <1>6

(* A task whose slices follow each other selects the rows between its      *)
(* start and its end.                                                      *)
LEMMA TaskRowsArePiece ==
    ASSUME NEW T, NEW prepared, prepared.documents \in Seq(Seq(T)), NEW plan,
           NEW task \in Range(plan.tasks), NEW counts,
           task.start \in Nat, task.end \in Nat,
           task.slices = BuildSlices(prepared, counts, task.start, task.end),
           SlicesMatchManifest(plan, prepared), TaskValid(plan, task)
    PROVE  /\ TaskRows(prepared, task) = SubSeq(Documents(prepared), task.start + 1, task.end)
           /\ task.end <= Len(Documents(prepared))
<1> DEFINE objs == prepared.documents
           whole == FlattenSeq(objs)
           slices == task.slices
           n == Len(slices)
           global(slice) == ObjectStart(prepared, slice.object) + slice.row_offset
           b == [k \in 0 .. n |-> IF k = 0 THEN task.start ELSE global(slices[k]) + slices[k].rows]
           seqs == [k \in 1 .. n |-> Slice(objs[slices[k].object], slices[k].row_offset,
                                            slices[k].row_offset + slices[k].rows)]
<1>1. TaskRows(prepared, task) = FlattenSeq(seqs)
  BY DEF TaskRows, MapSeq
<1>2. Documents(prepared) = whole
  BY DEF Documents
<1>3. whole \in Seq(T) /\ Len(whole) \in Nat
  BY FlattenTyped
<1>4. \A o \in 1 .. Len(objs) :
         /\ ObjectStart(prepared, o) = Len(FlattenSeq(SubSeq(objs, 1, o - 1)))
         /\ ObjectStart(prepared, o) \in Nat /\ Len(objs[o]) \in Nat
         /\ ObjectStart(prepared, o) + Len(objs[o]) <= Len(whole)
  BY MemberIsPiece DEF ObjectStart
<1>5. Len(objs) \in Nat
  BY LenProperties
<1>6. /\ n \in Nat /\ (slices # <<>> => n # 0)
      /\ \A k \in 1 .. n : slices[k].object \in 1 .. Len(objs) =>
                              slices[k].row_offset \in Nat /\ slices[k].rows \in Int
  BY <1>4, <1>5, SlicesBuilt
<1>7. n \in Nat \ {0} /\ \A k \in 1 .. n : slices[k].rows > 0
  <2>1. slices # <<>> /\ \A slice \in Range(slices) : slice.rows > 0
    BY DEF TaskValid
  <2>2. \A k \in 1 .. n : slices[k] \in Range(slices)
    <3>1. DOMAIN slices = 1 .. n
      <4>1. \E m, f : slices = [k \in 1 .. Len(m) |-> f[k]]
        BY DEF BuildSlices, MapSeq
      <4>2. PICK m, f : slices = [k \in 1 .. Len(m) |-> f[k]]
        BY <4>1
      <4>3. QED
        BY <4>2, <1>6
    <3>2. QED
      BY <3>1 DEF Range
  <2>3. QED
    BY <1>6, <2>1, <2>2
<1>8. /\ \A k \in 1 .. n :
            /\ slices[k].object \in 1 .. Len(objs)
            /\ slices[k].row_offset + slices[k].rows <= Len(objs[slices[k].object])
            /\ global(slices[k]) = IF k = 1 THEN task.start
                                   ELSE global(slices[k - 1]) + slices[k - 1].rows
      /\ task.end = IF n + 1 = 1 THEN task.start
                    ELSE global(slices[n + 1 - 1]) + slices[n + 1 - 1].rows
  <2> DEFINE next(k) == IF k = 1 THEN task.start ELSE global(slices[k - 1]) + slices[k - 1].rows
  <2>1. /\ \A k \in 1 .. n :
              /\ slices[k].object \in 1 .. Len(objs)
              /\ slices[k].row_offset + slices[k].rows <= Len(objs[slices[k].object])
              /\ global(slices[k]) = next(k)
        /\ next(n + 1) = task.end
    BY DEF SlicesMatchManifest
  <2> HIDE DEF global
  <2>2. QED
    BY <2>1
<1>9. b[0] = task.start /\ b[n] = task.end /\ Len(seqs) = n
  <2>1. 0 \in 0 .. n /\ n \in 0 .. n /\ n # 0 /\ n + 1 # 1 /\ n + 1 - 1 = n
    BY <1>7
  <2>2. b[n] = global(slices[n]) + slices[n].rows /\ b[0] = task.start
    BY <2>1
  <2>3. Len(seqs) = n
    BY <1>7
  <2> HIDE DEF b, global, seqs, n
  <2>4. QED
    BY <1>8, <2>1, <2>2, <2>3
<1>10. ASSUME NEW k \in 1 .. n
       PROVE  /\ b[k - 1] \in Nat /\ b[k] \in Nat /\ b[k - 1] <= b[k] /\ b[k] <= Len(whole)
              /\ seqs[k] = SubSeq(whole, b[k - 1] + 1, b[k])
  <2> DEFINE o == slices[k].object
             off == slices[k].row_offset
             rows == slices[k].rows
             first == ObjectStart(prepared, o)
  <2>1. /\ o \in 1 .. Len(objs) /\ off \in Nat /\ rows \in Nat
        /\ off + rows <= Len(objs[o]) /\ rows > 0
    <3>1. /\ o \in 1 .. Len(objs) /\ off + rows <= Len(objs[o]) /\ rows > 0
          /\ off \in Nat /\ rows \in Int
      BY <1>6, <1>7, <1>8
    <3> HIDE DEF o, off, rows
    <3>2. QED
      BY <3>1
  <2>2. first \in Nat /\ Len(objs[o]) \in Nat /\ first + Len(objs[o]) <= Len(whole)
    BY <1>4, <2>1
  <2>3. k \in 0 .. n /\ k - 1 \in 0 .. n /\ k # 0 /\ (k - 1 = 0 <=> k = 1)
    BY <1>7
  <2>4. b[k] = first + off + rows
    BY <2>3
  <2>5. b[k - 1] = first + off
    <3>1. b[k - 1] = IF k = 1 THEN task.start ELSE global(slices[k - 1]) + slices[k - 1].rows
      BY <2>3
    <3>2. global(slices[k]) = IF k = 1 THEN task.start
                              ELSE global(slices[k - 1]) + slices[k - 1].rows
      BY <1>8
    <3>3. global(slices[k]) = first + off
      OBVIOUS
    <3> HIDE DEF global, b, first, off
    <3>4. QED
      BY <3>1, <3>2, <3>3
  <2>6. seqs[k] = SubSeq(whole, first + off + 1, first + off + rows)
    <3> DEFINE slice == slices[k]
    <3>1. seqs[k] = Slice(prepared.documents[slice.object], slice.row_offset,
                          slice.row_offset + slice.rows)
      OBVIOUS
    <3>2. /\ slice.object \in 1 .. Len(prepared.documents) /\ slice.row_offset \in Nat
          /\ slice.rows \in Nat
          /\ slice.row_offset + slice.rows <= Len(prepared.documents[slice.object])
      BY <2>1
    <3> HIDE DEF slice, seqs
    <3>3. seqs[k] = SubSeq(Documents(prepared),
                      ObjectStart(prepared, slice.object) + slice.row_offset + 1,
                      ObjectStart(prepared, slice.object) + slice.row_offset + slice.rows)
      BY <3>1, <3>2, SliceIsPiece
    <3>4. QED
      BY <1>2, <3>3 DEF slice
  <2> HIDE DEF b, seqs, first, off, rows, o, n, global, slices
  <2> HIDE DEF whole, objs
  <2> DEFINE x == b[k - 1]
             y == b[k]
             len == Len(whole)
             l == Len(objs[o])
  <2>9. /\ x = first + off /\ y = x + rows /\ len \in Nat /\ l \in Nat
        /\ first + l <= len /\ off + rows <= l
    BY <1>3, <2>1, <2>2, <2>4, <2>5
  <2>10. seqs[k] = SubSeq(whole, x + 1, y)
    BY <2>4, <2>5, <2>6
  <2> HIDE DEF x, y, len, l
  <2>11. x \in Nat /\ y \in Nat /\ x <= y /\ y <= len
    BY <2>1, <2>2, <2>9
  <2>12. QED
    BY <2>10, <2>11 DEF x, y, len
<1> HIDE DEF b, seqs, global
<1>11. \A k \in 0 .. n : b[k] \in Nat /\ b[k] <= Len(whole)
  <2>1. SUFFICES ASSUME NEW k \in 0 .. n PROVE b[k] \in Nat /\ b[k] <= Len(whole)
    OBVIOUS
  <2> HIDE DEF n, whole
  <2>2. CASE k = 0
    <3>1. 1 \in 1 .. n /\ 1 - 1 = 0
      BY <1>7
    <3>2. b[0] \in Nat /\ b[1] \in Nat /\ b[0] <= b[1] /\ b[1] <= Len(whole)
      BY <1>10, <3>1
    <3>3. QED
      BY <1>3, <2>2, <3>2
  <2>3. CASE k # 0
    <3>1. k \in 1 .. n
      BY <2>3
    <3>2. QED
      BY <1>10, <3>1
  <2>4. QED
    BY <2>2, <2>3
<1> HIDE DEF n, whole
<1>12. FlattenSeq(seqs) = SubSeq(whole, b[0] + 1, b[n])
  <2>1. Pieces(whole, seqs, n, b)
    BY <1>9, <1>10, <1>11 DEF Pieces
  <2>2. QED
    BY <1>3, <1>7, <2>1, PiecesFlatten
<1>13. b[n] <= Len(whole)
  <2>1. n \in 0 .. n
    BY <1>7
  <2>2. QED
    BY <1>11, <2>1
<1>14. QED
  BY <1>1, <1>2, <1>9, <1>12, <1>13

-----------------------------------------------------------------------------
(* What is built and validated is the corpus cut into tasks.               *)

\* The tasks of the plan are the corpus cut into consecutive pieces.
CutsCorpus(plan) ==
    LET corpus == CorpusOf(plan)
    IN  /\ FlattenSeq(MapSeq(LAMBDA task : TaskRows(corpus, task), plan.tasks))
              = Documents(corpus)
        /\ \A k \in 1..Len(plan.tasks) :
              /\ RowCount(plan.tasks[k]) <= plan.limits.documents
              /\ TokenCount(plan.tasks[k]) <= plan.limits.tokens
              /\ k < Len(plan.tasks) =>
                    \/ RowCount(plan.tasks[k]) = plan.limits.documents
                    \/ TokenCount(plan.tasks[k]) + plan.tasks[k + 1].counts[1]
                          > plan.limits.tokens

(* A plan is built only from counts and ranges that are results.           *)
LEMMA BuiltFrom ==
    ASSUME NEW prepared, NEW profile, NEW tokenizer, NEW file, NEW limits,
           BuildPlan(prepared, profile, tokenizer, file, limits).ok
    PROVE  LET counted == TokenCounts(profile, tokenizer, Documents(prepared), limits.tokens)
               ranges == TaskRanges(counted.value, limits)
           IN  /\ counted.ok /\ ranges.ok
               /\ BuildPlan(prepared, profile, tokenizer, file, limits).value
                    = PlanOf(prepared, profile, tokenizer, limits, counted.value, ranges.value)
<1> DEFINE counted == TokenCounts(profile, tokenizer, Documents(prepared), limits.tokens)
           ranges == TaskRanges(counted.value, limits)
           plan == PlanOf(prepared, profile, tokenizer, limits, counted.value, ranges.value)
           built == BuildPlan(prepared, profile, tokenizer, file, limits)
<1>1. \/ \E reason : built = Err(reason)
      \/ ~ counted.ok /\ built = counted
      \/ ~ ranges.ok /\ built = ranges
      \/ counted.ok /\ ranges.ok /\ built = Ok(plan)
  BY DEF BuildPlan
<1> HIDE DEF counted, ranges, plan, built
<1>2. built.ok
  BY DEF built
<1>3. counted.ok /\ ranges.ok /\ built = Ok(plan)
  BY <1>1, <1>2, ErrFails
<1>4. built.value = plan
  BY <1>3 DEF Ok
<1>5. QED
  BY <1>3, <1>4 DEF counted, ranges, plan, built

\* The tasks of the plan are cut from the counts and the corpus.
TasksAreCut(plan, prepared, counts, limits) ==
    /\ plan.limits = limits /\ Len(plan.tasks) \in Nat
    /\ DOMAIN plan.tasks = 1 .. Len(plan.tasks)
    /\ \A k \in 1 .. Len(plan.tasks) :
          LET task == plan.tasks[k]
          IN  /\ task.start \in Nat /\ task.end \in task.start .. Len(counts)
              /\ task.end = TaskEnd(counts, task.start, limits)
              /\ task.slices = BuildSlices(prepared, counts, task.start, task.end)
              /\ task.counts = Slice(counts, task.start, task.end)

(* The tasks of a plan, built from numbers.                                *)
LEMMA TasksBuilt ==
    ASSUME NEW prepared, NEW profile, NEW tokenizer, NEW limits, NEW counts \in Seq(Nat),
           TaskRanges(counts, limits).ok
    PROVE  TasksAreCut(PlanOf(prepared, profile, tokenizer, limits, counts,
                              TaskRanges(counts, limits).value),
                       prepared, counts, limits)
<1> DEFINE ranges == TaskRanges(counts, limits).value
           plan == PlanOf(prepared, profile, tokenizer, limits, counts, ranges)
           R == {[start |-> k, end |-> TaskEnd(counts, k, limits)] : k \in 0 .. Len(counts)}
<1>1. Len(counts) \in Nat
  BY LenProperties
<1>2. ranges \in Seq(R)
  BY <1>1, RangesAreTasks
<1>3. Len(ranges) \in Nat
  BY <1>2, LenProperties
<1> HIDE DEF ranges
<1>4. /\ plan.limits = limits
      /\ plan.tasks = [k \in 1 .. Len(ranges) |-> BuildTask(prepared, counts, ranges[k])]
  BY DEF PlanOf, MapSeq
<1> HIDE DEF plan
<1>5. Len(plan.tasks) = Len(ranges) /\ DOMAIN plan.tasks = 1 .. Len(ranges)
  BY <1>3, <1>4
<1>6. ASSUME NEW k \in 1 .. Len(ranges)
      PROVE  LET task == plan.tasks[k]
             IN  /\ task.start \in Nat /\ task.end \in task.start .. Len(counts)
                 /\ task.end = TaskEnd(counts, task.start, limits)
                 /\ task.slices = BuildSlices(prepared, counts, task.start, task.end)
                 /\ task.counts = Slice(counts, task.start, task.end)
  <2>1. ranges[k] \in R
    BY <1>2, ElementOfSeq
  <2>2. PICK start \in 0 .. Len(counts) :
               ranges[k] = [start |-> start, end |-> TaskEnd(counts, start, limits)]
    BY <2>1
  <2>3. TaskEnd(counts, start, limits) \in start .. Len(counts)
    BY <1>1, EndIsMaximal
  <2> DEFINE task == plan.tasks[k]
  <2>4. task = BuildTask(prepared, counts, ranges[k])
    BY <1>4
  <2> HIDE DEF task
  <2>5. /\ task.start = start /\ task.end = TaskEnd(counts, start, limits)
        /\ task.slices = BuildSlices(prepared, counts, start, TaskEnd(counts, start, limits))
        /\ task.counts = Slice(counts, start, TaskEnd(counts, start, limits))
    BY <2>2, <2>4 DEF BuildTask
  <2>6. QED
    BY <2>2, <2>3, <2>5 DEF task
<1>7. QED
  BY <1>3, <1>4, <1>5, <1>6 DEF TasksAreCut, plan, ranges

\* Every task selects the rows of the corpus between its start and its end.
TasksRead(plan, prepared) ==
    /\ Len(plan.tasks) \in Nat /\ DOMAIN plan.tasks = 1 .. Len(plan.tasks)
    /\ \A k \in 1 .. Len(plan.tasks) :
          LET task == plan.tasks[k]
          IN  /\ task.start \in Nat /\ task.end \in Nat
              /\ task.start <= task.end /\ task.end <= Len(Documents(prepared))
              /\ TaskRows(prepared, task) = SubSeq(Documents(prepared), task.start + 1, task.end)

(* Validated tasks, built from counts, read the corpus.                    *)
LEMMA TasksReadDocuments ==
    ASSUME NEW T, NEW prepared, prepared.documents \in Seq(Seq(T)), NEW plan, NEW counts,
           PlanBinds(plan, prepared), Len(plan.tasks) \in Nat,
           DOMAIN plan.tasks = 1 .. Len(plan.tasks),
           \A k \in 1 .. Len(plan.tasks) :
              LET task == plan.tasks[k]
              IN  /\ task.start \in Nat /\ task.end \in Nat
                  /\ task.slices = BuildSlices(prepared, counts, task.start, task.end)
    PROVE  TasksRead(plan, prepared)
<1>1. ASSUME NEW k \in 1 .. Len(plan.tasks)
      PROVE  LET task == plan.tasks[k]
             IN  /\ task.start \in Nat /\ task.end \in Nat
                 /\ task.start <= task.end /\ task.end <= Len(Documents(prepared))
                 /\ TaskRows(prepared, task)
                      = SubSeq(Documents(prepared), task.start + 1, task.end)
  <2> DEFINE task == plan.tasks[k]
  <2>1. /\ task.start \in Nat /\ task.end \in Nat
        /\ task.slices = BuildSlices(prepared, counts, task.start, task.end)
    OBVIOUS
  <2>2. task \in Range(plan.tasks)
    BY DEF Range
  <2>3. TaskValid(plan, task) /\ SlicesMatchManifest(plan, prepared) /\ task.start < task.end
    BY <2>2 DEF PlanBinds, ValidPlan, TasksCover
  <2> HIDE DEF task
  <2>4. /\ TaskRows(prepared, task) = SubSeq(Documents(prepared), task.start + 1, task.end)
        /\ task.end <= Len(Documents(prepared))
    BY <2>1, <2>2, <2>3, TaskRowsArePiece
  <2>5. QED
    BY <2>1, <2>3, <2>4 DEF task
<1>2. QED
  BY <1>1 DEF TasksRead

\* The pieces of a sequence that the tasks of a plan name.
TaskPieces(plan, whole) ==
    [k \in 1 .. Len(plan.tasks) |-> SubSeq(whole, plan.tasks[k].start + 1, plan.tasks[k].end)]

(* Consecutive tasks of a bound plan cut whatever is as long as the corpus.*)
LEMMA TaskPiecesFlatten ==
    ASSUME NEW T, NEW whole \in Seq(T), NEW prepared, NEW plan, PlanBinds(plan, prepared),
           TasksRead(plan, prepared), Len(whole) = Len(Documents(prepared))
    PROVE  FlattenSeq(TaskPieces(plan, whole)) = whole
<1> DEFINE tasks == plan.tasks
           n == Len(tasks)
           seqs == TaskPieces(plan, whole)
           b == [k \in 0 .. n |-> IF k = 0 THEN 0 ELSE tasks[k].end]
<1>1. seqs = [k \in 1 .. n |-> SubSeq(whole, tasks[k].start + 1, tasks[k].end)]
  BY DEF TaskPieces
<1> HIDE DEF seqs
<1>2. Len(whole) \in Nat
  BY LenProperties
<1>3. /\ \A k \in 1 .. n : /\ tasks[k].start = (IF k = 1 THEN 0 ELSE tasks[k - 1].end)
                           /\ tasks[k].start < tasks[k].end
      /\ Len(whole) = IF tasks = <<>> THEN 0 ELSE tasks[n].end
  BY DEF PlanBinds, ValidPlan, TasksCover
<1>4. n \in Nat /\ DOMAIN tasks = 1 .. n
  BY DEF TasksRead
<1>5. ASSUME NEW k \in 1 .. n
      PROVE  /\ seqs[k] = SubSeq(whole, tasks[k].start + 1, tasks[k].end)
             /\ tasks[k].end <= Len(whole)
             /\ tasks[k].start \in Nat /\ tasks[k].end \in Nat
  BY <1>1 DEF TasksRead
<1>6. CASE n = 0
  <2>1. tasks = <<>>
    BY <1>4, <1>6
  <2>2. Len(whole) = 0
    BY <1>3, <2>1
  <2>3. whole = <<>>
    BY <2>2
  <2>4. seqs = <<>> /\ Len(seqs) = 0
    BY <1>1, <1>6
  <2>5. FlattenSeq(seqs) = <<>>
    BY <2>4 DEF FlattenSeq
  <2>6. QED
    BY <2>3, <2>5 DEF seqs
<1>7. CASE n # 0
  <2>1. n \in Nat \ {0} /\ n \in 0 .. n /\ 0 \in 0 .. n /\ tasks # <<>>
    BY <1>4, <1>7
  <2>2. b[0] = 0 /\ b[n] = Len(whole)
    BY <1>3, <1>7, <2>1
  <2>3. ASSUME NEW k \in 0 .. n
        PROVE  b[k] \in Nat /\ b[k] <= Len(whole)
    <3>1. CASE k = 0
      BY <1>2, <3>1
    <3>2. CASE k # 0
      <4>1. k \in 1 .. n
        BY <1>4, <3>2
      <4>2. b[k] = tasks[k].end
        BY <3>2
      <4> HIDE DEF b, n
      <4>3. QED
        BY <1>5, <4>1, <4>2
    <3>3. QED
      BY <3>1, <3>2
  <2>4. ASSUME NEW k \in 1 .. n
        PROVE  b[k - 1] <= b[k] /\ seqs[k] = SubSeq(whole, b[k - 1] + 1, b[k])
    <3>1. k \in 0 .. n /\ k - 1 \in 0 .. n /\ k # 0 /\ (k - 1 = 0 <=> k = 1)
      BY <2>1
    <3>2. b[k] = tasks[k].end /\ b[k - 1] = tasks[k].start
      BY <1>3, <3>1
    <3> HIDE DEF b, n
    <3>3. QED
      BY <1>3, <1>5, <3>2
  <2>5. Len(seqs) = n
    BY <1>1, <2>1
  <2> HIDE DEF b, n
  <2>6. Pieces(whole, seqs, n, b)
    BY <2>3, <2>4, <2>5 DEF Pieces
  <2>7. FlattenSeq(seqs) = SubSeq(whole, b[0] + 1, b[n])
    BY <2>1, <2>6, PiecesFlatten
  <2>8. SubSeq(whole, 0 + 1, Len(whole)) = whole
    BY <1>2, SubSeqFull
  <2>9. QED
    BY <2>2, <2>7, <2>8 DEF seqs
<1>8. QED
  BY <1>6, <1>7

(* Together the tasks select the documents in order.                       *)
LEMMA TasksSelectDocuments ==
    ASSUME NEW T, NEW prepared, prepared.documents \in Seq(Seq(T)), NEW plan,
           PlanBinds(plan, prepared), TasksRead(plan, prepared)
    PROVE  FlattenSeq(MapSeq(LAMBDA task : TaskRows(prepared, task), plan.tasks))
             = Documents(prepared)
<1>1. Documents(prepared) \in Seq(T)
  BY FlattenTyped DEF Documents
<1>2. MapSeq(LAMBDA task : TaskRows(prepared, task), plan.tasks)
        = TaskPieces(plan, Documents(prepared))
  BY DEF MapSeq, TasksRead, TaskPieces
<1>3. QED
  BY <1>1, <1>2, TaskPiecesFlatten

-----------------------------------------------------------------------------
(* Profiles and what they give to documents.                               *)

\* The profiles of requests, and those derived from one of full size.
KnownProfiles ==
    {request.profile : request \in Requests}
        \union {DerivedProfile(request.profile, dims) :
                   request \in {r \in Requests : r.profile.dims = FullDims},
                   dims \in {d \in DerivedDims : d < FullDims}}

\* The fields of a profile.
ProfileShape(p) ==
    p = [name |-> p.name, executable |-> p.executable, model |-> p.model,
         tokenizer |-> p.tokenizer, max_tokens |-> p.max_tokens, format |-> p.format,
         dims |-> p.dims, runtime |-> p.runtime, parent |-> p.parent]

(* A derived profile differs in its size and its parent.                   *)
LEMMA DerivedProfileIs ==
    ASSUME NEW p, ProfileShape(p), NEW dims
    PROVE  LET q == DerivedProfile(p, dims)
           IN  /\ ProfileShape(q) /\ q.name = p.name /\ q.dims = dims /\ q.model = p.model
               /\ q.format = p.format
<1> DEFINE q == DerivedProfile(p, dims)
<1>1. q = [name |-> p.name, executable |-> p.executable, model |-> p.model,
           tokenizer |-> p.tokenizer, max_tokens |-> p.max_tokens, format |-> p.format,
           dims |-> dims, runtime |-> p.runtime, parent |-> p.name]
  <2>1. /\ p = [x \in DOMAIN p |-> p[x]]
        /\ DOMAIN p = {"name", "executable", "model", "tokenizer", "max_tokens", "format",
                       "dims", "runtime", "parent"}
    BY DEF ProfileShape
  <2>2. q = [x \in DOMAIN p |-> IF x = "parent" THEN p.name ELSE IF x = "dims" THEN dims ELSE p[x]]
    BY <2>1 DEF DerivedProfile
  <2> HIDE DEF q
  <2>3. QED
    BY <2>1, <2>2
<1> HIDE DEF q
<1>2. QED
  BY <1>1 DEF ProfileShape, q

(* Digests tell profiles apart.                                            *)
LEMMA DigestNamesProfile ==
    ASSUME NEW p \in KnownProfiles, NEW q \in KnownProfiles, ProfileDigest(p) = ProfileDigest(q)
    PROVE  p = q
<1>1. \A request \in Requests : ProfileShape(request.profile)
  BY RequestsAssumption DEF ProfileShape
<1>2. \A one, other \in Requests :
         one.profile.name = other.profile.name => one.profile = other.profile
  BY RequestsAssumption
<1>3. p.name = q.name /\ p.dims = q.dims
  BY DEF ProfileDigest
<1>4. FullDims \in Nat
  BY PipelineAssumption
<1>5. FullDims \notin {d \in DerivedDims : d < FullDims}
  BY <1>4
<1>6. PICK one \in Requests :
         \/ p = one.profile
         \/ one.profile.dims = FullDims /\ \E dims \in {d \in DerivedDims : d < FullDims} :
                                                  p = DerivedProfile(one.profile, dims)
  BY DEF KnownProfiles
<1>7. PICK other \in Requests :
         \/ q = other.profile
         \/ other.profile.dims = FullDims /\ \E dims \in {d \in DerivedDims : d < FullDims} :
                                                  q = DerivedProfile(other.profile, dims)
  BY DEF KnownProfiles
<1>8. p.name = one.profile.name /\ q.name = other.profile.name
  BY <1>1, <1>6, <1>7, DerivedProfileIs
<1>9. one.profile = other.profile
  BY <1>2, <1>3, <1>8
<1>10. ASSUME one.profile.dims = FullDims, NEW dims \in {d \in DerivedDims : d < FullDims},
              NEW derived, derived = DerivedProfile(one.profile, dims)
       PROVE  derived.dims = dims /\ derived.dims # one.profile.dims
  BY <1>1, <1>5, <1>10, DerivedProfileIs
<1>11. QED
  BY <1>3, <1>6, <1>7, <1>9, <1>10

\* The plan is for one of the corpora and a known profile, and its tasks read
\* the corpus.
PlanReads(plan) ==
    LET corpus == CorpusOf(plan)
    IN  /\ corpus \in Corpora /\ corpus.id = plan.prepared
        /\ plan.profile \in KnownProfiles
        /\ TasksRead(plan, corpus)

(* A plan that is built and found exact cuts its corpus into tasks, each   *)
(* as long as the limits allow.                                            *)
LEMMA BuiltCutsCorpus ==
    ASSUME NEW request \in Requests, NEW plan,
           LET built == BuildPlan(request.corpus, request.profile, request.tokenizer,
                                  request.file, request.limits)
           IN  built.ok /\ plan = built.value,
           PlanIsExact(plan, request.corpus, request.file)
    PROVE  CutsCorpus(plan) /\ PlanReads(plan)
<1> DEFINE corpus == request.corpus
           limits == request.limits
           rows == Documents(corpus)
           counted == TokenCounts(request.profile, request.tokenizer, rows, limits.tokens)
           counts == counted.value
           tasks == plan.tasks
           T == UNION {Range(object) : object \in Range(corpus.documents)}
<1>1. /\ corpus \in Corpora /\ limits.tokens \in Nat /\ limits.documents \in Nat
      /\ \A row \in Range(rows) :
            Tokens[request.tokenizer.artifact][FormatInput(request.profile, row)] \in Nat
  BY RequestsAssumption
<1>2. corpus.documents \in Seq(Seq(T))
  BY <1>1, CorporaAssumption
<1> HIDE DEF T
<1>3. Len(rows) \in Nat /\ DOMAIN rows = 1 .. Len(rows)
  <2>1. rows \in Seq(T)
    BY <1>2, FlattenTyped DEF Documents
  <2>2. QED
    BY <2>1, LenProperties
<1>4. \A k \in 1 .. Len(rows) :
         Tokens[request.tokenizer.artifact][FormatInput(request.profile, rows[k])] \in Nat
  <2>1. \A k \in 1 .. Len(rows) : rows[k] \in Range(rows)
    BY <1>3 DEF Range
  <2>2. QED
    BY <1>1, <2>1
<1>5. /\ counted.ok /\ TaskRanges(counts, limits).ok
      /\ plan = PlanOf(corpus, request.profile, request.tokenizer, limits, counts,
                       TaskRanges(counts, limits).value)
  BY BuiltFrom
<1>6. counts \in Seq(Nat)
  BY <1>3, <1>4, <1>5, CountsAreNumbers
<1> HIDE DEF counted, rows, counts
<1>7. /\ plan.limits = limits /\ Len(tasks) \in Nat /\ DOMAIN tasks = 1 .. Len(tasks)
      /\ \A k \in 1 .. Len(tasks) :
            /\ tasks[k].start \in Nat /\ tasks[k].end \in tasks[k].start .. Len(counts)
            /\ tasks[k].end = TaskEnd(counts, tasks[k].start, limits)
            /\ tasks[k].slices = BuildSlices(corpus, counts, tasks[k].start, tasks[k].end)
            /\ tasks[k].counts = Slice(counts, tasks[k].start, tasks[k].end)
  <2> HIDE DEF corpus, limits
  <2>1. TasksAreCut(plan, corpus, counts, limits)
    BY <1>5, <1>6, TasksBuilt
  <2>2. QED
    BY <2>1 DEF TasksAreCut
<1>8. Len(counts) \in Nat /\ \A k \in 1 .. Len(counts) : counts[k] \in Nat
  BY <1>6, LenProperties, ElementOfSeq
<1> HIDE DEF corpus, limits
<1>9. PlanBinds(plan, corpus)
  BY DEF PlanIsExact, corpus
<1>10. CorpusOf(plan) = corpus
  <2>1. plan.prepared = corpus.id
    BY <1>9 DEF PlanBinds
  <2>2. \A other \in Corpora : other.id = plan.prepared => other = corpus
    BY <1>1, <2>1, CorporaAssumption
  <2>3. QED
    BY <1>1, <2>1, <2>2 DEF CorpusOf
<1>11. /\ TasksRead(plan, corpus)
       /\ FlattenSeq(MapSeq(LAMBDA task : TaskRows(corpus, task), tasks)) = Documents(corpus)
  <2>1. \A k \in 1 .. Len(plan.tasks) :
              LET task == plan.tasks[k]
              IN  /\ task.start \in Nat /\ task.end \in Nat
                  /\ task.slices = BuildSlices(corpus, counts, task.start, task.end)
    BY <1>7, <1>8
  <2>2. TasksRead(plan, corpus)
    BY <1>2, <1>7, <1>9, <2>1, TasksReadDocuments DEF corpus
  <2>3. QED
    BY <1>2, <1>9, <2>2, TasksSelectDocuments DEF corpus
<1>12. \A k \in 1 .. Len(tasks) : /\ tasks[k].start = (IF k = 1 THEN 0 ELSE tasks[k - 1].end)
                                  /\ tasks[k].start < tasks[k].end
  BY <1>9 DEF PlanBinds, ValidPlan, TasksCover
<1>13. ASSUME NEW k \in 1 .. Len(tasks)
       PROVE  /\ RowCount(tasks[k]) <= limits.documents
              /\ TokenCount(tasks[k]) <= limits.tokens
              /\ RowCount(tasks[k]) \in Int /\ TokenCount(tasks[k]) \in Int
              /\ RowCount(tasks[k]) = tasks[k].end - tasks[k].start
  <2>1. TaskValid(plan, tasks[k])
    BY <1>7, <1>9 DEF PlanBinds, ValidPlan, Range
  <2>2. RowCount(tasks[k]) = tasks[k].end - tasks[k].start
    BY DEF RowCount
  <2>3. RowCount(tasks[k]) \in Int
    <3>1. tasks[k].start \in Nat /\ tasks[k].end \in tasks[k].start .. Len(counts)
      BY <1>7
    <3> HIDE DEF tasks
    <3>2. QED
      BY <1>8, <2>2, <3>1
  <2>4. TokenCount(tasks[k]) \in RowCount(tasks[k]) .. limits.tokens
    BY <1>7, <2>1 DEF TaskValid
  <2>5. RowCount(tasks[k]) <= limits.documents
    BY <1>7, <2>1 DEF TaskValid
  <2>6. limits.tokens \in Nat
    BY <1>1 DEF limits
  <2> HIDE DEF tasks
  <2>7. QED
    BY <2>2, <2>3, <2>4, <2>5, <2>6
<1>14. ASSUME NEW k \in 1 .. Len(tasks), k < Len(tasks)
       PROVE  \/ RowCount(tasks[k]) = limits.documents
              \/ TokenCount(tasks[k]) + tasks[k + 1].counts[1] > limits.tokens
  <2> DEFINE start == tasks[k].start
             end == tasks[k].end
             later == tasks[k + 1].end
  <2>1. k + 1 \in 1 .. Len(tasks) /\ k + 1 # 1 /\ (k + 1) - 1 = k
    BY <1>7, <1>14
  <2>2. tasks[k + 1].start = end /\ end < later
    BY <1>12, <2>1
  <2>3. start \in Nat /\ end \in start .. Len(counts) /\ later \in end .. Len(counts)
    BY <1>7, <2>1, <2>2
  <2>4. end = TaskEnd(counts, start, limits) /\ tasks[k].counts = Slice(counts, start, end)
        /\ tasks[k + 1].counts = Slice(counts, end, later)
    BY <1>7, <2>1, <2>2
  <2>5. TokenCount(tasks[k]) = SumOf(Slice(counts, start, end))
    BY <2>4 DEF TokenCount
  <2>6. tasks[k + 1].counts[1] = counts[end + 1]
    <3> DEFINE part == tasks[k + 1].counts
    <3>1. part = SubSeq(counts, end + 1, later)
      BY <2>4 DEF Slice
    <3> HIDE DEF part, end, later
    <3>2. /\ end \in Nat /\ later \in Nat /\ end <= later /\ later <= Len(counts)
          /\ 1 \in 1 .. later - end
      BY <1>8, <2>2, <2>3
    <3>3. SubSeq(counts, end + 1, later)[1] = counts[end + 1]
      BY <1>6, <3>2, PieceOf DEF counts
    <3>4. QED
      BY <3>1, <3>3 DEF part
  <2>7. counts[end + 1] \in Nat /\ end < Len(counts)
    <3> HIDE DEF end, later
    <3>1. end + 1 \in 1 .. Len(counts) /\ end < Len(counts)
      BY <1>8, <2>2, <2>3
    <3>2. QED
      BY <1>8, <3>1
  <2>8. ~ Fits(SumOf(Slice(counts, start, end)), counts[end + 1], end - start, limits)
    <3>1. start \in 0 .. Len(counts)
      BY <1>8, <2>3
    <3>2. QED
      BY <1>8, <2>4, <2>7, <3>1, EndIsMaximal
  <2>9. ~ (/\ end - start < limits.documents
           /\ TokenCount(tasks[k]) + counts[end + 1] <= limits.tokens)
    BY <2>5, <2>8 DEF Fits
  <2> DEFINE rows_taken == RowCount(tasks[k])
             taken == TokenCount(tasks[k])
             next == counts[end + 1]
  <2>10. /\ rows_taken = end - start /\ rows_taken \in Int /\ taken \in Int /\ next \in Nat
         /\ rows_taken <= limits.documents /\ limits.documents \in Nat /\ limits.tokens \in Nat
    BY <1>1, <1>13, <2>7 DEF limits
  <2>11. ~ (rows_taken < limits.documents /\ taken + next <= limits.tokens)
    BY <2>9, <2>10
  <2>12. tasks[k + 1].counts[1] = next
    BY <2>6
  <2> HIDE DEF rows_taken, taken, next, start, end, later
  <2>13. rows_taken = limits.documents \/ taken + next > limits.tokens
    BY <2>10, <2>11
  <2>14. QED
    BY <2>12, <2>13 DEF rows_taken, taken
<1>15. FlattenSeq([k \in 1 .. Len(tasks) |-> TaskRows(corpus, tasks[k])]) = Documents(corpus)
  BY <1>11 DEF MapSeq
<1>16. CutsCorpus(plan)
  BY <1>7, <1>10, <1>13, <1>14, <1>15 DEF CutsCorpus, MapSeq
<1>17. plan.prepared = corpus.id
  BY <1>9 DEF PlanBinds
<1>18. plan.profile \in KnownProfiles
  <2>1. plan.profile = request.profile
    BY <1>5 DEF PlanOf
  <2>2. QED
    BY <2>1 DEF KnownProfiles
<1>19. PlanReads(plan)
  BY <1>1, <1>10, <1>11, <1>17, <1>18 DEF PlanReads, corpus
<1>20. QED
  BY <1>16, <1>19

-----------------------------------------------------------------------------
(* The files of results directories.                                       *)

ModelVectors(profile, rows) == [i \in 1 .. Len(rows) |-> ModelVector(profile, rows[i])]

TestVectors(profile, rows) == [i \in 1 .. Len(rows) |-> TestVector(profile, rows[i])]

\* The rows a receipt is for, in the corpus it names.
ReceiptRows(receipt, corpus) ==
    SubSeq(Documents(corpus), receipt.task.start + 1, receipt.task.end)

\* A receipt holds what the profile it names gives to the rows it is for.
Genuine(receipt) ==
    \E corpus \in Corpora, profile \in KnownProfiles :
        /\ receipt.plan[1] = corpus.id /\ receipt.plan[2] = ProfileDigest(profile)
        /\ TestOnly(receipt) =>
              receipt.vector.vectors = TestVectors(profile, ReceiptRows(receipt, corpus))
        /\ ~ TestOnly(receipt) =>
              receipt.vector.vectors = ModelVectors(profile, ReceiptRows(receipt, corpus))

\* Every receipt is genuine, wherever it lies.
ReceiptsGood(files) ==
    /\ files = [path \in DOMAIN files |-> files[path]]
    /\ \A path \in DOMAIN files : path.kind = "receipt" => Genuine(files[path])

ResultsGood(results) ==
    /\ results = [files |-> results.files, profile |-> results.profile,
                  summary |-> results.summary, manifest |-> results.manifest]
    /\ ReceiptsGood(results.files)

(* A directory that receives the files of tasks, with genuine receipts,    *)
(* keeps only genuine ones.                                                *)
LEMMA WithTasksKeeps ==
    ASSUME NEW files, ReceiptsGood(files), NEW plan, NEW content,
           \A k \in DOMAIN content : Genuine(content[k].receipt)
    PROVE  ReceiptsGood(WithTasks(files, plan, content))
<1> DEFINE ks == DOMAIN content
           index(id) == CHOOSE k \in ks : TaskId(plan, plan.tasks[k]) = id
           written == {FilePath(kind, TaskId(plan, plan.tasks[k])) : kind \in FileKinds, k \in ks}
           after == WithTasks(files, plan, content)
<1>1. after = [path \in written \union DOMAIN files |->
                  IF path \in written THEN content[index(path.task)][path.kind] ELSE files[path]]
  BY DEF WithTasks
<1> HIDE DEF after
<1>2. ASSUME NEW path \in DOMAIN after, path.kind = "receipt"
      PROVE  Genuine(after[path])
  <2>1. CASE path \in written
    <3>1. PICK kind \in FileKinds, k \in ks : path = FilePath(kind, TaskId(plan, plan.tasks[k]))
      BY <2>1
    <3>2. path.task = TaskId(plan, plan.tasks[k])
      BY <3>1 DEF FilePath
    <3>3. index(path.task) \in ks
      BY <3>2
    <3> HIDE DEF index, written
    <3>4. after[path] = content[index(path.task)].receipt
      BY <1>1, <1>2, <2>1
    <3>5. QED
      BY <3>3, <3>4
  <2>2. CASE path \notin written
    <3> HIDE DEF index, written
    <3>1. path \in DOMAIN files /\ after[path] = files[path]
      BY <1>1, <2>2
    <3>2. QED
      BY <1>2, <3>1 DEF ReceiptsGood
  <2>3. QED
    BY <2>1, <2>2
<1>3. after = [path \in DOMAIN after |-> after[path]]
  <2> HIDE DEF index, written
  <2>1. QED
    BY <1>1
<1>4. QED
  BY <1>2, <1>3 DEF ReceiptsGood, after

(* A copied receipt takes its place beside genuine ones.                   *)
LEMMA CopyKeeps ==
    ASSUME NEW files, ReceiptsGood(files), NEW to \in DOMAIN files,
           NEW others, ReceiptsGood(others), NEW from \in DOMAIN others, from.kind = to.kind
    PROVE  ReceiptsGood([files EXCEPT ![to] = others[from]])
<1> DEFINE after == [files EXCEPT ![to] = others[from]]
<1>1. /\ after = [path \in DOMAIN files |-> after[path]]
      /\ \A path \in DOMAIN files : after[path] = IF path = to THEN others[from] ELSE files[path]
  BY DEF ReceiptsGood
<1>2. DOMAIN after = DOMAIN files
  OBVIOUS
<1> HIDE DEF after
<1>3. \A path \in DOMAIN after : path.kind = "receipt" => Genuine(after[path])
  BY <1>1, <1>2 DEF ReceiptsGood
<1>4. QED
  BY <1>1, <1>2, <1>3 DEF ReceiptsGood, after

(* A receipt written for a task is genuine when its part is.               *)
LEMMA WrittenGenuine ==
    ASSUME NEW plan, PlanReads(plan), NEW k \in 1 .. Len(plan.tasks), NEW part, NEW executor,
           NEW derivation,
           LET rows == TaskRows(CorpusOf(plan), plan.tasks[k])
           IN  /\ executor.implementation = TestExecutor =>
                     part.vectors = TestVectors(plan.profile, rows)
               /\ executor.implementation # TestExecutor =>
                     part.vectors = ModelVectors(plan.profile, rows)
    PROVE  Genuine(ReceiptOf(plan, plan.tasks[k], part, executor, derivation))
<1> DEFINE corpus == CorpusOf(plan)
           task == plan.tasks[k]
           receipt == ReceiptOf(plan, task, part, executor, derivation)
           rows == TaskRows(corpus, task)
<1>1. /\ receipt.vector = part /\ receipt.executor = executor
      /\ receipt.plan = PlanDigest(plan) /\ receipt.task = TaskId(plan, task)
  BY DEF ReceiptOf
<1>2. receipt.task.start = task.start /\ receipt.task.end = task.end
  BY <1>1 DEF TaskId
<1>3. receipt.plan[1] = plan.prepared /\ receipt.plan[2] = ProfileDigest(plan.profile)
  BY <1>1 DEF PlanDigest
<1>4. TestOnly(receipt) <=> executor.implementation = TestExecutor
  BY <1>1 DEF TestOnly
<1>5. /\ corpus \in Corpora /\ corpus.id = plan.prepared /\ plan.profile \in KnownProfiles
      /\ rows = SubSeq(Documents(corpus), task.start + 1, task.end)
  BY DEF PlanReads, TasksRead
<1>6. /\ executor.implementation = TestExecutor => part.vectors = TestVectors(plan.profile, rows)
      /\ executor.implementation # TestExecutor => part.vectors = ModelVectors(plan.profile, rows)
  OBVIOUS
<1> HIDE DEF receipt, corpus, task, rows
<1>7. ReceiptRows(receipt, corpus) = rows
  BY <1>2, <1>5 DEF ReceiptRows
<1>8. QED
  BY <1>1, <1>3, <1>4, <1>5, <1>6, <1>7 DEF Genuine, receipt, task

(* An empty directory holds no receipt.                                    *)
LEMMA EmptyGood == ResultsGood(EmptyResults) /\ EmptyResults.files = [p \in {} |-> None]
<1>1. ReceiptsGood([p \in {} |-> None])
  BY DEF ReceiptsGood
<1>2. EmptyResults = [files |-> [p \in {} |-> None], profile |-> None, summary |-> None,
                      manifest |-> None]
  BY DEF EmptyResults
<1>3. QED
  BY <1>1, <1>2 DEF ResultsGood

(* A directory may receive other files ...                                 *)
LEMMA FilesChanged ==
    ASSUME NEW results, ResultsGood(results), NEW files, ReceiptsGood(files)
    PROVE  ResultsGood([results EXCEPT !.files = files])
<1> DEFINE after == [results EXCEPT !.files = files]
<1>1. after = [files |-> files, profile |-> results.profile,
               summary |-> results.summary, manifest |-> results.manifest]
  BY DEF ResultsGood
<1> HIDE DEF after
<1>2. QED
  BY <1>1 DEF ResultsGood, after

(* ... or another profile, summary or manifest.                            *)
LEMMA ResultsChanged ==
    ASSUME NEW results, ResultsGood(results), NEW x
    PROVE  /\ ResultsGood([results EXCEPT !.profile = x])
           /\ ResultsGood([results EXCEPT !.summary = x])
           /\ ResultsGood([results EXCEPT !.manifest = x])
<1>1. /\ results = [files |-> results.files, profile |-> results.profile,
                    summary |-> results.summary, manifest |-> results.manifest]
      /\ ReceiptsGood(results.files)
  BY DEF ResultsGood
<1>2. /\ [results EXCEPT !.profile = x]
            = [files |-> results.files, profile |-> x,
               summary |-> results.summary, manifest |-> results.manifest]
      /\ [results EXCEPT !.summary = x]
            = [files |-> results.files, profile |-> results.profile,
               summary |-> x, manifest |-> results.manifest]
      /\ [results EXCEPT !.manifest = x]
            = [files |-> results.files, profile |-> results.profile,
               summary |-> results.summary, manifest |-> x]
  BY <1>1
<1>3. \A f, p, s, m : ReceiptsGood(f) =>
         ResultsGood([files |-> f, profile |-> p, summary |-> s, manifest |-> m])
  BY DEF ResultsGood
<1>4. QED
  BY <1>1, <1>2, <1>3

(* What an execution of a model writes is genuine.                         *)
LEMMA EmbeddedGenuine ==
    ASSUME NEW plan, PlanReads(plan), NEW k \in 1 .. Len(plan.tasks),
           NEW execution, execution.provenance.worker_binary # TestExecutor
    PROVE  Genuine(Embedded(plan, execution, k).receipt)
<1> DEFINE rows == TaskRows(CorpusOf(plan), plan.tasks[k])
           part == PartOf(plan.tasks[k], plan.profile,
                          MapSeq(LAMBDA row : ModelVector(plan.profile, row), rows))
           executor == ModelExecutor(execution, plan.profile)
<1>1. Embedded(plan, execution, k).receipt = ReceiptOf(plan, plan.tasks[k], part, executor, None)
  BY DEF Embedded, TaskFiles
<1>2. part.vectors = ModelVectors(plan.profile, rows)
  BY DEF PartOf, MapSeq, ModelVectors
<1>3. executor.implementation # TestExecutor
  BY DEF ModelExecutor
<1> HIDE DEF part, executor
<1>4. QED
  BY <1>1, <1>2, <1>3, WrittenGenuine

(* Finalizing leaves the files alone.                                      *)
LEMMA FinalizedKeeps ==
    ASSUME NEW results, ResultsGood(results), NEW plan, NEW corpus, NEW profile
    PROVE  ResultsGood(Finalized(results, plan, corpus, profile).results)
<1> DEFINE finalized == Finalized(results, plan, corpus, profile)
           copied == [results EXCEPT !.profile = profile]
           set == SetOf(results, plan)
           summary == RunSummary(plan, set.receipts, ReportsIn(results, plan), plan.counts)
           summarized == [copied EXCEPT !.summary = summary.value]
           complete == [summarized EXCEPT !.manifest = set]
<1>1. finalized.results \in {results, copied, summarized, complete}
  BY DEF Finalized
<1> HIDE DEF finalized, set, summary
<1>2. ResultsGood(copied)
  BY ResultsChanged
<1> HIDE DEF copied
<1>3. ResultsGood(summarized)
  BY <1>2, ResultsChanged
<1> HIDE DEF summarized
<1>4. ResultsGood(complete)
  BY <1>3, ResultsChanged
<1>5. QED
  BY <1>1, <1>2, <1>3, <1>4 DEF finalized

(* Test vectors are marked as such.                                        *)
LEMMA TestResultsGood ==
    ASSUME NEW plan, PlanReads(plan)
    PROVE  ResultsGood(TestResults(plan, CorpusOf(plan)))
<1> DEFINE part(k) == PartOf(plan.tasks[k], plan.profile,
                             MapSeq(LAMBDA row : TestVector(plan.profile, row),
                                    TaskRows(CorpusOf(plan), plan.tasks[k])))
           executor == LocalExecutor(TestExecutor, plan.profile)
           content == [k \in 1 .. Len(plan.tasks) |->
                          TaskFiles(plan, k, part(k), executor, None, 1,
                                    [worker_binary |-> TestExecutor], None, None)]
           files == WithTasks(EmptyResults.files, plan, content)
<1>1. TestResults(plan, CorpusOf(plan)) = [EmptyResults EXCEPT !.files = files]
  BY EmptyGood DEF TestResults, EmptyResults
<1>2. ASSUME NEW k \in DOMAIN content
      PROVE  Genuine(content[k].receipt)
  <2>1. k \in 1 .. Len(plan.tasks)
    OBVIOUS
  <2>2. content[k].receipt = ReceiptOf(plan, plan.tasks[k], part(k), executor, None)
    BY DEF TaskFiles
  <2>3. part(k).vectors = TestVectors(plan.profile, TaskRows(CorpusOf(plan), plan.tasks[k]))
    BY DEF PartOf, MapSeq, TestVectors
  <2>4. executor.implementation = TestExecutor
    BY DEF LocalExecutor
  <2> HIDE DEF part, executor, content
  <2>5. QED
    BY <2>1, <2>2, <2>3, <2>4, WrittenGenuine
<1> HIDE DEF content
<1>3. ReceiptsGood(files)
  BY <1>2, EmptyGood, WithTasksKeeps DEF ResultsGood
<1> HIDE DEF files
<1>4. QED
  BY <1>1, <1>3, EmptyGood, FilesChanged

(* In an admitted directory the receipt of a task holds what the plan's    *)
(* profile gives to the task's rows, and the part holds the same.          *)
LEMMA ReceiptOfTask ==
    ASSUME NEW results, ResultsGood(results), NEW plan, PlanReads(plan),
           NEW prepared, NEW profile, Complete(results, plan, prepared, profile),
           ResultSetValid(results.manifest, plan, ReceiptsIn(results, plan)),
           NEW k \in 1 .. Len(plan.tasks)
    PROVE  LET receipt == ReceiptsIn(results, plan)[k]
               rows == TaskRows(CorpusOf(plan), plan.tasks[k])
           IN  /\ TestOnly(receipt) = results.manifest.test_only
               /\ TestOnly(receipt) =>
                     receipt.vector.vectors = TestVectors(plan.profile, rows)
               /\ ~ TestOnly(receipt) =>
                     receipt.vector.vectors = ModelVectors(plan.profile, rows)
               /\ results.files[FilePath("part", TaskId(plan, plan.tasks[k]))].vectors
                     = receipt.vector.vectors
<1> DEFINE task == plan.tasks[k]
           id == TaskId(plan, task)
           path == FilePath("receipt", id)
           receipt == results.files[path]
           part == results.files[FilePath("part", id)]
           corpus == CorpusOf(plan)
           rows == TaskRows(corpus, task)
<1>1. ReceiptsIn(results, plan)[k] = receipt
  <2>1. Len(plan.tasks) \in Nat
    BY DEF PlanReads, TasksRead
  <2>2. TaskIds(plan) = [i \in 1 .. Len(plan.tasks) |-> TaskId(plan, plan.tasks[i])]
    BY DEF TaskIds, MapSeq
  <2>3. Len(TaskIds(plan)) = Len(plan.tasks) /\ TaskIds(plan)[k] = id
    BY <2>1, <2>2
  <2> HIDE DEF id
  <2>4. ReceiptsIn(results, plan)
          = [i \in 1 .. Len(plan.tasks) |-> results.files[FilePath("receipt", TaskIds(plan)[i])]]
    BY <2>3 DEF ReceiptsIn, MapSeq
  <2>5. QED
    BY <2>3, <2>4
<1>2. /\ path \in DOMAIN results.files
      /\ ReceiptValid(receipt, plan)
      /\ PartVerified(part, task, profile, receipt.vector)
  <2>1. TaskComplete(results, k, plan, prepared, profile)
    BY DEF Complete
  <2>2. QED
    BY <2>1 DEF TaskComplete, FileKinds
<1>3. receipt.task = id /\ TestOnly(receipt) = results.manifest.test_only
  BY <1>1 DEF ResultSetValid
<1>4. receipt.plan = PlanDigest(plan)
  BY <1>2 DEF ReceiptValid
<1>5. part.vectors = receipt.vector.vectors
  BY <1>2 DEF PartVerified
<1>6. Genuine(receipt)
  <2>1. path.kind = "receipt"
    BY DEF FilePath
  <2> HIDE DEF path
  <2>2. QED
    BY <1>2, <2>1 DEF ResultsGood, ReceiptsGood
<1>7. receipt.task.start = task.start /\ receipt.task.end = task.end
  BY <1>3 DEF TaskId
<1>8. receipt.plan[1] = plan.prepared /\ receipt.plan[2] = ProfileDigest(plan.profile)
  BY <1>4 DEF PlanDigest
<1>9. /\ corpus \in Corpora /\ corpus.id = plan.prepared /\ plan.profile \in KnownProfiles
      /\ rows = SubSeq(Documents(corpus), task.start + 1, task.end)
  BY DEF PlanReads, TasksRead
<1> HIDE DEF receipt, part, task, corpus, rows, id, path
<1>10. PICK other \in Corpora, named \in KnownProfiles :
          /\ receipt.plan[1] = other.id /\ receipt.plan[2] = ProfileDigest(named)
          /\ TestOnly(receipt) =>
                receipt.vector.vectors = TestVectors(named, ReceiptRows(receipt, other))
          /\ ~ TestOnly(receipt) =>
                receipt.vector.vectors = ModelVectors(named, ReceiptRows(receipt, other))
  BY <1>6 DEF Genuine
<1>11. other = corpus
  BY <1>8, <1>9, <1>10, CorporaAssumption
<1>12. named = plan.profile
  BY <1>8, <1>9, <1>10, DigestNamesProfile
<1>13. ReceiptRows(receipt, corpus) = rows
  BY <1>7, <1>9 DEF ReceiptRows
<1>14. QED
  BY <1>1, <1>3, <1>5, <1>10, <1>11, <1>12, <1>13 DEF receipt, part, task, corpus, rows, id, path

(* Corpora are sequences of rows, and so is what a task reads.             *)
LEMMA RowsListed ==
    ASSUME NEW plan, PlanReads(plan)
    PROVE  /\ \E T : Documents(CorpusOf(plan)) \in Seq(T)
           /\ Len(Documents(CorpusOf(plan))) \in Nat
           /\ \A k \in 1 .. Len(plan.tasks) :
                 LET rows == TaskRows(CorpusOf(plan), plan.tasks[k])
                 IN  /\ Len(rows) = plan.tasks[k].end - plan.tasks[k].start /\ Len(rows) \in Nat
                     /\ \A i \in 1 .. Len(rows) :
                           rows[i] = Documents(CorpusOf(plan))[plan.tasks[k].start + i]
<1> DEFINE corpus == CorpusOf(plan)
           whole == Documents(corpus)
           T == UNION {Range(object) : object \in Range(corpus.documents)}
<1>1. corpus.documents \in Seq(Seq(T))
  BY CorporaAssumption DEF PlanReads
<1> HIDE DEF T
<1>2. whole \in Seq(T) /\ Len(whole) \in Nat
  BY <1>1, FlattenTyped DEF Documents
<1>3. ASSUME NEW k \in 1 .. Len(plan.tasks)
      PROVE  LET rows == TaskRows(corpus, plan.tasks[k])
             IN  /\ Len(rows) = plan.tasks[k].end - plan.tasks[k].start /\ Len(rows) \in Nat
                 /\ \A i \in 1 .. Len(rows) : rows[i] = whole[plan.tasks[k].start + i]
  <2> DEFINE start == plan.tasks[k].start
             end == plan.tasks[k].end
             rows == TaskRows(corpus, plan.tasks[k])
  <2>1. /\ start \in Nat /\ end \in Nat /\ start <= end /\ end <= Len(whole)
        /\ rows = SubSeq(whole, start + 1, end)
    BY DEF PlanReads, TasksRead
  <2> HIDE DEF start, end, rows, whole
  <2>2. Len(rows) = end - start /\ \A i \in 1 .. end - start : rows[i] = whole[start + i]
    BY <1>2, <2>1, PieceOf
  <2>3. end - start \in Nat
    BY <2>1
  <2>4. QED
    BY <2>2, <2>3 DEF start, end, rows
<1>4. QED
  BY <1>2, <1>3

(* Model vectors, cut to fewer dimensions, are those of the derived        *)
(* profile.                                                                *)
LEMMA ReducedAreModelVectors ==
    ASSUME NEW p, ProfileShape(p), NEW dims, NEW rows, Len(rows) \in Nat
    PROVE  LET q == DerivedProfile(p, dims)
               vectors == ModelVectors(p, rows)
           IN  [i \in 1 .. Len(vectors) |-> ReducedVector(vectors[i], q.dims)]
                 = ModelVectors(q, rows)
<1> DEFINE q == DerivedProfile(p, dims)
           vectors == ModelVectors(p, rows)
<1>1. vectors = [i \in 1 .. Len(rows) |-> ModelVector(p, rows[i])]
  BY DEF ModelVectors
<1> HIDE DEF vectors
<1>2. Len(vectors) = Len(rows)
  BY <1>1
<1>3. q.model = p.model /\ q.format = p.format
  BY DerivedProfileIs
<1> HIDE DEF q
<1>4. \A row : ReducedVector(ModelVector(p, row), q.dims) = ModelVector(q, row)
  <2> TAKE row
  <2> DEFINE v == ModelVector(p, row)
  <2>1. v = [by |-> p.model, dims |-> p.dims, input |-> FormatInput(p, row)]
    BY DEF ModelVector
  <2>2. FormatInput(p, row) = FormatInput(q, row)
    BY <1>3 DEF FormatInput
  <2> HIDE DEF v
  <2>3. ReducedVector(v, q.dims) = [by |-> p.model, dims |-> q.dims, input |-> FormatInput(p, row)]
    BY <2>1 DEF ReducedVector
  <2>4. QED
    BY <1>3, <2>2, <2>3 DEF ModelVector, v
<1>5. [i \in 1 .. Len(vectors) |-> ReducedVector(vectors[i], q.dims)] = ModelVectors(q, rows)
  BY <1>1, <1>2, <1>4 DEF ModelVectors
<1>6. QED
  BY <1>5 DEF q, vectors

(* What is derived from an admitted directory of model vectors is genuine. *)
LEMMA DerivedResultsGood ==
    ASSUME NEW results, ResultsGood(results), NEW source, PlanReads(source),
           NEW prepared, NEW profile, Complete(results, source, prepared, profile),
           ResultSetValid(results.manifest, source, ReceiptsIn(results, source)),
           ~ results.manifest.test_only, ProfileShape(source.profile), NEW dims,
           NEW plan, PlanReads(plan), plan.tasks = source.tasks,
           plan.prepared = source.prepared,
           plan.profile = DerivedProfile(source.profile, dims)
    PROVE  ResultsGood(DerivedResults(results, source, plan))
<1> DEFINE set == results.manifest
           part(k) == PartOf(plan.tasks[k], plan.profile,
                             MapSeq(LAMBDA v : ReducedVector(v, plan.profile.dims),
                                    ReceiptsIn(results, source)[k].vector.vectors))
           derivation == [parent_set |-> set, parent_dims |-> source.profile.dims]
           executor == LocalExecutor(DerivedExecutor, plan.profile)
           content == [k \in 1 .. Len(plan.tasks) |->
                          TaskFiles(plan, k, part(k), executor, derivation, 1,
                                    [worker_binary |-> DerivedExecutor], None, None)]
           files == WithTasks(EmptyResults.files, plan, content)
           staged == [EmptyResults EXCEPT !.files = WithTasks(@, plan, content),
                                          !.profile = plan.profile]
           receipts == ReceiptsIn(staged, plan)
           summary == RunSummary(plan, receipts, ReportsIn(staged, plan), plan.counts)
           manifest == ResultSetOf(plan, receipts, derivation, FALSE)
           total == IF summary.ok THEN summary.value ELSE None
<1>1. DerivedResults(results, source, plan)
        = [staged EXCEPT !.manifest = manifest, !.summary = total]
  BY DEF DerivedResults
<1>2. CorpusOf(plan) = CorpusOf(source)
  BY DEF CorpusOf
<1>3. ASSUME NEW k \in DOMAIN content
      PROVE  Genuine(content[k].receipt)
  <2> DEFINE rows == TaskRows(CorpusOf(plan), plan.tasks[k])
             receipt == ReceiptsIn(results, source)[k]
  <2>1. k \in 1 .. Len(plan.tasks) /\ k \in 1 .. Len(source.tasks)
    OBVIOUS
  <2>2. content[k].receipt = ReceiptOf(plan, plan.tasks[k], part(k), executor, derivation)
    BY DEF TaskFiles
  <2>3. receipt.vector.vectors = ModelVectors(source.profile, rows)
    BY <1>2, <2>1, ReceiptOfTask
  <2>4. Len(rows) \in Nat
    BY <2>1, RowsListed
  <2>5. part(k).vectors
          = [i \in 1 .. Len(receipt.vector.vectors) |->
                ReducedVector(receipt.vector.vectors[i], plan.profile.dims)]
    BY DEF PartOf, MapSeq
  <2> HIDE DEF receipt, rows
  <2>6. part(k).vectors = ModelVectors(plan.profile, rows)
    BY <2>3, <2>4, <2>5, ReducedAreModelVectors
  <2>7. executor.implementation # TestExecutor
    BY DEF LocalExecutor, DerivedExecutor, TestExecutor
  <2> HIDE DEF part, executor, content, derivation
  <2>8. QED
    BY <2>1, <2>2, <2>6, <2>7, WrittenGenuine DEF rows
<1> HIDE DEF content
<1>4. ReceiptsGood(files)
  BY <1>3, EmptyGood, WithTasksKeeps DEF ResultsGood
<1> HIDE DEF manifest, total
<1>5. [staged EXCEPT !.manifest = manifest, !.summary = total]
        = [files |-> files, profile |-> plan.profile, summary |-> total, manifest |-> manifest]
  <2> DEFINE before == EmptyResults
  <2>1. before = [files |-> before.files, profile |-> None, summary |-> None, manifest |-> None]
    BY DEF EmptyResults
  <2>2. staged = [before EXCEPT !.files = files, !.profile = plan.profile]
    BY <2>1
  <2> HIDE DEF files, staged, before
  <2>3. staged = [x \in {"files", "profile", "summary", "manifest"} |->
                     IF x = "profile" THEN plan.profile
                     ELSE IF x = "files" THEN files ELSE before[x]]
    BY <2>1, <2>2
  <2>4. staged = [files |-> files, profile |-> plan.profile, summary |-> None, manifest |-> None]
    BY <2>1, <2>3
  <2>5. [staged EXCEPT !.manifest = manifest, !.summary = total]
          = [x \in {"files", "profile", "summary", "manifest"} |->
                IF x = "summary" THEN total
                ELSE IF x = "manifest" THEN manifest ELSE staged[x]]
    BY <2>4
  <2>6. QED
    BY <2>4, <2>5
<1> HIDE DEF files, staged
<1>6. QED
  BY <1>1, <1>4, <1>5 DEF ResultsGood

-----------------------------------------------------------------------------
(* The commands.                                                           *)

\* The fields a plan is written with.
PlanShape(plan) ==
    plan = [prepared |-> plan.prepared, profile |-> plan.profile, tokenizer |-> plan.tokenizer,
            limits |-> plan.limits, document_count |-> plan.document_count,
            document_order |-> plan.document_order, counts |-> plan.counts,
            statistics |-> plan.statistics, tasks |-> plan.tasks]

PlanGood(plan) == plan = None \/ (PlanShape(plan) /\ CutsCorpus(plan) /\ PlanReads(plan))

AreaGood(value) ==
    /\ value = [plan |-> value.plan, results |-> value.results]
    /\ PlanGood(value.plan) /\ ResultsGood(value.results)

\* Every area holds no plan or one that cuts its corpus, and genuine receipts.
AreasInv ==
    /\ area = [a \in Areas |-> area[a]]
    /\ \A a \in Areas : AreaGood(area[a])

(* A derived plan has the tasks of the plan it is derived from.            *)
LEMMA DerivedCutsCorpus ==
    ASSUME NEW plan, PlanShape(plan), CutsCorpus(plan), PlanReads(plan),
           NEW profile \in KnownProfiles, DerivedPlan(plan, profile).ok
    PROVE  LET derived == DerivedPlan(plan, profile).value
           IN  /\ PlanShape(derived) /\ CutsCorpus(derived) /\ PlanReads(derived)
               /\ derived.tasks = plan.tasks /\ derived.prepared = plan.prepared
               /\ derived.profile = profile
<1> DEFINE derived == DerivedPlan(plan, profile)
           changed == [plan EXCEPT !.profile = profile]
<1>1. (\E reason : derived = Err(reason)) \/ derived = Ok(changed)
  BY DEF DerivedPlan
<1> HIDE DEF derived, changed
<1>2. derived = Ok(changed)
  BY <1>1, ErrFails DEF derived
<1>3. derived.value = changed
  BY <1>2 DEF Ok
<1>4. changed = [prepared |-> plan.prepared, profile |-> profile, tokenizer |-> plan.tokenizer,
                 limits |-> plan.limits, document_count |-> plan.document_count,
                 document_order |-> plan.document_order, counts |-> plan.counts,
                 statistics |-> plan.statistics, tasks |-> plan.tasks]
  BY DEF PlanShape, changed
<1>5. /\ PlanShape(changed)
      /\ changed.prepared = plan.prepared /\ changed.limits = plan.limits
      /\ changed.tasks = plan.tasks /\ changed.profile = profile
  BY <1>4 DEF PlanShape
<1>6. CutsCorpus(changed) /\ CorpusOf(changed) = CorpusOf(plan)
  BY <1>5 DEF CutsCorpus, CorpusOf
<1>7. PlanReads(changed)
  BY <1>5, <1>6 DEF PlanReads, TasksRead
<1>8. QED
  BY <1>3, <1>5, <1>6, <1>7 DEF derived

(* An area may be set to a good plan and good results.                     *)
LEMMA SetAreaKeeps ==
    ASSUME AreasInv, NEW a \in Areas, NEW value, SetArea(a, value), AreaGood(value)
    PROVE  AreasInv'
<1>1. area' = [area EXCEPT ![a] = value] /\ area = [x \in Areas |-> area[x]]
  BY DEF SetArea, AreasInv
<1>2. /\ area' = [x \in Areas |-> area'[x]]
      /\ \A x \in Areas : area'[x] = IF x = a THEN value ELSE area[x]
  BY <1>1
<1>3. \A x \in Areas : AreaGood(area'[x])
  BY <1>2 DEF AreasInv
<1>4. QED
  BY <1>2, <1>3 DEF AreasInv

(* An area may receive a good plan ...                                     *)
LEMMA PlanChanged ==
    ASSUME NEW value, AreaGood(value), NEW plan, PlanGood(plan)
    PROVE  AreaGood([value EXCEPT !.plan = plan])
<1> DEFINE after == [value EXCEPT !.plan = plan]
<1>1. after = [plan |-> plan, results |-> value.results]
  BY DEF AreaGood
<1> HIDE DEF after
<1>2. QED
  BY <1>1 DEF AreaGood, after

(* ... or good results.                                                    *)
LEMMA SetResultsKeeps ==
    ASSUME AreasInv, NEW a \in Areas, NEW results, SetResults(a, results), ResultsGood(results)
    PROVE  AreasInv'
<1> DEFINE value == [area[a] EXCEPT !.results = results]
<1>1. AreaGood(area[a])
  BY DEF AreasInv
<1>2. value = [plan |-> area[a].plan, results |-> results]
  BY <1>1 DEF AreaGood
<1>3. SetArea(a, value)
  BY DEF SetResults
<1> HIDE DEF value
<1>4. AreaGood(value)
  BY <1>1, <1>2 DEF AreaGood
<1>5. QED
  BY <1>3, <1>4, SetAreaKeeps

(* What is unchanged stays.                                                *)
LEMMA AreasKept ==
    ASSUME AreasInv, area' = area
    PROVE  AreasInv'
  BY DEF AreasInv

(* A published plan was built from the request and found exact.            *)
LEMMA PublishKeeps ==
    ASSUME AreasInv, NEW a \in Areas, NEW request \in Requests, PublishPlan(a, request)
    PROVE  AreasInv'
<1> DEFINE built == BuildPlan(request.corpus, request.profile, request.tokenizer,
                              request.file, request.limits)
           plan == built.value
           value == [area[a] EXCEPT !.plan = plan]
<1>1. \/ built.ok /\ PlanIsExact(plan, request.corpus, request.file) /\ SetArea(a, value)
      \/ Refuse
  BY DEF PublishPlan
<1>2. CASE Refuse
  BY <1>2, AreasKept DEF Refuse
<1>3. CASE built.ok /\ PlanIsExact(plan, request.corpus, request.file) /\ SetArea(a, value)
  <2>1. CutsCorpus(plan) /\ PlanReads(plan)
    BY <1>3, BuiltCutsCorpus
  <2>2. PlanShape(plan)
    <3>1. \E counts, ranges : plan = PlanOf(request.corpus, request.profile, request.tokenizer,
                                            request.limits, counts, ranges)
      BY <1>3, BuiltFrom
    <3> HIDE DEF plan
    <3>2. QED
      BY <3>1 DEF PlanOf, PlanShape
  <2>3. AreaGood(area[a])
    BY DEF AreasInv
  <2> HIDE DEF plan
  <2>4. PlanGood(plan)
    BY <2>1, <2>2 DEF PlanGood
  <2>5. AreaGood(value)
    BY <2>3, <2>4, PlanChanged
  <2> HIDE DEF value, built
  <2>6. QED
    BY <1>3, <2>5, SetAreaKeeps
<1>4. QED
  BY <1>1, <1>2, <1>3

(* Embedding writes what the plan's profile gives to the plan's rows.      *)
LEMMA EmbedKeeps ==
    ASSUME AreasInv, NEW a \in Areas, NEW execution \in Executions, Embed(a, execution)
    PROVE  AreasInv'
<1> DEFINE plan == area[a].plan
           results == area[a].results
           content == [k \in PendingTasks(a) |-> Embedded(plan, execution, k)]
           files == WithTasks(results.files, plan, content)
           after == [results EXCEPT !.files = files]
<1>1. ResultsGood(results) /\ ReceiptsGood(results.files) /\ PlanGood(plan)
  BY DEF AreasInv, AreaGood, ResultsGood
<1>2. plan # None
  BY DEF Embed
<1>3. PlanReads(plan)
  BY <1>1, <1>2 DEF PlanGood
<1>4. SetResults(a, after)
  <2>1. [results EXCEPT !.files = WithTasks(@, plan, content)] = after
    BY <1>1 DEF ResultsGood
  <2> HIDE DEF after
  <2>2. QED
    BY <2>1 DEF Embed
<1>5. ASSUME NEW k \in DOMAIN content
      PROVE  Genuine(content[k].receipt)
  <2>1. /\ k \in 1 .. Len(plan.tasks) /\ content[k] = Embedded(plan, execution, k)
        /\ execution.provenance.worker_binary # TestExecutor
    BY DEF PendingTasks, Embed
  <2> HIDE DEF content, plan
  <2>2. QED
    BY <1>3, <2>1, EmbeddedGenuine
<1> HIDE DEF content, results
<1>6. ReceiptsGood(files)
  BY <1>1, <1>5, WithTasksKeeps
<1> HIDE DEF files
<1>7. ResultsGood(after)
  BY <1>1, <1>6, FilesChanged
<1> HIDE DEF after
<1>8. QED
  BY <1>4, <1>7, SetResultsKeeps

(* Test vectors are for the plan's own corpus.                             *)
LEMMA TestEmbedKeeps ==
    ASSUME AreasInv, NEW a \in Areas, NEW corpus \in Corpora, NEW profile,
           TestEmbed(a, corpus, profile)
    PROVE  AreasInv'
<1> DEFINE plan == area[a].plan
           results == TestResults(plan, corpus)
           finalized == Finalized(results, plan, corpus, profile)
<1>1. \/ InputsBind(plan, corpus, profile) /\ SetResults(a, finalized.results)
      \/ Refuse
  BY DEF TestEmbed
<1>2. CASE Refuse
  BY <1>2, AreasKept DEF Refuse
<1>3. CASE InputsBind(plan, corpus, profile) /\ SetResults(a, finalized.results)
  <2>1. plan # None /\ PlanGood(plan)
    BY DEF TestEmbed, AreasInv, AreaGood
  <2>2. PlanReads(plan)
    BY <2>1 DEF PlanGood
  <2>3. corpus = CorpusOf(plan)
    BY <1>3, <2>2, CorporaAssumption DEF InputsBind, PlanBinds, PlanReads
  <2>4. ResultsGood(results)
    BY <2>2, <2>3, TestResultsGood
  <2> HIDE DEF results
  <2>5. ResultsGood(finalized.results)
    BY <2>4, FinalizedKeeps
  <2> HIDE DEF finalized
  <2>6. QED
    BY <1>3, <2>5, SetResultsKeeps
<1>4. QED
  BY <1>1, <1>2, <1>3

(* Deriving keeps the cut and cuts the vectors.                            *)
LEMMA DeriveKeeps ==
    ASSUME AreasInv, NEW a \in Areas, NEW b \in Areas, NEW corpus \in Corpora, NEW profile,
           NEW dims \in DerivedDims, DeriveEmbeddings(a, b, corpus, profile, dims)
    PROVE  AreasInv'
<1> DEFINE source == area[a].plan
           results == area[a].results
           smaller == DerivedProfile(profile, dims)
           plan == DerivedPlan(source, smaller)
           derived == DerivedResults(results, source, plan.value)
           value == [plan |-> plan.value, results |-> derived]
<1>1. \/ /\ profile.dims = FullDims
         /\ InputsBind(source, corpus, profile)
         /\ Complete(results, source, corpus, profile)
         /\ ResultSetValid(results.manifest, source, ReceiptsIn(results, source))
         /\ ~ results.manifest.test_only
         /\ plan.ok
         /\ SetArea(b, value)
      \/ Refuse
  BY DEF DeriveEmbeddings
<1>2. CASE Refuse
  BY <1>2, AreasKept DEF Refuse
<1>3. CASE ~ Refuse
  <2>1. PlanShape(source) /\ CutsCorpus(source) /\ PlanReads(source) /\ ResultsGood(results)
    <3>1. source # None /\ PlanGood(source) /\ ResultsGood(results)
      BY DEF DeriveEmbeddings, AreasInv, AreaGood
    <3>2. QED
      BY <3>1 DEF PlanGood
  <2>2. profile = source.profile /\ profile.dims = FullDims
    BY <1>1, <1>3 DEF InputsBind, ProfileBinds
  <2>3. \E request \in Requests : profile = request.profile
    <3>1. source.profile \in KnownProfiles
      BY <2>1 DEF PlanReads
    <3>2. ASSUME NEW request \in Requests, NEW d \in {x \in DerivedDims : x < FullDims},
                 profile = DerivedProfile(request.profile, d)
          PROVE  FALSE
      <4>1. ProfileShape(request.profile)
        BY RequestsAssumption DEF ProfileShape
      <4>2. profile.dims = d
        BY <3>2, <4>1, DerivedProfileIs
      <4>3. FullDims \in Nat /\ FullDims < FullDims
        BY <2>2, <4>2, PipelineAssumption
      <4>4. QED
        BY <4>3
    <3>3. QED
      BY <2>2, <3>1, <3>2 DEF KnownProfiles
  <2>4. ProfileShape(source.profile)
    BY <2>2, <2>3, RequestsAssumption DEF ProfileShape
  <2>5. smaller \in KnownProfiles
    <3>1. (\E reason : plan = Err(reason)) \/ source.profile.dims > smaller.dims
      BY DEF DerivedPlan
    <3>2. smaller.dims = dims
      BY <2>2, <2>4, DerivedProfileIs
    <3> HIDE DEF plan, smaller, source
    <3>3. source.profile.dims > smaller.dims
      BY <1>1, <1>3, <3>1, ErrFails
    <3>4. dims < FullDims
      BY <2>2, <3>2, <3>3, PipelineAssumption
    <3>5. QED
      BY <2>2, <2>3, <3>4 DEF KnownProfiles, smaller
  <2>6. smaller = DerivedProfile(source.profile, dims)
    BY <2>2
  <2> HIDE DEF smaller, source
  <2>7. /\ PlanShape(plan.value) /\ CutsCorpus(plan.value) /\ PlanReads(plan.value)
        /\ plan.value.tasks = source.tasks /\ plan.value.prepared = source.prepared
        /\ plan.value.profile = smaller
    BY <1>1, <1>3, <2>1, <2>5, DerivedCutsCorpus
  <2> HIDE DEF plan, results
  <2>8. ResultsGood(derived)
    BY <1>1, <1>3, <2>1, <2>4, <2>6, <2>7, DerivedResultsGood
  <2> HIDE DEF derived
  <2>9. AreaGood(value)
    BY <2>7, <2>8 DEF AreaGood, PlanGood
  <2> HIDE DEF value
  <2>10. QED
    BY <1>1, <1>3, <2>9, SetAreaKeeps
<1>4. QED
  BY <1>2, <1>3

(* Copying a file by hand moves genuine receipts.                          *)
LEMMA CopyAnyKeeps ==
    ASSUME AreasInv, CopyAny
    PROVE  AreasInv'
<1>1. PICK a \in Areas, b \in Areas :
              \E from \in DOMAIN area[b].results.files :
                 \E to \in DOMAIN area[a].results.files :
                    to.kind = from.kind /\ CopyFile(a, b, from, to)
  BY DEF CopyAny
<1>2. PICK from \in DOMAIN area[b].results.files, to \in DOMAIN area[a].results.files :
              to.kind = from.kind /\ CopyFile(a, b, from, to)
  BY <1>1
<1> DEFINE old == area[a]
           results == old.results
           others == area[b].results.files
           files == [results.files EXCEPT ![to] = others[from]]
           after == [results EXCEPT !.files = files]
           value == [old EXCEPT !.results = after]
<1>3. area = [x \in Areas |-> area[x]] /\ AreaGood(old) /\ AreaGood(area[b])
  BY DEF AreasInv
<1>4. /\ PlanGood(old.plan) /\ ResultsGood(results) /\ ReceiptsGood(results.files)
      /\ ReceiptsGood(others) /\ old = [plan |-> old.plan, results |-> results]
  BY <1>3 DEF AreaGood, ResultsGood
<1>5. area' = [area EXCEPT ![a].results.files[to] = others[from]]
  BY <1>2 DEF CopyFile
<1>6. area' = [area EXCEPT ![a] = value]
  BY <1>5
<1>7. from \in DOMAIN others /\ to \in DOMAIN results.files /\ from.kind = to.kind
  BY <1>2
<1> HIDE DEF results, others
<1>8. ReceiptsGood(files)
  BY <1>4, <1>7, CopyKeeps
<1> HIDE DEF files
<1>9. ResultsGood(after)
  BY <1>4, <1>8, FilesChanged
<1> HIDE DEF after, old
<1>10. value = [plan |-> old.plan, results |-> after]
  BY <1>4
<1> HIDE DEF value
<1>11. AreaGood(value)
  BY <1>4, <1>9, <1>10 DEF AreaGood
<1>12. /\ area' = [x \in Areas |-> area'[x]]
       /\ \A x \in Areas : area'[x] = IF x = a THEN value ELSE area[x]
  BY <1>3, <1>6
<1>13. \A x \in Areas : AreaGood(area'[x])
  BY <1>11, <1>12 DEF AreasInv
<1>14. QED
  BY <1>12, <1>13 DEF AreasInv

(* Every command keeps the areas good.                                     *)
LEMMA AreasInvStep == AreasInv /\ [PipelineNext]_pipeline_vars => AreasInv'
<1> SUFFICES ASSUME AreasInv, [PipelineNext]_pipeline_vars PROVE AreasInv'
  OBVIOUS
<1>1. ASSUME NEW a \in Areas, NEW request \in Requests,
             PlanEmbeddings(a, request) \/ PlanEmbeddingsTei(a, request)
      PROVE  AreasInv'
  <2>1. PublishPlan(a, request) \/ Refuse
    BY <1>1 DEF PlanEmbeddings, PlanEmbeddingsTei
  <2>2. QED
    BY <2>1, PublishKeeps, AreasKept DEF Refuse
<1>2. ASSUME NEW a \in Areas, NEW execution \in Executions, Embed(a, execution)
      PROVE  AreasInv'
  BY <1>2, EmbedKeeps
<1>3. ASSUME NEW a \in Areas, NEW b \in Areas, NEW corpus \in Corpora, NEW profile,
             FinalizeEmbeddings(a, b, corpus, profile)
      PROVE  AreasInv'
  <2> DEFINE finalized == Finalized(area[a].results, area[b].plan, corpus, profile)
  <2>1. SetResults(a, finalized.results)
    BY <1>3 DEF FinalizeEmbeddings
  <2>2. ResultsGood(area[a].results)
    BY DEF AreasInv, AreaGood
  <2>3. ResultsGood(finalized.results)
    BY <2>2, FinalizedKeeps
  <2> HIDE DEF finalized
  <2>4. QED
    BY <2>1, <2>3, SetResultsKeeps
<1>4. ASSUME NEW a \in Areas, NEW corpus \in Corpora, NEW profile, TestEmbed(a, corpus, profile)
      PROVE  AreasInv'
  BY <1>4, TestEmbedKeeps
<1>5. ASSUME NEW a \in Areas, NEW b \in Areas, NEW corpus \in Corpora, NEW profile,
             NEW dims \in DerivedDims, DeriveEmbeddings(a, b, corpus, profile, dims)
      PROVE  AreasInv'
  BY <1>5, DeriveKeeps
<1>6. ASSUME NEW a \in Areas, NEW b \in Areas, NEW corpus \in Corpora, NEW profile,
             Assemble(a, b, corpus, profile)
      PROVE  AreasInv'
  <2>1. area' = area
    BY <1>6 DEF Assemble, Publishes, Refuse
  <2>2. QED
    BY <2>1, AreasKept
<1>7. ASSUME NEW a \in Areas, NEW corpus \in Corpora, NEW workers \in WorkerCounts,
             BundleBuild(a, corpus, workers)
      PROVE  AreasInv'
  <2>1. area' = area
    BY <1>7 DEF BundleBuild, Publishes
  <2>2. QED
    BY <2>1, AreasKept
<1>8. ASSUME CopyAny
      PROVE  AreasInv'
  BY <1>8, CopyAnyKeeps
<1>9. CASE UNCHANGED pipeline_vars
  BY <1>9, AreasKept DEF pipeline_vars
<1>10. QED
  BY <1>1, <1>2, <1>3, <1>4, <1>5, <1>6, <1>7, <1>8, <1>9 DEF PipelineNext

(* An area starts empty.                                                   *)
LEMMA AreasInvInit == PipelineInit => AreasInv
<1> SUFFICES ASSUME PipelineInit PROVE AreasInv
  OBVIOUS
<1>1. area = [a \in Areas |-> EmptyArea]
  BY DEF PipelineInit
<1>2. AreaGood(EmptyArea)
  BY EmptyGood DEF EmptyArea, AreaGood, PlanGood
<1>3. QED
  BY <1>1, <1>2 DEF AreasInv

(* The tasks of every plan, in whatever order commands are run and         *)
(* whatever corpora, requests and limits they are given, are the corpus    *)
(* cut into consecutive pieces that obey both limits and could not have    *)
(* been longer (token_plan.rs build_token_balanced_plan_with_counts,       *)
(* derive_embedding_plan_v2).                                              *)
THEOREM TasksCutCorpora == PipelineSpec => []TasksPartitionCorpus
<1>1. AreasInv => TasksPartitionCorpus
  <2>1. AreasInv => \A plan \in Plans : CutsCorpus(plan)
    BY DEF AreasInv, AreaGood, PlanGood, Plans
  <2>2. QED
    BY <2>1 DEF TasksPartitionCorpus, CutsCorpus
<1>2. QED
  BY <1>1, AreasInvInit, AreasInvStep, PTL DEF PipelineSpec

-----------------------------------------------------------------------------
(* The index.                                                              *)

\* What an index should hold of the rows.
ExpectedOf(index, rows) == [i \in 1 .. Len(rows) |-> ExpectedVector(index, rows[i])]

(* The part of a task, in an admitted directory, is the piece of the       *)
(* vectors expected of the whole corpus that the task names.               *)
LEMMA PartIsPiece ==
    ASSUME NEW results, ResultsGood(results), NEW plan, PlanReads(plan),
           NEW prepared, NEW profile, Complete(results, plan, prepared, profile),
           ResultSetValid(results.manifest, plan, ReceiptsIn(results, plan)),
           NEW index, index.test_only = results.manifest.test_only,
           index.profile = plan.profile,
           NEW whole, whole = ExpectedOf(index, Documents(CorpusOf(plan))),
           NEW k \in 1 .. Len(plan.tasks)
    PROVE  results.files[FilePath("part", TaskId(plan, plan.tasks[k]))].vectors
             = SubSeq(whole, plan.tasks[k].start + 1, plan.tasks[k].end)
<1> DEFINE documents == Documents(CorpusOf(plan))
           W == {whole[i] : i \in 1 .. Len(documents)}
           start == plan.tasks[k].start
           end == plan.tasks[k].end
           rows == TaskRows(CorpusOf(plan), plan.tasks[k])
           receipt == ReceiptsIn(results, plan)[k]
           vectors == results.files[FilePath("part", TaskId(plan, plan.tasks[k]))].vectors
           piece == SubSeq(whole, start + 1, end)
<1>1. /\ Len(documents) \in Nat /\ Len(rows) = end - start /\ Len(rows) \in Nat
      /\ \A i \in 1 .. Len(rows) : rows[i] = documents[start + i]
  BY RowsListed
<1>2. start \in Nat /\ end \in Nat /\ start <= end /\ end <= Len(documents)
  BY DEF PlanReads, TasksRead
<1>3. /\ TestOnly(receipt) = index.test_only
      /\ TestOnly(receipt) => vectors = TestVectors(index.profile, rows)
      /\ ~ TestOnly(receipt) => vectors = ModelVectors(index.profile, rows)
  BY ReceiptOfTask
<1>4. whole = [i \in 1 .. Len(documents) |-> ExpectedVector(index, documents[i])]
  BY DEF ExpectedOf
<1> HIDE DEF documents, start, end, rows, receipt, vectors
<1>5. vectors = [i \in 1 .. Len(rows) |-> ExpectedVector(index, rows[i])]
  <2>1. CASE TestOnly(receipt)
    <3>1. \A row : ExpectedVector(index, row) = TestVector(index.profile, row)
      BY <1>3, <2>1 DEF ExpectedVector
    <3>2. QED
      BY <1>3, <2>1, <3>1 DEF TestVectors
  <2>2. CASE ~ TestOnly(receipt)
    <3>1. \A row : ExpectedVector(index, row) = ModelVector(index.profile, row)
      BY <1>3, <2>2 DEF ExpectedVector
    <3>2. QED
      BY <1>3, <2>2, <3>1 DEF ModelVectors
  <2>3. QED
    BY <2>1, <2>2
<1>6. whole \in Seq(W) /\ Len(whole) = Len(documents)
  <2>1. \A i \in 1 .. Len(documents) : whole[i] \in W
    OBVIOUS
  <2> HIDE DEF W
  <2>2. whole \in [1 .. Len(documents) -> W]
    BY <1>4, <2>1
  <2>3. QED
    BY <1>1, <2>2, SeqDef, LenProperties
<1> HIDE DEF W
<1>7. /\ piece \in Seq(W) /\ Len(piece) = end - start
      /\ \A i \in 1 .. end - start : piece[i] = whole[start + i]
  BY <1>2, <1>6, PieceOf
<1> HIDE DEF piece
<1>8. ASSUME NEW i \in 1 .. Len(rows)
      PROVE  vectors[i] = piece[i]
  <2>1. start + i \in 1 .. Len(documents) /\ i \in 1 .. end - start
    BY <1>1, <1>2
  <2>2. piece[i] = ExpectedVector(index, rows[i])
    BY <1>1, <1>4, <1>7, <2>1
  <2>3. QED
    BY <1>5, <2>2
<1>9. piece = [i \in 1 .. Len(rows) |-> piece[i]]
  BY <1>1, <1>7, LenProperties
<1>10. vectors = piece
  BY <1>5, <1>8, <1>9
<1>11. QED
  BY <1>10 DEF vectors, piece, start, end

(* What is assembled from an admitted directory holds its corpus.          *)
LEMMA AssembledExact ==
    ASSUME NEW results, ResultsGood(results), NEW plan, PlanReads(plan),
           NEW corpus \in Corpora, NEW profile, ResultsAdmitted(results, plan, corpus, profile)
    PROVE  LET index == IndexOf(results, plan, corpus)
           IN  /\ index.corpus = corpus.id /\ index.documents = Documents(corpus)
               /\ index.vectors
                     = MapSeq(LAMBDA row : ExpectedVector(index, row), index.documents)
<1> DEFINE index == IndexOf(results, plan, corpus)
           documents == Documents(corpus)
           whole == [i \in 1 .. Len(documents) |-> ExpectedVector(index, documents[i])]
           W == {whole[i] : i \in 1 .. Len(documents)}
           part(id) == results.files[FilePath("part", id)].vectors
           seqs == [k \in 1 .. Len(plan.tasks) |-> part(TaskId(plan, plan.tasks[k]))]
<1>1. /\ PlanBinds(plan, corpus)
      /\ Complete(results, plan, corpus, profile)
      /\ ResultSetValid(results.manifest, plan, ReceiptsIn(results, plan))
  BY DEF ResultsAdmitted, InputsBind
<1>2. corpus = CorpusOf(plan)
  BY <1>1, CorporaAssumption DEF PlanBinds, PlanReads
<1>3. /\ index.corpus = corpus.id /\ index.documents = documents
      /\ index.profile = plan.profile /\ index.test_only = results.manifest.test_only
      /\ index.vectors = FlattenSeq(MapSeq(LAMBDA id : part(id), TaskIds(plan)))
  BY DEF IndexOf
<1> HIDE DEF index
<1>4. MapSeq(LAMBDA id : part(id), TaskIds(plan)) = seqs
  <2>1. Len(plan.tasks) \in Nat
    BY DEF PlanReads, TasksRead
  <2>2. TaskIds(plan) = [k \in 1 .. Len(plan.tasks) |-> TaskId(plan, plan.tasks[k])]
    BY DEF TaskIds, MapSeq
  <2>3. Len(TaskIds(plan)) = Len(plan.tasks)
    BY <2>1, <2>2
  <2> HIDE DEF part
  <2>4. MapSeq(LAMBDA id : part(id), TaskIds(plan))
          = [k \in 1 .. Len(TaskIds(plan)) |-> part(TaskIds(plan)[k])]
    BY DEF MapSeq
  <2>5. QED
    BY <2>2, <2>3, <2>4
<1>5. seqs = TaskPieces(plan, whole)
  <2>1. whole = ExpectedOf(index, Documents(CorpusOf(plan)))
    BY <1>2 DEF ExpectedOf
  <2> HIDE DEF whole
  <2>2. ASSUME NEW k \in 1 .. Len(plan.tasks)
        PROVE  part(TaskId(plan, plan.tasks[k]))
                 = SubSeq(whole, plan.tasks[k].start + 1, plan.tasks[k].end)
    <3>1. results.files[FilePath("part", TaskId(plan, plan.tasks[k]))].vectors
             = SubSeq(whole, plan.tasks[k].start + 1, plan.tasks[k].end)
      BY <1>1, <1>3, <2>1, PartIsPiece
    <3>2. QED
      BY <3>1
  <2> HIDE DEF part
  <2>3. QED
    BY <2>2 DEF TaskPieces
<1>6. Len(documents) \in Nat
  BY <1>2, RowsListed
<1>7. whole \in Seq(W) /\ Len(whole) = Len(documents)
  <2>1. \A i \in 1 .. Len(documents) : whole[i] \in W
    OBVIOUS
  <2>2. whole = [i \in 1 .. Len(documents) |-> whole[i]]
    OBVIOUS
  <2> HIDE DEF W, whole, documents
  <2>3. whole \in [1 .. Len(documents) -> W]
    BY <2>1, <2>2
  <2>4. QED
    BY <1>6, <2>3, SeqDef, LenProperties
<1>8. TasksRead(plan, corpus)
  BY <1>2 DEF PlanReads
<1> HIDE DEF W, seqs
<1>9. FlattenSeq(seqs) = whole
  <2> HIDE DEF whole
  <2>1. QED
    BY <1>1, <1>5, <1>7, <1>8, TaskPiecesFlatten
<1>10. MapSeq(LAMBDA row : ExpectedVector(index, row), documents) = whole
  BY DEF MapSeq
<1> HIDE DEF whole, documents, part
<1>11. QED
  BY <1>3, <1>4, <1>9, <1>10 DEF index, documents

(* Nothing but assemble publishes an index.                                *)
LEMMA AssembleStep == AreasInv /\ [PipelineNext]_pipeline_vars /\ IndexHoldsItsCorpus
                         => IndexHoldsItsCorpus'
<1> SUFFICES ASSUME AreasInv, [PipelineNext]_pipeline_vars, IndexHoldsItsCorpus
             PROVE  IndexHoldsItsCorpus'
  OBVIOUS
<1>1. ASSUME product' = None
      PROVE  IndexHoldsItsCorpus'
  BY <1>1 DEF IndexHoldsItsCorpus
<1>2. ASSUME NEW a \in Areas, NEW b \in Areas, NEW corpus \in Corpora, NEW profile,
             Assemble(a, b, corpus, profile)
      PROVE  IndexHoldsItsCorpus'
  <2> DEFINE plan == area[b].plan
             results == area[a].results
             index == IndexOf(results, plan, corpus)
  <2>1. \/ ResultsAdmitted(results, plan, corpus, profile) /\ Publishes("index", index)
        \/ Refuse
    BY <1>2 DEF Assemble
  <2>2. CASE Refuse
    BY <1>1, <2>2 DEF Refuse
  <2>3. CASE ResultsAdmitted(results, plan, corpus, profile) /\ Publishes("index", index)
    <3>1. plan # None /\ PlanGood(plan) /\ ResultsGood(results)
      BY <1>2 DEF Assemble, AreasInv, AreaGood
    <3>2. PlanReads(plan)
      BY <3>1 DEF PlanGood
    <3> HIDE DEF plan, results
    <3>3. /\ index.corpus = corpus.id /\ index.documents = Documents(corpus)
          /\ index.vectors = MapSeq(LAMBDA row : ExpectedVector(index, row), index.documents)
      BY <2>3, <3>1, <3>2, AssembledExact
    <3>4. product' = [kind |-> "index", value |-> index]
      BY <2>3 DEF Publishes
    <3> HIDE DEF index
    <3>5. product'.value = index
      BY <3>4
    <3>6. QED
      BY <3>3, <3>5 DEF IndexHoldsItsCorpus, MapSeq
  <2>4. QED
    BY <2>1, <2>2, <2>3
<1>3. ASSUME NEW a \in Areas, NEW corpus \in Corpora, NEW workers \in WorkerCounts,
             BundleBuild(a, corpus, workers)
      PROVE  IndexHoldsItsCorpus'
  <2>1. product'.kind \in {"bundle", "refusal"}
    BY <1>3 DEF BundleBuild, Publishes
  <2>2. QED
    BY <2>1 DEF IndexHoldsItsCorpus
<1>4. CASE UNCHANGED pipeline_vars
  BY <1>4 DEF pipeline_vars, IndexHoldsItsCorpus, MapSeq
<1>5. ASSUME NEW a \in Areas, NEW request \in Requests,
             PlanEmbeddings(a, request) \/ PlanEmbeddingsTei(a, request)
      PROVE  product' = None
  BY <1>5 DEF PlanEmbeddings, PlanEmbeddingsTei, PublishPlan, Refuse, SetArea
<1>6. ASSUME NEW a \in Areas, NEW execution \in Executions, Embed(a, execution)
      PROVE  product' = None
  BY <1>6 DEF Embed, SetResults, SetArea
<1>7. ASSUME NEW a \in Areas, NEW b \in Areas, NEW corpus \in Corpora, NEW profile,
             FinalizeEmbeddings(a, b, corpus, profile)
      PROVE  product' = None
  BY <1>7 DEF FinalizeEmbeddings, SetResults, SetArea
<1>8. ASSUME NEW a \in Areas, NEW corpus \in Corpora, NEW profile, TestEmbed(a, corpus, profile)
      PROVE  product' = None
  BY <1>8 DEF TestEmbed, SetResults, SetArea, Refuse
<1>9. ASSUME NEW a \in Areas, NEW b \in Areas, NEW corpus \in Corpora, NEW profile,
             NEW dims \in DerivedDims, DeriveEmbeddings(a, b, corpus, profile, dims)
      PROVE  product' = None
  BY <1>9 DEF DeriveEmbeddings, SetArea, Refuse
<1>10. ASSUME CopyAny
       PROVE  product' = None
  BY <1>10 DEF CopyAny, CopyFile
<1>11. QED
  BY <1>1, <1>2, <1>3, <1>4, <1>5, <1>6, <1>7, <1>8, <1>9, <1>10 DEF PipelineNext

(* An assembled index holds, for every document of one corpus and in its   *)
(* order, the vector that the index's own profile gives to that document,  *)
(* and is marked test-only exactly when no model produced the vectors,     *)
(* whatever directories were given together and however many files were    *)
(* copied by hand (portable.rs assemble, embed, derive_embeddings,         *)
(* finalize_embeddings).                                                   *)
THEOREM IndexesExact == PipelineSpec => []IndexHoldsItsCorpus
<1>1. PipelineInit => IndexHoldsItsCorpus
  BY DEF PipelineInit, IndexHoldsItsCorpus
<1>2. QED
  BY <1>1, AreasInvInit, AreasInvStep, AssembleStep, PTL DEF PipelineSpec
=============================================================================
