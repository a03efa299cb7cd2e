----------------------------- MODULE RankProofs -----------------------------
(***************************************************************************)
(* Lemmas on ranks of positions: in a finite set K of positions, the rank  *)
(* maps K one-to-one and in order onto 1..|K|, so NthOf(K, r) is the one  *)
(* position of rank r.  path.Clean keeps the characters at the kept       *)
(* positions by rank (Url), and the directory query lists an identity's   *)
(* logged adds by rank (Executor).                                         *)
(***************************************************************************)
EXTENDS Ranks, FiniteSetTheorems, Functions, TLAPS

(* The positions of K up to i. *)
Below(K, i) == {j \in K : j <= i}

(* The rank of a position of K lies in 1..|K|. *)
LEMMA RankRange ==
  ASSUME NEW K \in SUBSET Nat, IsFiniteSet(K), NEW i \in K
  PROVE  Rank(K, i) \in 1..Cardinality(K)
<1>0. Below(K, i) \in SUBSET K /\ i \in Below(K, i)
  BY DEF Below
<1>1. Cardinality(K) \in Nat
  BY FS_CardinalityType
<1>2. IsFiniteSet(Below(K, i)) /\ Cardinality(Below(K, i)) <= Cardinality(K)
  BY <1>0, FS_Subset
<1>3. Cardinality(Below(K, i)) \in Nat
  BY <1>2, FS_CardinalityType
<1>4. Cardinality(Below(K, i)) # 0
  BY <1>0, <1>2, FS_EmptySet
<1>. QED
  BY <1>1, <1>2, <1>3, <1>4 DEF Rank, Below

(* The rank grows with the position. *)
LEMMA RankMono ==
  ASSUME NEW K \in SUBSET Nat, IsFiniteSet(K), NEW i \in K, NEW i2 \in K, i < i2
  PROVE  Rank(K, i) < Rank(K, i2)
<1>1. Below(K, i) \subseteq Below(K, i2)
  <2> SUFFICES ASSUME NEW j \in Below(K, i) PROVE j \in Below(K, i2)
    OBVIOUS
  <2>1. j \in K /\ j <= i
    BY DEF Below
  <2>. QED
    BY <2>1 DEF Below
<1>2. i2 \in Below(K, i2) /\ i2 \notin Below(K, i)
  BY DEF Below
<1>3. Below(K, i) \subseteq Below(K, i2) /\ Below(K, i) # Below(K, i2)
  BY <1>1, <1>2, Zenon
<1>4. IsFiniteSet(Below(K, i2)) /\ Below(K, i2) \in SUBSET K
  BY FS_Subset DEF Below
<1>5. Cardinality(Below(K, i)) <= Cardinality(Below(K, i2))
      /\ (Cardinality(Below(K, i2)) = Cardinality(Below(K, i)) => Below(K, i2) = Below(K, i))
  BY <1>3, <1>4, FS_Subset
<1>6. Cardinality(Below(K, i)) \in Nat /\ Cardinality(Below(K, i2)) \in Nat
  BY <1>3, <1>4, FS_Subset, FS_CardinalityType
<1>. QED
  BY <1>3, <1>5, <1>6 DEF Rank, Below

(* Two distinct positions of K have distinct ranks. *)
LEMMA RankInjective ==
  ASSUME NEW K \in SUBSET Nat, IsFiniteSet(K), NEW i \in K, NEW i2 \in K, i # i2
  PROVE  Rank(K, i) # Rank(K, i2)
<1>1. Rank(K, i) \in 1..Cardinality(K)
  BY RankRange
<1>2. Rank(K, i2) \in 1..Cardinality(K)
  BY RankRange
<1>3. CASE i < i2
  <2>1. Rank(K, i) < Rank(K, i2)
    BY <1>3, RankMono
  <2>. QED
    BY <1>1, <1>2, <2>1
<1>4. CASE i2 < i
  <2>1. Rank(K, i2) < Rank(K, i)
    BY <1>4, RankMono
  <2>. QED
    BY <1>1, <1>2, <2>1
<1>. QED
  BY <1>3, <1>4

(* Every rank 1..|K| is the rank of a position of K. *)
LEMMA RankSurjective ==
  ASSUME NEW K \in SUBSET Nat, IsFiniteSet(K), NEW k \in 1..Cardinality(K)
  PROVE  \E i \in K : Rank(K, i) = k
<1>1. Cardinality(K) \in Nat
  BY FS_CardinalityType
<1> DEFINE g == [i \in K |-> Rank(K, i)]
<1>2. g \in Injection(K, 1..Cardinality(K))
  <2>1. g \in [K -> 1..Cardinality(K)]
    BY RankRange
  <2>2. \A i, i2 \in K : g[i] = g[i2] => i = i2
    BY RankInjective
  <2>. QED
    BY <2>1, <2>2 DEF Injection, IsInjective
<1>3. Cardinality(1..Cardinality(K)) = Cardinality(K) /\ IsFiniteSet(1..Cardinality(K))
  BY <1>1, FS_Interval
<1>4. g \in Surjection(K, 1..Cardinality(K))
  BY <1>2, <1>3, FS_Injection
<1>. QED
  BY <1>4 DEF Surjection

(* In a set K of positions, every rank 1..|K| is the rank of some position *)
(* (the number of positions of K up to it).                               *)
LEMMA RankOnto ==
  ASSUME NEW n \in Nat, NEW K \in SUBSET (1..n), NEW k \in 1..Cardinality(K)
  PROVE  \E i \in K : Cardinality({j \in K : j <= i}) = k
<1>1. IsFiniteSet(1..n)
  BY FS_Interval
<1>2. IsFiniteSet(K)
  BY <1>1, FS_Subset
<1>. QED
  BY <1>2, RankSurjective DEF Rank

(* NthOf(K, r) is a position of K of rank r. *)
LEMMA NthOfRank ==
  ASSUME NEW K \in SUBSET Nat, IsFiniteSet(K), NEW r \in 1..Cardinality(K)
  PROVE  NthOf(K, r) \in K /\ Rank(K, NthOf(K, r)) = r
<1>1. \E i \in K : Rank(K, i) = r
  BY RankSurjective
<1>. QED
  BY <1>1 DEF NthOf

(* The position of K of rank Rank(K, k) is k. *)
LEMMA NthOfUnique ==
  ASSUME NEW K \in SUBSET Nat, IsFiniteSet(K), NEW k \in K
  PROVE  NthOf(K, Rank(K, k)) = k
<1>1. Rank(K, k) \in 1..Cardinality(K)
  BY RankRange
<1>2. NthOf(K, Rank(K, k)) \in K /\ Rank(K, NthOf(K, Rank(K, k))) = Rank(K, k)
  BY <1>1, NthOfRank
<1>. QED
  BY <1>2, RankInjective
(* Shifting a finite set of numbers by m keeps its size. *)
LEMMA ShiftCard ==
  ASSUME NEW m \in Nat, NEW S \in SUBSET Nat, IsFiniteSet(S)
  PROVE  /\ IsFiniteSet({m + x : x \in S})
         /\ Cardinality({m + x : x \in S}) = Cardinality(S)
<1> DEFINE T == {m + x : x \in S}
<1> DEFINE f == [x \in S |-> m + x]
<1>1. f \in [S -> T]
  BY Zenon
<1>2. IsInjective(f)
  BY DEF IsInjective
<1>3. \A t \in T : \E x \in S : f[x] = t
  BY Zenon
<1>4. f \in Injection(S, T) /\ f \in Surjection(S, T)
  BY <1>1, <1>2, <1>3 DEF Injection, Surjection
<1>5. ExistsBijection(S, T)
  BY <1>4 DEF ExistsBijection, Bijection
<1>. QED
  BY <1>5, FS_Bijection

(* The positions of a concatenation: those A of the first part and those  *)
(* B of the second, shifted by the length la of the first part.            *)
Shifted(A, la, B) == A \cup {la + k : k \in B}

(* The shifted positions lie above la, so the union is disjoint. *)
LEMMA ShiftedFacts ==
  ASSUME NEW la \in Nat, NEW A \in SUBSET (1..la),
         NEW B \in SUBSET (Nat \ {0}), IsFiniteSet(B)
  PROVE  /\ Shifted(A, la, B) \in SUBSET Nat
         /\ IsFiniteSet(Shifted(A, la, B))
         /\ Cardinality(Shifted(A, la, B)) = Cardinality(A) + Cardinality(B)
<1> DEFINE SB == {la + k : k \in B}
<1>1. IsFiniteSet(A) /\ Cardinality(A) \in Nat /\ Cardinality(B) \in Nat
  <2>1. IsFiniteSet(1..la)
    BY FS_Interval
  <2>2. IsFiniteSet(A)
    BY <2>1, FS_Subset
  <2>. QED
    BY <2>2, FS_CardinalityType
<1>2. IsFiniteSet(SB) /\ Cardinality(SB) = Cardinality(B)
  BY ShiftCard
<1>3. A \cap SB = {}
  <2> SUFFICES ASSUME NEW x \in A, NEW k \in B, x = la + k PROVE FALSE
    OBVIOUS
  <2>. QED
    OBVIOUS
<1>4. Cardinality(A \cap SB) = 0
  BY <1>3, FS_EmptySet
<1>5. IsFiniteSet(A \cup SB)
      /\ Cardinality(A \cup SB) = Cardinality(A) + Cardinality(SB) - Cardinality(A \cap SB)
  BY <1>1, <1>2, FS_Union
<1>6. A \cup SB \in SUBSET Nat
  <2>0. A \in SUBSET Nat
    OBVIOUS
  <2>1. \A k \in B : la + k \in Nat
    OBVIOUS
  <2>. QED
    BY <2>0, <2>1, Zenon
<1>. QED
  BY <1>1, <1>2, <1>4, <1>5, <1>6 DEF Shifted

(* The positions of rank 1..|A| in the concatenation are those of A. *)
LEMMA ShiftedFirst ==
  ASSUME NEW la \in Nat, NEW A \in SUBSET (1..la),
         NEW B \in SUBSET (Nat \ {0}), IsFiniteSet(B),
         NEW r \in 1..Cardinality(A)
  PROVE  NthOf(Shifted(A, la, B), r) = NthOf(A, r)
<1> DEFINE P == Shifted(A, la, B)
<1> DEFINE k == NthOf(A, r)
<1>0. IsFiniteSet(A)
  <2>1. IsFiniteSet(1..la)
    BY FS_Interval
  <2>. QED
    BY <2>1, FS_Subset
<1>1. k \in A /\ Rank(A, k) = r
  BY <1>0, NthOfRank
<1>2. {j \in P : j <= k} = {j \in A : j <= k}
  <2>1. k \in 1..la
    BY <1>1
  <2> SUFFICES ASSUME NEW x \in B, la + x <= k PROVE FALSE
    BY DEF Shifted
  <2>. QED
    BY <2>1
<1>3. k \in P /\ Rank(P, k) = r
  BY <1>1, <1>2 DEF Rank, Shifted
<1>4. P \in SUBSET Nat /\ IsFiniteSet(P)
  BY ShiftedFacts
<1>5. NthOf(P, Rank(P, k)) = k
  BY <1>3, <1>4, NthOfUnique
<1>. QED
  BY <1>3, <1>5

(* The position of rank |A| + r in the concatenation is that of rank r in *)
(* B, shifted by la.                                                        *)
LEMMA ShiftedSecond ==
  ASSUME NEW la \in Nat, NEW A \in SUBSET (1..la),
         NEW B \in SUBSET (Nat \ {0}), IsFiniteSet(B),
         NEW r \in 1..Cardinality(B)
  PROVE  NthOf(Shifted(A, la, B), Cardinality(A) + r) = la + NthOf(B, r)
<1> DEFINE P == Shifted(A, la, B)
<1> DEFINE k == NthOf(B, r)
<1> DEFINE BB == {j \in B : j <= k}
<1>1. k \in B /\ Rank(B, k) = r
  BY NthOfRank
<1>2. {j \in P : j <= la + k} = Shifted(A, la, BB)
  <2>0. k \in Nat
    BY <1>1
  <2>1. \A j \in A : j <= la + k
    BY <2>0
  <2>2. \A x \in B : la + x <= la + k <=> x <= k
    BY <2>0
  <2>. QED
    BY <2>1, <2>2 DEF Shifted
<1>3. BB \in SUBSET (Nat \ {0}) /\ IsFiniteSet(BB)
  BY FS_Subset
<1>4. Cardinality(Shifted(A, la, BB)) = Cardinality(A) + Cardinality(BB)
  BY <1>3, ShiftedFacts
<1>5. la + k \in P /\ Rank(P, la + k) = Cardinality(A) + r
  BY <1>1, <1>2, <1>4 DEF Rank, Shifted
<1>6. P \in SUBSET Nat /\ IsFiniteSet(P)
  BY ShiftedFacts
<1>7. NthOf(P, Rank(P, la + k)) = la + k
  BY <1>5, <1>6, NthOfUnique
<1>. QED
  BY <1>5, <1>7
=============================================================================
