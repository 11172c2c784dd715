------------------------- MODULE UpdateModelProofs -------------------------
(***************************************************************************)
(* Theorems about UpdateModel: the ids stay sorted, the rows are those of  *)
(* the ids, and rows that are shown stay as they are, for batches of any   *)
(* size.                                                                   *)
(***************************************************************************)
EXTENDS UpdateModel, OrderLemmas, SequenceTheorems, FunctionTheorems

\* What a sequence of ids is.
LEMMA SequenceOfIds ==
  ASSUME NEW s \in Seq(Ids)
  PROVE  /\ Len(s) \in Nat /\ DOMAIN s = 1..Len(s) /\ s \in [1..Len(s) -> Ids]
         /\ IsFiniteSet(DOMAIN s) /\ Cardinality(DOMAIN s) = Len(s)
         /\ \A i \in DOMAIN s : s[i] \in Ids /\ s[i] \in Nat /\ s[i] > 0
<1>1. Len(s) \in Nat /\ DOMAIN s = 1..Len(s) /\ s \in [1..Len(s) -> Ids]
  BY LenProperties
<1>2. \A u \in Ids : u \in Nat /\ u > 0
  BY IdAssumption
<1>3. IsFiniteSet(1..Len(s)) /\ Cardinality(1..Len(s)) = Len(s)
  BY <1>1, FS_Interval
<1>. QED  BY <1>1, <1>2, <1>3

-----------------------------------------------------------------------------
(* Arranging a part of a sequence *)

\* before says of each index of K which indices come ahead of it; it is a
\* total order.
Orders(before, K) ==
  /\ before \in [K -> SUBSET K]
  /\ \A i \in K : i \notin before[i]
  /\ \A i \in K : \A j \in before[i] : before[j] \subseteq before[i]
  /\ \A i, j \in K : i = j \/ i \in before[j] \/ j \in before[i]

\* at lists the n indices of K in that order.
Lists(at, n, before, K) ==
  /\ at \in [1..n -> K]
  /\ \A i \in K : \E p \in 1..n : at[p] = i
  /\ \A p, q \in 1..n : p < q => at[p] \in before[at[q]]

\* The number of indices that come ahead of i is its rank, and no two share it.
LEMMA RanksDiffer ==
  ASSUME NEW K, IsFiniteSet(K), NEW before, Orders(before, K)
  PROVE  /\ \A i \in K : Cardinality(before[i]) \in 0..(Cardinality(K) - 1)
         /\ \A i, j \in K :
              i \in before[j] <=> Cardinality(before[i]) < Cardinality(before[j])
         /\ \A i, j \in K : Cardinality(before[i]) = Cardinality(before[j]) => i = j
<1>1. \A i \in K : before[i] \subseteq K /\ i \notin before[i]
  BY DEF Orders
<1>2. ASSUME NEW i \in K
      PROVE  /\ IsFiniteSet(before[i]) /\ Cardinality(before[i]) \in Nat
             /\ Cardinality(before[i]) <= Cardinality(K) - 1
             /\ Cardinality(K) \in Nat
  <2>1. /\ IsFiniteSet(before[i]) /\ Cardinality(before[i]) <= Cardinality(K)
        /\ Cardinality(K) = Cardinality(before[i]) => K = before[i]
    BY <1>1, FS_Subset
  <2>2. Cardinality(K) # Cardinality(before[i])
    BY <1>1, <2>1
  <2>3. Cardinality(before[i]) \in Nat /\ Cardinality(K) \in Nat
    BY <2>1, FS_CardinalityType
  <2>. QED  BY <2>1, <2>2, <2>3
<1>3. ASSUME NEW i \in K, NEW j \in K, i \in before[j]
      PROVE  Cardinality(before[i]) < Cardinality(before[j])
  <2>1. before[i] \subseteq before[j] /\ before[i] # before[j]
    BY <1>1, <1>3 DEF Orders
  <2>2. /\ Cardinality(before[i]) <= Cardinality(before[j])
        /\ Cardinality(before[j]) = Cardinality(before[i]) => before[j] = before[i]
    BY <1>2, <2>1, FS_Subset
  <2>. QED  BY <1>2, <2>1, <2>2
<1>4. \A i, j \in K : i = j \/ i \in before[j] \/ j \in before[i]
  BY DEF Orders
<1>. QED  BY <1>1, <1>2, <1>3, <1>4

\* A list holds no index twice.
LEMMA ListedOnce ==
  ASSUME NEW K, NEW n \in Nat, NEW before, Orders(before, K),
         NEW at, Lists(at, n, before, K)
  PROVE  \A p, q \in 1..n : at[p] = at[q] => p = q
<1>1. \A p, q \in 1..n : p < q => at[p] # at[q]
  BY DEF Orders, Lists
<1>. QED  BY <1>1

\* Numbering the indices in their order is enough to know the arrangement.
LEMMA ArrangedAs ==
  ASSUME NEW K, NEW n \in Nat, NEW before, Orders(before, K),
         NEW at, Lists(at, n, before, K), NEW s
  PROVE  Arranged(s, before) = [p \in 1..n |-> s[at[p]]]
<1>1. \A p, q \in 1..n : p # q => at[p] # at[q]
  BY ListedOnce
<1>. USE DEF Lists
<1>2. at \in Bijection(1..n, K)
  BY <1>1, Fun_IsBij
<1>3. IsFiniteSet(1..n) /\ Cardinality(1..n) = n
  BY FS_Interval
<1>4. IsFiniteSet(K) /\ Cardinality(K) = n
  BY <1>2, <1>3, FS_Bijection DEF ExistsBijection
<1>5. ASSUME NEW q \in 1..n
      PROVE  Cardinality(before[at[q]]) = q - 1
  <2>. DEFINE f == [p \in 1..(q - 1) |-> at[p]]
  <2>1. ASSUME NEW i \in before[at[q]] PROVE \E p \in 1..(q - 1) : f[p] = i
    <3>1. i \in K
      BY <2>1 DEF Orders
    <3>2. PICK p \in 1..n : at[p] = i
      BY <3>1
    <3>3. ~ (q < p)
      <4>. SUFFICES ASSUME q < p PROVE FALSE
        OBVIOUS
      <4>1. at[q] \in before[i]
        BY <3>2
      <4>. QED  BY <2>1, <3>1, <4>1 DEF Orders
    <3>4. p # q
      BY <2>1, <3>2 DEF Orders
    <3>. QED  BY <3>2, <3>3, <3>4
  <2>2. f \in [1..(q - 1) -> before[at[q]]]
    OBVIOUS
  <2>3. \A a, b \in 1..(q - 1) : f[a] = f[b] => a = b
    BY <1>1
  <2>. HIDE DEF f
  <2>4. f \in Bijection(1..(q - 1), before[at[q]])
    BY <2>1, <2>2, <2>3, Fun_IsBij
  <2>5. IsFiniteSet(1..(q - 1)) /\ Cardinality(1..(q - 1)) = q - 1
    BY FS_Interval
  <2>. QED  BY <2>4, <2>5, FS_Bijection DEF ExistsBijection
<1>6. ASSUME NEW p \in 1..n
      PROVE  (CHOOSE i \in K : Cardinality(before[i]) = p - 1) = at[p]
  <2>1. \A i \in K : Cardinality(before[i]) = p - 1 => i = at[p]
    BY <1>4, <1>5, RanksDiffer
  <2>. QED  BY <1>5, <2>1
<1>7. DOMAIN before = K
  BY DEF Orders
<1>8. \A p \in 1..n :
        s[CHOOSE i \in DOMAIN before : Cardinality(before[i]) = p - 1] = s[at[p]]
  BY <1>6, <1>7
<1>. QED  BY <1>4, <1>7, <1>8 DEF Arranged

\* There is such a numbering.
LEMMA Numbering ==
  ASSUME NEW K, IsFiniteSet(K), NEW before, Orders(before, K)
  PROVE  \E at : Lists(at, Cardinality(K), before, K)
<1>. DEFINE n == Cardinality(K)
            rank == [i \in K |-> Cardinality(before[i]) + 1]
<1>1. n \in Nat
  BY FS_CardinalityType
<1>2. /\ rank \in [K -> 1..n]
      /\ \A i, j \in K : rank[i] = rank[j] => i = j
      /\ \A i, j \in K : rank[i] < rank[j] => i \in before[j]
  BY <1>1, RanksDiffer
<1>3. rank \in Injection(K, 1..n)
  BY <1>2, Fun_IsInj
<1>4. IsFiniteSet(1..n) /\ Cardinality(1..n) = n
  BY <1>1, FS_Interval
<1>. HIDE DEF rank
<1>5. rank \in Surjection(K, 1..n)
  BY <1>3, <1>4, FS_Injection
<1>6. \A p \in 1..n : \E i \in K : rank[i] = p
  BY <1>5, Fun_SurjectionProperties
<1>. DEFINE at == [p \in 1..n |-> CHOOSE i \in K : rank[i] = p]
<1>7. at \in [1..n -> K] /\ \A p \in 1..n : rank[at[p]] = p
  BY <1>6
<1>8. \A i \in K : rank[i] \in 1..n /\ at[rank[i]] = i
  BY <1>2, <1>6
<1>9. ASSUME NEW p \in 1..n, NEW q \in 1..n, p < q
      PROVE  at[p] \in before[at[q]]
  <2>1. rank[at[p]] < rank[at[q]] /\ at[p] \in K /\ at[q] \in K
    BY <1>7, <1>9
  <2>. QED  BY <1>2, <2>1
<1>. HIDE DEF at
<1>10. \A i \in K : \E p \in 1..n : at[p] = i
  BY <1>8
<1>11. Lists(at, n, before, K)
  BY <1>7, <1>9, <1>10 DEF Lists
<1>. QED  BY <1>11

\* So an arrangement holds the elements at the indices K, each once.
LEMMA ArrangedFacts ==
  ASSUME NEW s \in Seq(Ids), NEW K \in SUBSET DOMAIN s, NEW before, Orders(before, K)
  PROVE  /\ IsFiniteSet(K) /\ Cardinality(K) \in Nat
         /\ Arranged(s, before) \in Seq(Ids)
         /\ Len(Arranged(s, before)) = Cardinality(K)
         /\ \A u \in Ids : Cardinality(Occurrences(Arranged(s, before), u))
                             = Cardinality({i \in K : s[i] = u})
         /\ \E at :
              /\ Lists(at, Cardinality(K), before, K)
              /\ Arranged(s, before) = [p \in 1..Cardinality(K) |-> s[at[p]]]
<1>. DEFINE n == Cardinality(K)
<1>2. IsFiniteSet(K) /\ n \in Nat
  <2>1. IsFiniteSet(K)
    BY SequenceOfIds, FS_Subset
  <2>. QED  BY <2>1, FS_CardinalityType
<1>3. PICK at : Lists(at, n, before, K)
  BY <1>2, Numbering
<1>. DEFINE t == Arranged(s, before)
<1>1. n = Cardinality(K)
  OBVIOUS
<1>. HIDE DEF n
<1>4. /\ t = [p \in 1..n |-> s[at[p]]]
      /\ \A p, q \in 1..n : at[p] = at[q] => p = q
  <2>1. n \in Nat
    BY <1>2
  <2>2. Arranged(s, before) = [p \in 1..n |-> s[at[p]]]
    BY <1>3, <2>1, ArrangedAs
  <2>3. \A p, q \in 1..n : at[p] = at[q] => p = q
    BY <1>3, <2>1, ListedOnce
  <2>. QED  BY <2>2, <2>3
<1>. HIDE DEF t
<1>5. \A i \in K : s[i] \in Ids
  BY SequenceOfIds
<1>6. t \in Seq(Ids) /\ Len(t) = n
  BY <1>2, <1>3, <1>4, <1>5 DEF Lists
<1>7. ASSUME NEW u \in Ids
      PROVE  Cardinality(Occurrences(t, u)) = Cardinality({i \in K : s[i] = u})
  <2>. DEFINE A == {i \in K : s[i] = u}
              B == Occurrences(t, u)
              f == [p \in B |-> at[p]]
  <2>1. B = {p \in 1..n : s[at[p]] = u}
    BY <1>4 DEF Occurrences
  <2>2. f \in [B -> A] /\ B \subseteq 1..n
    BY <1>3, <2>1 DEF Lists
  <2>3. \A p, q \in B : f[p] = f[q] => p = q
    BY <1>4, <2>2
  <2>4. \A i \in A : \E p \in B : f[p] = i
    BY <1>3, <2>1 DEF Lists
  <2>5. IsFiniteSet(B)
    <3>1. IsFiniteSet(1..n)
      BY <1>2, FS_Interval
    <3>. QED  BY <2>2, <3>1, FS_Subset
  <2>. HIDE DEF A, B, f
  <2>6. f \in Bijection(B, A)
    BY <2>2, <2>3, <2>4, Fun_IsBij
  <2>7. Cardinality(B) = Cardinality(A)
    BY <2>5, <2>6, FS_Bijection DEF ExistsBijection
  <2>. QED  BY <2>7 DEF A, B
<1>. QED  BY <1>1, <1>2, <1>3, <1>4, <1>6, <1>7 DEF t

-----------------------------------------------------------------------------
(* Sorting *)

LEMMA ComparisonsOrder ==
  ASSUME NEW s \in Seq(Ids)
  PROVE  /\ Orders(AheadByLess(s), DOMAIN s)
         /\ Orders(AheadByGreater(s), DOMAIN s)
<1>1. \A i \in DOMAIN s : s[i] \in Nat /\ i \in Nat
  BY SequenceOfIds
<1>2. Orders(AheadByLess(s), DOMAIN s)
  BY <1>1 DEF Orders, AheadByLess
<1>3. Orders(AheadByGreater(s), DOMAIN s)
  BY <1>1 DEF Orders, AheadByGreater
<1>. QED  BY <1>2, <1>3

LEMMA IndicesOrder ==
  ASSUME NEW K \in SUBSET Nat
  PROVE  Orders([i \in K |-> {j \in K : j < i}], K)
<1>. DEFINE before == [i \in K |-> {j \in K : j < i}]
<1>1. \A i \in K : before[i] = {j \in K : j < i} /\ i \in Nat
  OBVIOUS
<1>2. before \in [K -> SUBSET K]
  OBVIOUS
<1>. HIDE DEF before
<1>3. \A i, j \in K : j \in before[i] <=> j < i
  BY <1>1
<1>4. ASSUME NEW i \in K, NEW j \in before[i], NEW k \in before[j]
      PROVE  k \in before[i]
  <2>1. j \in K /\ k \in K
    BY <1>2
  <2>2. k < j /\ j < i /\ k \in Nat /\ j \in Nat /\ i \in Nat
    BY <1>3, <2>1
  <2>3. k < i
    BY <2>2
  <2>. QED  BY <1>3, <2>1, <2>3
<1>5. /\ \A i \in K : i \notin before[i]
      /\ \A i, j \in K : i = j \/ i \in before[j] \/ j \in before[i]
  BY <1>1, <1>3
<1>6. Orders(before, K)
  BY <1>2, <1>4, <1>5 DEF Orders
<1>. QED  BY <1>6 DEF before

\* qsort() with uint64_desc_cmp(): the largest goes first, nothing is lost.
LEMMA DescendingFacts ==
  ASSUME NEW s \in Seq(Ids)
  PROVE  /\ Descending(s) \in Seq(Ids) /\ Len(Descending(s)) = Len(s)
         /\ \A u \in Ids : Cardinality(Occurrences(Descending(s), u))
                             = Cardinality(Occurrences(s, u))
         /\ \A i, j \in 1..Len(s) : i < j => Descending(s)[i] >= Descending(s)[j]
<1>. DEFINE K == DOMAIN s
            before == AheadByGreater(s)
            t == Descending(s)
<1>1. Orders(before, K) /\ t = Arranged(s, before)
  BY ComparisonsOrder DEF Descending
<1>2. K = 1..Len(s) /\ Len(s) \in Nat /\ \A i \in K : s[i] \in Nat
  BY SequenceOfIds
<1>3. Cardinality(K) = Len(s)
  BY SequenceOfIds
<1>4. /\ t \in Seq(Ids) /\ Len(t) = Len(s)
      /\ \A u \in Ids : Cardinality(Occurrences(t, u)) = Cardinality({i \in K : s[i] = u})
  BY <1>1, <1>3, ArrangedFacts
<1>5. PICK at :
        /\ Lists(at, Len(s), before, K)
        /\ t = [p \in 1..Len(s) |-> s[at[p]]]
  BY <1>1, <1>3, ArrangedFacts
<1>6. ASSUME NEW i \in 1..Len(s), NEW j \in 1..Len(s), i < j PROVE t[i] >= t[j]
  <2>1. /\ at[i] \in before[at[j]] /\ t[i] = s[at[i]] /\ t[j] = s[at[j]]
        /\ at[i] \in K /\ at[j] \in K
    BY <1>5, <1>6 DEF Lists
  <2>. QED  BY <1>2, <2>1 DEF AheadByGreater
<1>. QED  BY <1>4, <1>6 DEF Occurrences

\* qsort() with sort_updates_by_id().
LEMMA AscendingFacts ==
  ASSUME NEW s \in Seq(Ids)
  PROVE  /\ Ascending(s) \in Seq(Ids) /\ Len(Ascending(s)) = Len(s)
         /\ \A i, j \in 1..Len(s) : i < j => Ascending(s)[i] <= Ascending(s)[j]
<1>. DEFINE K == DOMAIN s
            before == AheadByLess(s)
            t == Ascending(s)
<1>1. Orders(before, K) /\ t = Arranged(s, before)
  BY ComparisonsOrder DEF Ascending
<1>2. K = 1..Len(s) /\ Len(s) \in Nat /\ \A i \in K : s[i] \in Nat
  BY SequenceOfIds
<1>3. Cardinality(K) = Len(s)
  BY SequenceOfIds
<1>4. t \in Seq(Ids) /\ Len(t) = Len(s)
  BY <1>1, <1>3, ArrangedFacts
<1>5. PICK at :
        /\ Lists(at, Len(s), before, K)
        /\ t = [p \in 1..Len(s) |-> s[at[p]]]
  BY <1>1, <1>3, ArrangedFacts
<1>6. ASSUME NEW i \in 1..Len(s), NEW j \in 1..Len(s), i < j PROVE t[i] <= t[j]
  <2>1. /\ at[i] \in before[at[j]] /\ t[i] = s[at[i]] /\ t[j] = s[at[j]]
        /\ at[i] \in K /\ at[j] \in K
    BY <1>5, <1>6 DEF Lists
  <2>. QED  BY <1>2, <2>1 DEF AheadByLess
<1>. QED  BY <1>4, <1>6

\* What is sorted stays as it is.
LEMMA SortedStays ==
  ASSUME NEW s \in Seq(Ids), \A i, j \in 1..Len(s) : i < j => s[i] >= s[j]
  PROVE  Descending(s) = s
<1>. DEFINE K == DOMAIN s
            before == AheadByGreater(s)
            at == [p \in 1..Len(s) |-> p]
<1>1. Orders(before, K)
  BY ComparisonsOrder
<1>2. K = 1..Len(s) /\ Len(s) \in Nat /\ \A i \in K : s[i] \in Nat
  BY SequenceOfIds
<1>3. \A p, q \in 1..Len(s) : p < q => at[p] \in before[at[q]]
  BY <1>2 DEF AheadByGreater
<1>4. Arranged(s, before) = [p \in 1..Len(s) |-> s[at[p]]]
  <2>1. at \in [1..Len(s) -> K] /\ \A i \in K : \E p \in 1..Len(s) : at[p] = i
    BY <1>2
  <2>. HIDE DEF at, before
  <2>2. Lists(at, Len(s), before, K)
    BY <1>3, <2>1 DEF Lists
  <2>. QED  BY <1>1, <1>2, <2>2, ArrangedAs
<1>. QED  BY <1>2, <1>4 DEF Descending

-----------------------------------------------------------------------------
(* Selecting a part *)

\* at lists the n indices of K from the lowest to the highest.
Increases(at, n, K) ==
  /\ at \in [1..n -> K]
  /\ \A i \in K : \E p \in 1..n : at[p] = i
  /\ \A p, q \in 1..n : p < q => at[p] < at[q]

LEMMA WhereAs ==
  ASSUME NEW K \in SUBSET Nat, NEW n \in Nat, NEW at, Increases(at, n, K), NEW s
  PROVE  Where(s, K) = [p \in 1..n |-> s[at[p]]]
<1>. DEFINE before == [i \in K |-> {j \in K : j < i}]
<1>1. Orders(before, K)
  BY IndicesOrder
<1>2. Lists(at, n, before, K)
  BY DEF Increases, Lists
<1>3. Where(s, K) = Arranged(s, before)
  BY DEF Where
<1>. HIDE DEF before
<1>. QED  BY <1>1, <1>2, <1>3, ArrangedAs

\* The updates that are left are new, and if all are, all are left.
LEMMA DedupFacts ==
  ASSUME NEW upd \in Seq(Ids)
  PROVE  /\ Dedup(upd) \in Seq(Ids)
         /\ \A k \in DOMAIN Dedup(upd) : ~Shown(Dedup(upd)[k])
         /\ (\A i \in DOMAIN upd : ~Shown(upd[i])) => Dedup(upd) = upd
<1>. DEFINE K == {i \in DOMAIN upd : ~Shown(upd[i])}
            before == [i \in K |-> {j \in K : j < i}]
<1>1. Len(upd) \in Nat /\ DOMAIN upd = 1..Len(upd)
  BY SequenceOfIds
<1>2. K \in SUBSET DOMAIN upd /\ K \in SUBSET Nat
  BY <1>1
<1>3. \A i \in K : ~Shown(upd[i])
  OBVIOUS
<1>4. Dedup(upd) = Where(upd, K) /\ Where(upd, K) = Arranged(upd, before)
  BY DEF Dedup, Where
<1>5. Orders(before, K)
  BY <1>2, IndicesOrder
<1>. HIDE DEF before
<1>6. /\ Arranged(upd, before) \in Seq(Ids) /\ Cardinality(K) \in Nat
      /\ \E at : /\ Lists(at, Cardinality(K), before, K)
                 /\ Arranged(upd, before) = [p \in 1..Cardinality(K) |-> upd[at[p]]]
  <2>. HIDE DEF K
  <2>. QED  BY <1>2, <1>5, ArrangedFacts
<1>7. \A k \in DOMAIN Dedup(upd) : ~Shown(Dedup(upd)[k])
  <2>. HIDE DEF K
  <2>. QED  BY <1>3, <1>4, <1>6 DEF Lists
<1>8. ASSUME \A i \in DOMAIN upd : ~Shown(upd[i])
      PROVE  Dedup(upd) = upd
  <2>. DEFINE at == [p \in 1..Len(upd) |-> p]
  <2>1. K = 1..Len(upd)
    BY <1>1, <1>8
  <2>. HIDE DEF K
  <2>2. Increases(at, Len(upd), K)
    BY <1>1, <2>1 DEF Increases
  <2>3. \A p \in 1..Len(upd) : at[p] = p
    OBVIOUS
  <2>. HIDE DEF at
  <2>4. Where(upd, K) = [p \in 1..Len(upd) |-> upd[at[p]]]
    BY <1>1, <1>2, <2>2, WhereAs
  <2>. QED  BY <1>1, <1>4, <2>3, <2>4
<1>. QED  BY <1>4, <1>6, <1>7, <1>8

-----------------------------------------------------------------------------
(* Inserting rows *)

\* t is s with u added after the first q elements.
Adds(s, t, q, u) ==
  /\ s \in Seq(Ids) /\ t \in Seq(Ids) /\ u \in Ids
  /\ q \in 0..Len(s) /\ Len(t) = Len(s) + 1
  /\ \A i \in 1..(Len(s) + 1) :
       t[i] = IF i <= q THEN s[i] ELSE IF i = q + 1 THEN u ELSE s[i - 1]

LEMMA InsertAtAdds ==
  ASSUME NEW s \in Seq(Ids), NEW q \in 0..Len(s), NEW u \in Ids
  PROVE  Adds(s, InsertAt(s, q + 1, u), q, u)
<1>. DEFINE a == SubSeq(s, 1, q)
            b == <<u>>
            c == SubSeq(s, q + 1, Len(s))
            t == (a \o b) \o c
<1>1. Len(s) \in Nat /\ q \in Int /\ \A i \in 1..Len(s) : s[i] \in Ids
  BY SequenceOfIds
<1>2. a \in Seq(Ids) /\ Len(a) = q /\ \A i \in 1..q : a[i] = s[i]
  BY <1>1
<1>3. b \in Seq(Ids) /\ Len(b) = 1 /\ b[1] = u
  OBVIOUS
<1>4. /\ c \in Seq(Ids) /\ Len(c) = Len(s) - q
      /\ \A i \in 1..(Len(s) - q) : c[i] = s[q + i]
  BY <1>1
<1>5. InsertAt(s, q + 1, u) = t
  <2>1. (q + 1) - 1 = q
    BY <1>1
  <2>. QED  BY <2>1 DEF InsertAt
<1>. HIDE DEF a, b, c
<1>6. /\ a \o b \in Seq(Ids) /\ Len(a \o b) = q + 1
      /\ \A i \in 1..(q + 1) : (a \o b)[i] = IF i <= q THEN s[i] ELSE u
  <2>1. /\ a \o b \in Seq(Ids) /\ Len(a \o b) = Len(a) + Len(b)
        /\ \A i \in 1..(Len(a) + Len(b)) :
             (a \o b)[i] = IF i <= Len(a) THEN a[i] ELSE b[i - Len(a)]
    BY <1>2, <1>3, ConcatProperties
  <2>. DEFINE ab == a \o b
  <2>. HIDE DEF ab
  <2>2. ASSUME NEW i \in 1..(q + 1) PROVE ab[i] = IF i <= q THEN s[i] ELSE u
    <3>1. ab[i] = IF i <= q THEN a[i] ELSE b[i - q]
      BY <1>1, <1>2, <1>3, <2>1 DEF ab
    <3>2. i > q => i - q = 1
      BY <1>1
    <3>. QED  BY <1>1, <1>2, <1>3, <3>1, <3>2
  <2>. QED  BY <1>2, <1>3, <2>1, <2>2 DEF ab
<1>7. /\ t \in Seq(Ids) /\ Len(t) = Len(s) + 1
      /\ \A i \in 1..(Len(s) + 1) :
           t[i] = IF i <= q + 1 THEN (a \o b)[i] ELSE c[i - (q + 1)]
  <2>. DEFINE ab == a \o b
  <2>1. ab \in Seq(Ids) /\ Len(ab) = q + 1
    BY <1>6
  <2>. HIDE DEF ab
  <2>2. /\ ab \o c \in Seq(Ids) /\ Len(ab \o c) = Len(ab) + Len(c)
        /\ \A i \in 1..(Len(ab) + Len(c)) :
             (ab \o c)[i] = IF i <= Len(ab) THEN ab[i] ELSE c[i - Len(ab)]
    BY <1>4, <2>1, ConcatProperties
  <2>3. Len(ab) + Len(c) = Len(s) + 1
    BY <1>1, <1>4, <2>1
  <2>. QED  BY <2>1, <2>2, <2>3 DEF ab
<1>. HIDE DEF t
<1>8. \A i \in 1..(Len(s) + 1) :
        t[i] = IF i <= q THEN s[i] ELSE IF i = q + 1 THEN u ELSE s[i - 1]
  <2>. SUFFICES ASSUME NEW i \in 1..(Len(s) + 1)
                PROVE  t[i] = IF i <= q THEN s[i] ELSE IF i = q + 1 THEN u ELSE s[i - 1]
    OBVIOUS
  <2>1. CASE i <= q + 1
    <3>1. i \in 1..(q + 1) /\ (i <= q \/ i = q + 1)
      BY <1>1, <2>1
    <3>2. t[i] = (a \o b)[i]
      BY <1>7, <2>1
    <3>3. (a \o b)[i] = IF i <= q THEN s[i] ELSE u
      BY <1>6, <3>1
    <3>. QED  BY <3>1, <3>2, <3>3
  <2>2. CASE i > q + 1
    <3>1. t[i] = c[i - (q + 1)]
      BY <1>1, <1>7, <2>2
    <3>2. i - (q + 1) \in 1..(Len(s) - q) /\ q + (i - (q + 1)) = i - 1
      BY <1>1, <2>2
    <3>3. c[i - (q + 1)] = s[q + (i - (q + 1))]
      BY <1>4, <3>2
    <3>. QED  BY <1>1, <2>2, <3>1, <3>2, <3>3
  <2>. QED  BY <1>1, <2>1, <2>2
<1>. QED  BY <1>1, <1>5, <1>7, <1>8 DEF Adds

\* The row of gtk_list_store_insert_with_values().
RowFor(s, at) == IF at > Len(s) THEN Len(s) ELSE at

LEMMA InsertRowAdds ==
  ASSUME NEW s \in Seq(Ids), NEW at \in Nat, NEW u \in Ids
  PROVE  Adds(s, InsertRow(s, at, u), RowFor(s, at), u)
<1>1. Len(s) \in Nat /\ RowFor(s, at) \in 0..Len(s)
  BY SequenceOfIds DEF RowFor
<1>2. InsertRow(s, at, u) = InsertAt(s, RowFor(s, at) + 1, u)
  BY DEF InsertRow, RowFor
<1>. QED  BY <1>1, <1>2, InsertAtAdds

LEMMA AddsCounts ==
  ASSUME NEW s, NEW t, NEW q, NEW u, Adds(s, t, q, u), NEW v \in Ids
  PROVE  /\ Cardinality(Occurrences(s, v)) \in Nat
         /\ Cardinality(Occurrences(t, v))
              = Cardinality(Occurrences(s, v)) + (IF u = v THEN 1 ELSE 0)
<1>1. /\ Len(s) \in Nat /\ DOMAIN s = 1..Len(s) /\ IsFiniteSet(DOMAIN s)
      /\ DOMAIN t = 1..(Len(s) + 1)
  BY SequenceOfIds DEF Adds
<1>. DEFINE A == Occurrences(s, v)
            B == Occurrences(t, v) \ {q + 1}
            f == [i \in A |-> IF i <= q THEN i ELSE i + 1]
<1>2. A \subseteq 1..Len(s) /\ IsFiniteSet(A)
  BY <1>1, FS_Subset DEF Occurrences
<1>3. q \in Nat /\ q <= Len(s)
  BY <1>1 DEF Adds
<1>4. ASSUME NEW i \in A PROVE f[i] \in B
  <2>1. i \in 1..Len(s) /\ s[i] = v /\ f[i] = IF i <= q THEN i ELSE i + 1
    BY <1>1 DEF Occurrences
  <2>. HIDE DEF f
  <2>2. f[i] \in 1..(Len(s) + 1) /\ f[i] # q + 1
    BY <1>1, <1>3, <2>1
  <2>3. t[f[i]] = s[i]
    BY <1>1, <1>3, <2>1, <2>2 DEF Adds
  <2>. QED  BY <1>1, <2>1, <2>2, <2>3 DEF Occurrences
<1>5. \A i, j \in A : f[i] = f[j] => i = j
  BY <1>2, <1>3
<1>6. ASSUME NEW k \in B PROVE \E i \in A : f[i] = k
  <2>1. k \in 1..(Len(s) + 1) /\ k # q + 1 /\ t[k] = v
    BY <1>1 DEF Occurrences
  <2>2. CASE k <= q
    <3>1. k \in 1..Len(s) /\ s[k] = v
      BY <1>1, <1>3, <2>1, <2>2 DEF Adds
    <3>. QED  BY <1>1, <2>2, <3>1 DEF Occurrences
  <2>3. CASE k > q
    <3>1. k - 1 \in 1..Len(s) /\ k - 1 > q /\ (k - 1) + 1 = k
      BY <1>1, <1>3, <2>1, <2>3
    <3>2. s[k - 1] = v
      BY <1>1, <1>3, <2>1, <2>3 DEF Adds
    <3>3. k - 1 \in A
      BY <1>1, <3>1, <3>2 DEF Occurrences
    <3>. QED  BY <1>3, <3>1, <3>3
  <2>. QED  BY <1>3, <2>1, <2>2, <2>3
<1>7. f \in [A -> B]
  BY <1>4
<1>. HIDE DEF A, B, f
<1>8. f \in Bijection(A, B)
  BY <1>5, <1>6, <1>7, Fun_IsBij
<1>9. IsFiniteSet(B) /\ Cardinality(B) = Cardinality(A) /\ Cardinality(A) \in Nat
  BY <1>2, <1>8, FS_Bijection, FS_CardinalityType DEF ExistsBijection
<1>10. q + 1 \in DOMAIN t /\ t[q + 1] = u
  BY <1>1, <1>3 DEF Adds
<1>11. q + 1 \notin B /\ Occurrences(t, v) = IF u = v THEN B \cup {q + 1} ELSE B
  BY <1>10 DEF B, Occurrences
<1>12. Cardinality(B \cup {q + 1}) = Cardinality(B) + 1
  BY <1>9, <1>11, FS_AddElement
<1>. QED  BY <1>9, <1>11, <1>12 DEF A

\* The rows that are shown now are those of t that show an id of the table, in
\* the same order.
KeepsRows(t) ==
  \E at : /\ Increases(at, Len(rows), {j \in DOMAIN t : Shown(t[j])})
          /\ \A i \in 1..Len(rows) : t[at[i]] = rows[i]

LEMMA AddsKeeps ==
  ASSUME rows \in Seq(Ids),
         NEW s, NEW t, NEW q, NEW u, Adds(s, t, q, u), KeepsRows(s), ~Shown(u)
  PROVE  KeepsRows(t)
<1>. DEFINE n == Len(rows)
            A == {j \in DOMAIN s : Shown(s[j])}
            B == {j \in DOMAIN t : Shown(t[j])}
<1>1. /\ Len(s) \in Nat /\ DOMAIN s = 1..Len(s) /\ n \in Nat
      /\ DOMAIN t = 1..(Len(s) + 1) /\ q \in Nat /\ q <= Len(s)
  BY SequenceOfIds DEF Adds
<1>2. PICK at : Increases(at, n, A) /\ \A i \in 1..n : s[at[i]] = rows[i]
  BY DEF KeepsRows
<1>. DEFINE to == [i \in 1..n |-> IF at[i] <= q THEN at[i] ELSE at[i] + 1]
<1>3. ASSUME NEW i \in 1..n
      PROVE  /\ at[i] \in 1..Len(s) /\ Shown(s[at[i]])
             /\ to[i] = IF at[i] <= q THEN at[i] ELSE at[i] + 1
             /\ to[i] \in 1..(Len(s) + 1) /\ t[to[i]] = s[at[i]] /\ to[i] \in B
  <2>1. /\ at[i] \in 1..Len(s) /\ Shown(s[at[i]])
        /\ to[i] = IF at[i] <= q THEN at[i] ELSE at[i] + 1
    BY <1>1, <1>2 DEF Increases
  <2>. HIDE DEF to
  <2>2. to[i] \in 1..(Len(s) + 1)
    BY <1>1, <2>1
  <2>3. t[to[i]] = s[at[i]]
    BY <1>1, <2>1, <2>2 DEF Adds
  <2>. QED  BY <1>1, <2>1, <2>2, <2>3
<1>4. to \in [1..n -> B]
  BY <1>3
<1>5. ASSUME NEW k \in B PROVE \E i \in 1..n : to[i] = k
  <2>1. k \in 1..(Len(s) + 1) /\ Shown(t[k])
    BY <1>1
  <2>2. k # q + 1
    BY <1>1, <2>1 DEF Adds
  <2>3. CASE k <= q
    <3>1. k \in 1..Len(s) /\ s[k] = t[k]
      BY <1>1, <2>1, <2>3 DEF Adds
    <3>2. PICK i \in 1..n : at[i] = k
      BY <1>1, <1>2, <2>1, <3>1 DEF Increases
    <3>. QED  BY <2>3, <3>2
  <2>4. CASE k > q
    <3>1. k - 1 \in 1..Len(s) /\ k - 1 > q /\ (k - 1) + 1 = k
      BY <1>1, <2>1, <2>2, <2>4
    <3>2. s[k - 1] = t[k]
      BY <1>1, <2>1, <2>2, <2>4 DEF Adds
    <3>3. PICK i \in 1..n : at[i] = k - 1
      BY <1>1, <1>2, <2>1, <3>1, <3>2 DEF Increases
    <3>. QED  BY <1>1, <3>1, <3>3
  <2>. QED  BY <1>1, <2>1, <2>3, <2>4
<1>6. ASSUME NEW i \in 1..n, NEW j \in 1..n, i < j PROVE to[i] < to[j]
  <2>1. at[i] < at[j]
    BY <1>2, <1>6 DEF Increases
  <2>. HIDE DEF to
  <2>. QED  BY <1>1, <1>3, <2>1
<1>. HIDE DEF to
<1>7. Increases(to, n, B)
  BY <1>4, <1>5, <1>6 DEF Increases
<1>8. \A i \in 1..n : t[to[i]] = rows[i]
  BY <1>2, <1>3
<1>. QED  BY <1>7, <1>8 DEF KeepsRows

\* r[k] is the table after the first k of the rows are inserted.
RowsAfter(r, new, pos, n) ==
  r = [k \in 0..n |-> IF k = 0 THEN rows ELSE InsertRow(r[k - 1], pos[k], new[k])]

\* The loop in the end of add_updates_to_model() defines the table it ends with.
LEMMA LoopRuns ==
  ASSUME NEW new, NEW pos, NEW n \in Nat
  PROVE  \E r : RowsAfter(r, new, pos, n)
<1>. DEFINE T == {m \in Nat : \E r : RowsAfter(r, new, pos, m)}
<1>1. 0 \in T
  <2>. DEFINE r == [k \in 0..0 |-> rows]
  <2>1. RowsAfter(r, new, pos, 0)
    BY DEF RowsAfter
  <2>. QED  BY <2>1
<1>2. ASSUME NEW m \in Nat, m \in T PROVE m + 1 \in T
  <2>1. PICK r : RowsAfter(r, new, pos, m)
    BY <1>2
  <2>. DEFINE x == InsertRow(r[m], pos[m + 1], new[m + 1])
              g == [k \in 0..(m + 1) |-> IF k = m + 1 THEN x ELSE r[k]]
              h == [k \in 0..(m + 1) |->
                      IF k = 0 THEN rows ELSE InsertRow(g[k - 1], pos[k], new[k])]
  <2>2. ASSUME NEW k \in 0..(m + 1) PROVE g[k] = h[k]
    <3>1. CASE k = 0
      BY <2>1, <3>1 DEF RowsAfter
    <3>2. CASE k # 0 /\ k # m + 1
      <4>1. k \in 1..m /\ k - 1 \in 0..m /\ k - 1 \in 0..(m + 1) /\ k - 1 # m + 1
        BY <3>2
      <4>2. g[k] = r[k] /\ g[k - 1] = r[k - 1]
        BY <3>2, <4>1
      <4>3. r[k] = InsertRow(r[k - 1], pos[k], new[k])
        <5>1. k \in 0..m /\ k # 0
          BY <4>1
        <5>. QED  BY <2>1, <5>1 DEF RowsAfter
      <4>. QED  BY <3>2, <4>2, <4>3
    <3>3. CASE k = m + 1
      <4>1. m \in 0..(m + 1) /\ m # m + 1 /\ k - 1 = m /\ k # 0
        BY <3>3
      <4>2. g[m] = r[m] /\ g[k] = x
        BY <3>3, <4>1
      <4>. QED  BY <3>3, <4>1, <4>2
    <3>. QED  BY <3>1, <3>2, <3>3
  <2>. HIDE DEF x
  <2>3. g = h
    BY <2>2
  <2>4. RowsAfter(g, new, pos, m + 1)
    BY <2>3 DEF RowsAfter
  <2>. HIDE DEF g
  <2>. QED  BY <2>4
<1>. HIDE DEF T
<1>3. Nat \subseteq T
  BY <1>1, <1>2, NaturalsBySuccessor
<1>. QED  BY <1>3 DEF T

LEMMA InsertRowsStepwise ==
  ASSUME NEW new, NEW pos, Len(new) \in Nat
  PROVE  \E r : /\ r[0] = rows
                /\ \A k \in 1..Len(new) : r[k] = InsertRow(r[k - 1], pos[k], new[k])
                /\ InsertRows(new, pos) = r[Len(new)]
<1>. DEFINE r == CHOOSE f : RowsAfter(f, new, pos, Len(new))
<1>1. RowsAfter(r, new, pos, Len(new))
  BY LoopRuns
<1>2. InsertRows(new, pos) = r[Len(new)]
  BY DEF InsertRows, RowsAfter
<1>. HIDE DEF r
<1>3. r[0] = rows
  BY <1>1 DEF RowsAfter
<1>4. ASSUME NEW k \in 1..Len(new) PROVE r[k] = InsertRow(r[k - 1], pos[k], new[k])
  <2>1. k \in 0..Len(new) /\ k # 0
    OBVIOUS
  <2>. QED  BY <1>1, <2>1 DEF RowsAfter
<1>. QED  BY <1>2, <1>3, <1>4

\* Every new update gets one row, and the rows there are stay.
LEMMA InsertRowsFacts ==
  ASSUME rows \in Seq(Ids), NEW new \in Seq(Ids), NEW pos \in [DOMAIN new -> Nat]
  PROVE  /\ InsertRows(new, pos) \in Seq(Ids)
         /\ \A u \in Ids :
              Cardinality(Occurrences(InsertRows(new, pos), u))
                = Cardinality(Occurrences(rows, u)) + Cardinality(Occurrences(new, u))
         /\ (/\ \A i \in DOMAIN rows : Shown(rows[i])
             /\ \A k \in DOMAIN new : ~Shown(new[k]))
            => KeepsRows(InsertRows(new, pos))
<1>. DEFINE n == Len(new)
            Part(k, u) == {i \in 1..k : new[i] = u}
            fresh == /\ \A i \in DOMAIN rows : Shown(rows[i])
                     /\ \A k \in DOMAIN new : ~Shown(new[k])
<1>1. /\ n \in Nat /\ DOMAIN new = 1..n /\ \A k \in 1..n : new[k] \in Ids
      /\ Len(rows) \in Nat /\ DOMAIN rows = 1..Len(rows)
  BY SequenceOfIds
<1>2. PICK r : /\ r[0] = rows
               /\ \A k \in 1..n : r[k] = InsertRow(r[k - 1], pos[k], new[k])
               /\ InsertRows(new, pos) = r[n]
  BY <1>1, InsertRowsStepwise
<1>. DEFINE Good(k) ==
              /\ r[k] \in Seq(Ids)
              /\ \A u \in Ids :
                   /\ Cardinality(Part(k, u)) \in Nat
                   /\ Cardinality(Occurrences(r[k], u))
                        = Cardinality(Occurrences(rows, u)) + Cardinality(Part(k, u))
              /\ fresh => KeepsRows(r[k])
            T == {k \in Nat : k <= n => Good(k)}
<1>3. \A u \in Ids : Cardinality(Occurrences(rows, u)) \in Nat
  <2>. SUFFICES ASSUME NEW u \in Ids PROVE Cardinality(Occurrences(rows, u)) \in Nat
    OBVIOUS
  <2>1. IsFiniteSet(Occurrences(rows, u))
    BY SequenceOfIds, FS_Subset DEF Occurrences
  <2>. QED  BY <2>1, FS_CardinalityType
<1>4. Good(0)
  <2>1. ASSUME NEW u \in Ids PROVE Cardinality(Part(0, u)) = 0
    <3>1. Part(0, u) = {}
      OBVIOUS
    <3>. QED  BY <3>1, FS_EmptySet
  <2>2. ASSUME fresh PROVE KeepsRows(rows)
    <3>. DEFINE at == [p \in 1..Len(rows) |-> p]
    <3>1. {j \in DOMAIN rows : Shown(rows[j])} = 1..Len(rows)
      BY <1>1, <2>2
    <3>2. Increases(at, Len(rows), 1..Len(rows))
      BY <1>1 DEF Increases
    <3>3. \A i \in 1..Len(rows) : rows[at[i]] = rows[i]
      OBVIOUS
    <3>. HIDE DEF at
    <3>. QED  BY <3>1, <3>2, <3>3 DEF KeepsRows
  <2>. HIDE DEF Part, fresh
  <2>. QED  BY <1>2, <1>3, <2>1, <2>2
<1>5. ASSUME NEW k \in Nat, k \in T PROVE k + 1 \in T
  <2>. SUFFICES ASSUME k + 1 <= n PROVE Good(k + 1)
    OBVIOUS
  <2>1. k + 1 \in 1..n /\ (k + 1) - 1 = k /\ k <= n
    BY <1>1
  <2>2. Good(k)
    BY <1>5, <2>1
  <2>. DEFINE u == new[k + 1]
  <2>3. u \in Ids /\ pos[k + 1] \in Nat
    BY <1>1, <2>1
  <2>4. r[k + 1] = InsertRow(r[k], pos[k + 1], u)
    BY <1>2, <2>1
  <2>5. Adds(r[k], r[k + 1], RowFor(r[k], pos[k + 1]), u)
    BY <2>2, <2>3, <2>4, InsertRowAdds
  <2>6. ASSUME NEW v \in Ids
        PROVE  /\ Cardinality(Part(k + 1, v)) \in Nat
               /\ Cardinality(Part(k + 1, v))
                    = Cardinality(Part(k, v)) + (IF u = v THEN 1 ELSE 0)
    <3>1. IsFiniteSet(Part(k, v)) /\ Cardinality(Part(k, v)) \in Nat
      <4>1. IsFiniteSet(1..k)
        BY FS_Interval
      <4>2. IsFiniteSet(Part(k, v))
        BY <4>1, FS_Subset
      <4>. QED  BY <4>2, FS_CardinalityType
    <3>2. /\ k + 1 \notin Part(k, v)
          /\ Part(k + 1, v) = IF u = v THEN Part(k, v) \cup {k + 1} ELSE Part(k, v)
      OBVIOUS
    <3>. HIDE DEF Part, u
    <3>3. Cardinality(Part(k, v) \cup {k + 1}) = Cardinality(Part(k, v)) + 1
      BY <3>1, <3>2, FS_AddElement
    <3>. QED  BY <3>1, <3>2, <3>3
  <2>7. ASSUME fresh PROVE KeepsRows(r[k + 1])
    <3>1. ~Shown(u)
      BY <1>1, <2>1, <2>7
    <3>. HIDE DEF u
    <3>. QED  BY <2>2, <2>5, <2>7, <3>1, AddsKeeps
  <2>. HIDE DEF u, Part, fresh
  <2>8. r[k + 1] \in Seq(Ids)
    BY <2>5 DEF Adds
  <2>9. ASSUME NEW v \in Ids
        PROVE  Cardinality(Occurrences(r[k + 1], v))
                 = Cardinality(Occurrences(rows, v)) + Cardinality(Part(k + 1, v))
    <3>1. Cardinality(Occurrences(r[k + 1], v))
            = Cardinality(Occurrences(r[k], v)) + (IF u = v THEN 1 ELSE 0)
      BY <2>5, AddsCounts
    <3>2. /\ Cardinality(Occurrences(r[k], v))
               = Cardinality(Occurrences(rows, v)) + Cardinality(Part(k, v))
          /\ Cardinality(Part(k, v)) \in Nat
          /\ Cardinality(Occurrences(rows, v)) \in Nat
      BY <1>3, <2>2
    <3>3. Cardinality(Part(k + 1, v))
            = Cardinality(Part(k, v)) + (IF u = v THEN 1 ELSE 0)
      BY <2>6
    <3>. QED  BY <3>1, <3>2, <3>3
  <2>. QED  BY <2>6, <2>7, <2>8, <2>9
<1>. HIDE DEF Good
<1>6. Nat \subseteq T
  <2>1. 0 \in T
    BY <1>4
  <2>. HIDE DEF T
  <2>. QED  BY <1>5, <2>1, NaturalsBySuccessor
<1>7. Good(n)
  BY <1>1, <1>6
<1>8. \A u \in Ids : Part(n, u) = Occurrences(new, u)
  BY <1>1 DEF Occurrences
<1>. QED  BY <1>2, <1>7, <1>8 DEF Good

-----------------------------------------------------------------------------
(* The table of ids *)

\* What is jammed in: all of it, the last first, with the old ids behind.
LEMMA JamInFacts ==
  ASSUME ids \in Seq(Ids), NEW new \in Seq(Ids)
  PROVE  /\ JamIn(new) \in Seq(Ids) /\ Len(JamIn(new)) = Len(new) + Len(ids)
         /\ \A i \in 1..(Len(new) + Len(ids)) :
              JamIn(new)[i] = IF i <= Len(new) THEN new[(Len(new) - i) + 1]
                              ELSE ids[i - Len(new)]
         /\ \A u \in Ids :
              Cardinality(Occurrences(JamIn(new), u))
                = Cardinality(Occurrences(ids, u)) + Cardinality(Occurrences(new, u))
<1>. DEFINE n == Len(new)
            m == Len(ids)
            a == Reverse(new)
            t == JamIn(new)
<1>1. /\ n \in Nat /\ DOMAIN new = 1..n /\ m \in Nat /\ DOMAIN ids = 1..m
      /\ \A i \in 1..n : new[i] \in Ids
      /\ IsFiniteSet(DOMAIN ids) /\ IsFiniteSet(DOMAIN new)
  BY SequenceOfIds
<1>2. a = [i \in 1..n |-> new[(n - i) + 1]]
  BY DEF Reverse
<1>3. \A i \in 1..n : (n - i) + 1 \in 1..n
  BY <1>1
<1>4. a \in Seq(Ids) /\ Len(a) = n
  BY <1>1, <1>2, <1>3
<1>. HIDE DEF a
<1>5. /\ a \o ids \in Seq(Ids) /\ Len(a \o ids) = Len(a) + Len(ids)
      /\ \A i \in 1..(Len(a) + Len(ids)) :
           (a \o ids)[i] = IF i <= Len(a) THEN a[i] ELSE ids[i - Len(a)]
  BY <1>4, ConcatProperties
<1>6. t = a \o ids
  BY DEF JamIn, a
<1>. HIDE DEF t, n, m
<1>7. /\ t \in Seq(Ids) /\ Len(t) = n + m /\ DOMAIN t = 1..(n + m)
      /\ \A i \in 1..(n + m) : t[i] = IF i <= n THEN new[(n - i) + 1] ELSE ids[i - n]
  <2>1. t \in Seq(Ids) /\ Len(t) = n + m
    BY <1>4, <1>5, <1>6 DEF m
  <2>2. \A i \in 1..(n + m) : t[i] = IF i <= n THEN a[i] ELSE ids[i - n]
    BY <1>4, <1>5, <1>6 DEF m
  <2>3. \A i \in 1..(n + m) : i <= n => a[i] = new[(n - i) + 1]
    BY <1>1, <1>2
  <2>. QED  BY <2>1, <2>2, <2>3, SequenceOfIds
<1>8. ASSUME NEW u \in Ids
      PROVE  Cardinality(Occurrences(t, u))
               = Cardinality(Occurrences(ids, u)) + Cardinality(Occurrences(new, u))
  <2>. DEFINE A == Occurrences(new, u)
              B == Occurrences(ids, u)
              C == {i \in 1..n : t[i] = u}
              D == {i \in (n + 1)..(n + m) : t[i] = u}
              f == [i \in A |-> (n - i) + 1]
              g == [i \in B |-> i + n]
  <2>1. IsFiniteSet(A) /\ IsFiniteSet(B) /\ A \subseteq 1..n /\ B \subseteq 1..m
    BY <1>1, FS_Subset DEF Occurrences
  <2>2. \A i \in 1..n : t[i] = new[(n - i) + 1]
    BY <1>1, <1>7
  <2>3. f \in [A -> C]
    <3>1. ASSUME NEW i \in A PROVE (n - i) + 1 \in C
      <4>1. (n - i) + 1 \in 1..n /\ (n - ((n - i) + 1)) + 1 = i
        BY <1>1, <2>1
      <4>2. new[i] = u
        BY DEF Occurrences
      <4>. QED  BY <2>2, <4>1, <4>2
    <3>. QED  BY <3>1
  <2>4. \A i, j \in A : f[i] = f[j] => i = j
    BY <1>1, <2>1
  <2>5. ASSUME NEW k \in C PROVE \E i \in A : f[i] = k
    <3>1. (n - k) + 1 \in 1..n /\ (n - ((n - k) + 1)) + 1 = k
      BY <1>1
    <3>2. new[(n - k) + 1] = u
      BY <2>2
    <3>3. (n - k) + 1 \in A
      BY <1>1, <3>1, <3>2 DEF Occurrences
    <3>. QED  BY <3>1, <3>3
  <2>6. g \in [B -> D]
    <3>1. ASSUME NEW i \in B PROVE i + n \in D
      <4>1. /\ i + n \in (n + 1)..(n + m) /\ i + n \in 1..(n + m)
            /\ ~ (i + n <= n) /\ (i + n) - n = i
        BY <1>1, <2>1
      <4>2. ids[i] = u
        BY DEF Occurrences
      <4>3. t[i + n] = ids[i]
        BY <1>7, <4>1
      <4>. QED  BY <4>1, <4>2, <4>3
    <3>. QED  BY <3>1
  <2>7. \A i, j \in B : g[i] = g[j] => i = j
    BY <1>1, <2>1
  <2>8. ASSUME NEW k \in D PROVE \E i \in B : g[i] = k
    <3>1. /\ k \in 1..(n + m) /\ ~ (k <= n) /\ k - n \in 1..m /\ (k - n) + n = k
      BY <1>1
    <3>2. ids[k - n] = u
      BY <1>7, <3>1
    <3>3. k - n \in B
      BY <1>1, <3>1, <3>2 DEF Occurrences
    <3>. QED  BY <3>1, <3>3
  <2>9. Occurrences(t, u) = C \cup D /\ C \cap D = {}
    <3>1. \A i \in 1..(n + m) : i \in 1..n \/ i \in (n + 1)..(n + m)
      BY <1>1
    <3>2. \A i : ~ (i \in 1..n /\ i \in (n + 1)..(n + m))
      BY <1>1
    <3>3. 1..n \subseteq 1..(n + m) /\ (n + 1)..(n + m) \subseteq 1..(n + m)
      BY <1>1
    <3>. QED  BY <1>7, <3>1, <3>2, <3>3 DEF Occurrences
  <2>. HIDE DEF A, B, C, D, f, g
  <2>10. f \in Bijection(A, C) /\ g \in Bijection(B, D)
    BY <2>3, <2>4, <2>5, <2>6, <2>7, <2>8, Fun_IsBij
  <2>11. /\ IsFiniteSet(C) /\ Cardinality(C) = Cardinality(A)
         /\ IsFiniteSet(D) /\ Cardinality(D) = Cardinality(B)
    BY <2>1, <2>10, FS_Bijection DEF ExistsBijection
  <2>12. Cardinality(C \cup D) = Cardinality(C) + Cardinality(D)
    <3>1. Cardinality(C \cap D) = 0
      BY <2>9, FS_EmptySet
    <3>2. Cardinality(C) \in Nat /\ Cardinality(D) \in Nat
      BY <2>11, FS_CardinalityType
    <3>3. Cardinality(C \cup D)
            = Cardinality(C) + Cardinality(D) - Cardinality(C \cap D)
      BY <2>11, FS_Union
    <3>. QED  BY <3>1, <3>2, <3>3
  <2>13. Cardinality(A) \in Nat /\ Cardinality(B) \in Nat
    BY <2>1, FS_CardinalityType
  <2>. QED  BY <2>9, <2>11, <2>12, <2>13 DEF A, B
<1>. QED  BY <1>7, <1>8 DEF t, n, m

-----------------------------------------------------------------------------
(* The invariant *)

\* No element is larger than one ahead of it.
Sorted(s) == \A i, j \in 1..Len(s) : i < j => s[i] >= s[j]

\* The ids are sorted as a whole, so that their head is the largest: without it
\* the majority case could not put a batch in front unsorted.  The rows are the
\* ids, so that what is not in the table is not in the rows either.
IInv == TypeOK /\ Sorted(ids) /\ RowsAreTheIds

\* Only what the table of ids holds is in the rows.
LEMMA RowsAreShown ==
  ASSUME IInv
  PROVE  \A i \in DOMAIN rows : Shown(rows[i])
<1>. SUFFICES ASSUME NEW i \in DOMAIN rows PROVE Shown(rows[i])
  OBVIOUS
<1>1. ids \in Seq(Ids) /\ rows \in Seq(Ids)
  BY DEF IInv, TypeOK
<1>. DEFINE u == rows[i]
            A == Occurrences(ids, u)
            B == Occurrences(rows, u)
<1>2. u \in Ids /\ i \in B /\ IsFiniteSet(B)
  BY <1>1, SequenceOfIds, FS_Subset DEF Occurrences
<1>3. Cardinality(A) = Cardinality(B)
  BY <1>2 DEF IInv, RowsAreTheIds
<1>4. IsFiniteSet(A)
  BY <1>1, SequenceOfIds, FS_Subset DEF Occurrences
<1>. HIDE DEF B
<1>5. A # {}
  BY <1>2, <1>3, <1>4, FS_EmptySet
<1>. QED  BY <1>5 DEF Occurrences, Shown

\* The majority case: when the oldest of the batch is newer than the head of
\* the table, none of the batch is shown.
LEMMA AllNewerMeansNew ==
  ASSUME IInv, NEW upd \in Seq(Ids),
         \A i, j \in 1..Len(upd) : i < j => upd[i] <= upd[j], AllNewer(upd)
  PROVE  /\ \A k \in DOMAIN upd : \A i \in DOMAIN ids : upd[k] > ids[i]
         /\ \A k \in DOMAIN upd : ~Shown(upd[k])
<1>. SUFFICES ASSUME NEW k \in DOMAIN upd, NEW i \in DOMAIN ids PROVE upd[k] > ids[i]
  <2>1. \A a \in DOMAIN upd, b \in DOMAIN ids :
          upd[a] \in Nat /\ ids[b] \in Nat /\ (upd[a] > ids[b] => upd[a] # ids[b])
    BY SequenceOfIds DEF IInv, TypeOK
  <2>. QED  BY <2>1 DEF Shown
<1>1. /\ Len(ids) \in Nat /\ i \in 1..Len(ids) /\ ids \in Seq(Ids)
      /\ \A b \in 1..Len(ids) : ids[b] \in Nat
  BY SequenceOfIds DEF IInv, TypeOK
<1>2. /\ Len(upd) \in Nat /\ k \in 1..Len(upd)
      /\ \A a \in 1..Len(upd) : upd[a] \in Nat
  BY SequenceOfIds
<1>3. 1 \in 1..Len(ids) /\ ids # <<>>
  BY <1>1, EmptySeq
<1>4. upd[1] > ids[1]
  BY <1>3 DEF AllNewer
<1>5. ids[1] >= ids[i]
  BY <1>1, <1>3 DEF IInv, Sorted
<1>6. 1 \in 1..Len(upd) /\ upd[1] <= upd[k]
  BY <1>2
<1>. QED  BY <1>1, <1>2, <1>3, <1>4, <1>5, <1>6

\* Whatever is recorded is a row number.
LEMMA RowPositionsAreNumbers ==
  ASSUME NEW new \in Seq(Ids), NEW all, Len(all) \in Nat,
         NEW pos \in RowPositions(new, all)
  PROVE  pos \in [DOMAIN new -> Nat]
<1>1. \A k \in DOMAIN new : k - 1 \in Nat
  BY SequenceOfIds
<1>2. DOMAIN pos = DOMAIN new /\ pos = [k \in DOMAIN new |-> pos[k]]
  BY DEF RowPositions
<1>3. ASSUME NEW k \in DOMAIN new PROVE pos[k] \in Nat
  <2>1. pos[k] = k - 1 \/ pos[k] \in 0..(Len(all) - 1)
    BY DEF RowPositions
  <2>. QED  BY <1>1, <2>1
<1>. QED  BY <1>2, <1>3

\* The two ways a batch is added, with what the invariant needs of each.
LEMMA Step ==
  ASSUME IInv, NEW batch \in Batches, AddUpdates(batch)
  PROVE  \E new, pos :
           /\ new \in Seq(Ids) /\ pos \in [DOMAIN new -> Nat]
           /\ \A k \in DOMAIN new : ~Shown(new[k])
           /\ rows' = InsertRows(new, pos)
           /\ \/ /\ ids' = JamIn(new) /\ Sorted(ids')
                 /\ pos = [k \in DOMAIN new |-> 0]
                 /\ ids # <<>> => Len(new) > 0
              \/ /\ ids' = JamInSorted(new)
                 /\ ids # <<>>
                 /\ pos \in RowPositions(new, ids')
<1>. DEFINE upd == Ascending(batch)
            new == Dedup(upd)
<1>1. batch \in Seq(Ids) /\ Len(batch) > 0
  <2>1. PICK n \in 0..MaxBatch : batch \in [1..n -> Ids]
    BY DEF Batches
  <2>2. n \in Nat
    BY <2>1, BatchAssumption
  <2>3. batch \in Seq(Ids)
    BY <2>1, <2>2
  <2>4. batch # <<>>
    BY DEF AddUpdates
  <2>. QED  BY <2>3, <2>4, EmptySeq
<1>2. /\ upd \in Seq(Ids) /\ Len(upd) = Len(batch)
      /\ \A i, j \in 1..Len(upd) : i < j => upd[i] <= upd[j]
  BY <1>1, AscendingFacts
<1>3. ids \in Seq(Ids) /\ rows \in Seq(Ids)
  BY DEF IInv, TypeOK
<1>4. /\ new \in Seq(Ids)
      /\ \A k \in DOMAIN new : ~Shown(new[k])
      /\ (\A i \in DOMAIN upd : ~Shown(upd[i])) => new = upd
  BY <1>2, DedupFacts
<1>5. \/ /\ AllNewer(upd) /\ ids' = JamIn(upd)
         /\ rows' = InsertRows(new, [k \in DOMAIN new |-> 0])
      \/ /\ ~AllNewer(upd) /\ ids' = JamInSorted(new)
         /\ \E pos \in RowPositions(new, ids') : rows' = InsertRows(new, pos)
  BY DEF AddUpdates
<1>. HIDE DEF upd, new
<1>6. CASE /\ AllNewer(upd) /\ ids' = JamIn(upd)
           /\ rows' = InsertRows(new, [k \in DOMAIN new |-> 0])
  <2>1. /\ \A k \in DOMAIN upd : \A i \in DOMAIN ids : upd[k] > ids[i]
        /\ \A k \in DOMAIN upd : ~Shown(upd[k])
    BY <1>2, <1>6, AllNewerMeansNew
  <2>2. new = upd
    BY <1>4, <2>1
  <2>3. Sorted(ids')
    <3>. DEFINE n == Len(upd)
                m == Len(ids)
                t == JamIn(upd)
    <3>1. /\ n \in Nat /\ m \in Nat /\ DOMAIN upd = 1..n /\ DOMAIN ids = 1..m
          /\ \A k \in 1..n : upd[k] \in Nat
          /\ \A k \in 1..m : ids[k] \in Nat
      BY <1>2, <1>3, SequenceOfIds
    <3>2. /\ Len(t) = n + m
          /\ \A i \in 1..(n + m) :
               t[i] = IF i <= n THEN upd[(n - i) + 1] ELSE ids[i - n]
      BY <1>2, <1>3, JamInFacts
    <3>. HIDE DEF n, m, t
    <3>3. ASSUME NEW i \in 1..(n + m), NEW j \in 1..(n + m), i < j
          PROVE  t[i] >= t[j]
      <4>1. CASE j <= n
        <5>1. /\ (n - i) + 1 \in 1..n /\ (n - j) + 1 \in 1..n
              /\ (n - j) + 1 < (n - i) + 1 /\ i <= n
          BY <3>1, <3>3, <4>1
        <5>2. upd[(n - j) + 1] <= upd[(n - i) + 1]
          BY <1>2, <5>1 DEF n
        <5>. QED  BY <3>1, <3>2, <4>1, <5>1, <5>2
      <4>2. CASE i <= n /\ j > n
        <5>1. (n - i) + 1 \in 1..n /\ j - n \in 1..m /\ ~ (j <= n)
          BY <3>1, <4>2
        <5>2. upd[(n - i) + 1] > ids[j - n]
          BY <2>1, <3>1, <5>1
        <5>. QED  BY <3>1, <3>2, <4>2, <5>1, <5>2
      <4>3. CASE i > n
        <5>1. /\ i - n \in 1..m /\ j - n \in 1..m /\ i - n < j - n
              /\ ~ (i <= n) /\ ~ (j <= n)
          BY <3>1, <3>3, <4>3
        <5>2. ids[i - n] >= ids[j - n]
          BY <5>1 DEF IInv, Sorted, m
        <5>. QED  BY <3>2, <5>1, <5>2
      <4>. QED  BY <3>1, <4>1, <4>2, <4>3
    <3>. QED  BY <1>6, <3>2, <3>3 DEF Sorted, t
  <2>4. [k \in DOMAIN new |-> 0] \in [DOMAIN new -> Nat]
    OBVIOUS
  <2>. QED  BY <1>1, <1>2, <1>4, <1>6, <2>2, <2>3, <2>4
<1>7. CASE /\ ~AllNewer(upd) /\ ids' = JamInSorted(new)
           /\ \E pos \in RowPositions(new, ids') : rows' = InsertRows(new, pos)
  <2>1. PICK pos \in RowPositions(new, ids') : rows' = InsertRows(new, pos)
    BY <1>7
  <2>2. Len(ids') \in Nat
    BY <1>3, <1>4, <1>7, JamInFacts, DescendingFacts, SequenceOfIds
       DEF JamInSorted, JamIn
  <2>3. pos \in [DOMAIN new -> Nat]
    BY <1>4, <2>2, RowPositionsAreNumbers
  <2>4. ids # <<>>
    BY <1>7 DEF AllNewer
  <2>. QED  BY <1>4, <1>7, <2>1, <2>3, <2>4
<1>. QED  BY <1>5, <1>6, <1>7

\* add_updates_to_model() keeps the table and the rows in agreement, for every
\* batch of any size.
THEOREM InductiveInvariant == Spec => []IInv
<1>1. Init => IInv
  <2>. SUFFICES ASSUME Init PROVE IInv
    OBVIOUS
  <2>1. TypeOK
    BY DEF Init, TypeOK
  <2>2. Sorted(ids)
    BY DEF Init, Sorted
  <2>3. RowsAreTheIds
    BY DEF Init, RowsAreTheIds
  <2>. QED  BY <2>1, <2>2, <2>3 DEF IInv
<1>2. ASSUME IInv, [Next]_vars PROVE IInv'
  <2>1. CASE UNCHANGED vars
    <3>1. UNCHANGED <<ids, rows>>
      BY <2>1 DEF vars
    <3>. QED  BY <1>2, <3>1 DEF IInv, TypeOK, Sorted, RowsAreTheIds, Occurrences
  <2>2. CASE Next
    <3>1. PICK batch \in Batches : AddUpdates(batch)
      BY <2>2 DEF Next
    <3>2. PICK new, pos :
            /\ new \in Seq(Ids) /\ pos \in [DOMAIN new -> Nat]
            /\ rows' = InsertRows(new, pos)
            /\ \/ ids' = JamIn(new) /\ Sorted(ids')
               \/ ids' = JamInSorted(new)
      BY <1>2, <3>1, Step
    <3>3. ids \in Seq(Ids) /\ rows \in Seq(Ids)
      BY <1>2 DEF IInv, TypeOK
    <3>4. /\ JamIn(new) \in Seq(Ids)
          /\ \A u \in Ids :
               Cardinality(Occurrences(JamIn(new), u))
                 = Cardinality(Occurrences(ids, u)) + Cardinality(Occurrences(new, u))
      BY <3>2, <3>3, JamInFacts
    <3>5. /\ ids' \in Seq(Ids) /\ Sorted(ids')
          /\ \A u \in Ids : Cardinality(Occurrences(ids', u))
                              = Cardinality(Occurrences(JamIn(new), u))
      <4>1. CASE ids' = JamIn(new) /\ Sorted(ids')
        BY <3>4, <4>1
      <4>2. CASE ids' = JamInSorted(new)
        <5>1. ids' = Descending(JamIn(new))
          BY <4>2 DEF JamInSorted, JamIn
        <5>. QED  BY <3>4, <5>1, DescendingFacts DEF Sorted
      <4>. QED  BY <3>2, <4>1, <4>2
    <3>6. /\ rows' \in Seq(Ids)
          /\ \A u \in Ids :
               Cardinality(Occurrences(rows', u))
                 = Cardinality(Occurrences(rows, u)) + Cardinality(Occurrences(new, u))
      BY <3>2, <3>3, InsertRowsFacts
    <3>7. RowsAreTheIds'
      <4>1. \A u \in Ids : Cardinality(Occurrences(ids', u))
                             = Cardinality(Occurrences(rows', u))
        BY <1>2, <3>4, <3>5, <3>6 DEF IInv, RowsAreTheIds
      <4>. QED  BY <4>1 DEF RowsAreTheIds, Occurrences
    <3>. QED  BY <3>5, <3>6, <3>7 DEF IInv, TypeOK, Sorted
  <2>. QED  BY <1>2, <2>1, <2>2
<1>. QED  BY <1>1, <1>2, PTL DEF Spec

-----------------------------------------------------------------------------
(* The properties *)

\* The arrays and the store only ever hold ids of updates.
THEOREM TableTyped == Spec => []TypeOK
<1>1. IInv => TypeOK
  BY DEF IInv
<1>. QED  BY <1>1, InductiveInvariant, PTL

\* add_to_current_ids() keeps what bsearch() needs: its assertion never fails
\* in the majority case, whatever the answers hold.
THEOREM IdsStaySorted == Spec => []IdsSorted
<1>1. ASSUME IInv PROVE IdsSorted
  <2>1. Len(ids) \in Nat /\ \A i \in 1..Len(ids) : ids[i] \in Nat
    BY <1>1, SequenceOfIds DEF IInv, TypeOK
  <2>2. \A i \in 1..(Len(ids) - 1) :
          i \in 1..Len(ids) /\ i + 1 \in 1..Len(ids) /\ i < i + 1
    BY <2>1
  <2>. QED  BY <1>1, <2>1, <2>2 DEF IInv, Sorted, IdsSorted
<1>. QED  BY <1>1, InductiveInvariant, PTL

\* The table of ids never says anything else than the rows do.
THEOREM RowsMatchIds == Spec => []RowsAreTheIds
<1>1. IInv => RowsAreTheIds
  BY DEF IInv
<1>. QED  BY <1>1, InductiveInvariant, PTL

\* An answer that overlaps an earlier one disturbs no row that is shown.
THEOREM RowsStay == Spec => ShownRowsStay
<1>. DEFINE Kept(t) == Where(t, {i \in DOMAIN t : Shown(t[i])}) = rows
<1>1. ASSUME rows \in Seq(Ids), NEW t \in Seq(Ids), KeepsRows(t) PROVE Kept(t)
  <2>. DEFINE K == {i \in DOMAIN t : Shown(t[i])}
  <2>1. PICK at : /\ Increases(at, Len(rows), K)
                  /\ \A i \in 1..Len(rows) : t[at[i]] = rows[i]
    BY <1>1 DEF KeepsRows
  <2>2. K \subseteq Nat /\ Len(rows) \in Nat /\ DOMAIN rows = 1..Len(rows)
    <3>1. Len(t) \in Nat /\ DOMAIN t = 1..Len(t)
      BY SequenceOfIds
    <3>2. Len(rows) \in Nat /\ DOMAIN rows = 1..Len(rows)
      BY <1>1, SequenceOfIds
    <3>. QED  BY <3>1, <3>2
  <2>3. rows = [p \in 1..Len(rows) |-> rows[p]]
    BY <1>1, SequenceOfIds
  <2>. HIDE DEF K
  <2>4. Where(t, K) = [p \in 1..Len(rows) |-> t[at[p]]]
    <3>1. K \in SUBSET Nat /\ Len(rows) \in Nat /\ Increases(at, Len(rows), K)
      BY <2>1, <2>2
    <3>. QED  BY <3>1, WhereAs
  <2>5. [p \in 1..Len(rows) |-> t[at[p]]] = [p \in 1..Len(rows) |-> rows[p]]
    BY <2>1
  <2>6. Where(t, K) = rows
    BY <2>3, <2>4, <2>5
  <2>. QED  BY <2>6 DEF K
<1>2. ASSUME IInv, [Next]_vars, rows' # rows \/ ids' # ids PROVE Kept(rows')
  <2>1. PICK batch \in Batches : AddUpdates(batch)
    BY <1>2 DEF Next, vars
  <2>2. PICK new, pos :
          /\ new \in Seq(Ids) /\ pos \in [DOMAIN new -> Nat]
          /\ \A k \in DOMAIN new : ~Shown(new[k])
          /\ rows' = InsertRows(new, pos)
    BY <1>2, <2>1, Step
  <2>3. rows \in Seq(Ids) /\ \A i \in DOMAIN rows : Shown(rows[i])
    BY <1>2, RowsAreShown DEF IInv, TypeOK
  <2>4. rows' \in Seq(Ids) /\ KeepsRows(rows')
    BY <2>2, <2>3, InsertRowsFacts
  <2>. HIDE DEF Kept
  <2>. QED  BY <1>1, <2>3, <2>4
<1>3. IInv /\ [Next]_vars => [Kept(rows')]_vars
  <2>. HIDE DEF Kept
  <2>. QED  BY <1>2 DEF vars
<1>. QED  BY <1>3, InductiveInvariant, PTL DEF Spec, ShownRowsStay

-----------------------------------------------------------------------------
(* The order of the rows *)

\* Rows that are all inserted at the top come out as current_ids has them.
LEMMA InsertedAtTop ==
  ASSUME rows \in Seq(Ids), NEW new \in Seq(Ids), rows = ids
  PROVE  InsertRows(new, [k \in DOMAIN new |-> 0]) = JamIn(new)
<1>. DEFINE n == Len(new)
            m == Len(rows)
            pos == [k \in DOMAIN new |-> 0]
<1>1. /\ n \in Nat /\ DOMAIN new = 1..n /\ m \in Nat
      /\ \A k \in 1..n : new[k] \in Ids /\ pos[k] = 0
  BY SequenceOfIds
<1>2. PICK r : /\ r[0] = rows
               /\ \A k \in 1..n : r[k] = InsertRow(r[k - 1], pos[k], new[k])
               /\ InsertRows(new, pos) = r[n]
  BY <1>1, InsertRowsStepwise
<1>. DEFINE Good(k) ==
              /\ r[k] \in Seq(Ids) /\ Len(r[k]) = k + m
              /\ \A i \in 1..(k + m) :
                   r[k][i] = IF i <= k THEN new[(k - i) + 1] ELSE rows[i - k]
            T == {k \in Nat : k <= n => Good(k)}
<1>. HIDE DEF n, m, pos
<1>3. Good(0)
  <2>1. Len(r[0]) = 0 + m /\ \A i \in 1..(0 + m) : ~ (i <= 0) /\ i - 0 = i
    BY <1>1, <1>2 DEF m
  <2>. QED  BY <1>2, <2>1
<1>4. ASSUME NEW k \in Nat, k \in T PROVE k + 1 \in T
  <2>. SUFFICES ASSUME k + 1 <= n PROVE Good(k + 1)
    OBVIOUS
  <2>1. k + 1 \in 1..n /\ (k + 1) - 1 = k /\ k <= n
    BY <1>1
  <2>2. Good(k)
    BY <1>4, <2>1
  <2>3. r[k + 1] = InsertRow(r[k], 0, new[k + 1])
    BY <1>1, <1>2, <2>1
  <2>4. Adds(r[k], r[k + 1], 0, new[k + 1])
    <3>1. Adds(r[k], r[k + 1], RowFor(r[k], 0), new[k + 1])
      BY <1>1, <2>1, <2>2, <2>3, InsertRowAdds
    <3>2. RowFor(r[k], 0) = 0
      BY <1>1, <2>2 DEF RowFor
    <3>. QED  BY <3>1, <3>2
  <2>5. r[k + 1] \in Seq(Ids) /\ Len(r[k + 1]) = (k + 1) + m
    BY <1>1, <2>2, <2>4 DEF Adds
  <2>6. ASSUME NEW i \in 1..((k + 1) + m)
        PROVE  r[k + 1][i] = IF i <= k + 1 THEN new[((k + 1) - i) + 1]
                             ELSE rows[i - (k + 1)]
    <3>1. i \in 1..(Len(r[k]) + 1)
      BY <1>1, <2>2
    <3>2. r[k + 1][i] = IF i = 1 THEN new[k + 1] ELSE r[k][i - 1]
      <4>1. r[k + 1][i] = IF i <= 0 THEN r[k][i]
                          ELSE IF i = 0 + 1 THEN new[k + 1] ELSE r[k][i - 1]
        BY <2>4, <3>1 DEF Adds
      <4>. QED  BY <1>1, <4>1
    <3>3. CASE i = 1
      BY <3>2, <3>3
    <3>4. CASE i # 1
      <4>1. i - 1 \in 1..(k + m)
        BY <1>1, <3>4
      <4>2. r[k][i - 1] = IF i - 1 <= k THEN new[(k - (i - 1)) + 1] ELSE rows[(i - 1) - k]
        BY <2>2, <4>1
      <4>3. /\ (k - (i - 1)) + 1 = ((k + 1) - i) + 1 /\ (i - 1) - k = i - (k + 1)
            /\ (i - 1 <= k) = (i <= k + 1)
        BY <1>1
      <4>. QED  BY <3>2, <3>4, <4>2, <4>3
    <3>. QED  BY <3>3, <3>4
  <2>. QED  BY <2>5, <2>6
<1>. HIDE DEF Good
<1>5. Nat \subseteq T
  <2>1. 0 \in T
    BY <1>3
  <2>. HIDE DEF T
  <2>. QED  BY <1>4, <2>1, NaturalsBySuccessor
<1>6. Good(n)
  BY <1>1, <1>5
<1>7. /\ JamIn(new) \in Seq(Ids) /\ Len(JamIn(new)) = n + m
      /\ \A i \in 1..(n + m) :
           JamIn(new)[i] = IF i <= n THEN new[(n - i) + 1] ELSE rows[i - n]
  BY JamInFacts DEF n, m
<1>8. r[n] = JamIn(new)
  <2>1. r[n] \in Seq(Ids) /\ Len(r[n]) = n + m
    BY <1>6 DEF Good
  <2>2. \A i \in 1..(n + m) : r[n][i] = JamIn(new)[i]
    BY <1>6, <1>7 DEF Good
  <2>. QED  BY <1>7, <2>1, <2>2, SeqEqual
<1>. QED  BY <1>2, <1>8 DEF pos

\* One new id goes behind those that are larger.
LEMMA OneGoesInPlace ==
  ASSUME IInv, NEW new \in Seq(Ids), Len(new) = 1, ~Shown(new[1])
  PROVE  \E q : /\ Adds(ids, JamInSorted(new), q, new[1])
                /\ \A i \in 1..q : ids[i] > new[1]
<1>. DEFINE u == new[1]
            m == Len(ids)
            t == JamIn(new)
            before == AheadByGreater(t)
<1>1. /\ ids \in Seq(Ids) /\ m \in Nat /\ DOMAIN ids = 1..m
      /\ \A i \in 1..m : ids[i] \in Nat /\ ids[i] # u
      /\ u \in Ids /\ u \in Nat
      /\ \A i, j \in 1..m : i < j => ids[i] >= ids[j]
  <2>1. ids \in Seq(Ids) /\ Sorted(ids)
    BY DEF IInv, TypeOK
  <2>2. 1 \in DOMAIN new
    BY SequenceOfIds
  <2>. QED  BY <2>1, <2>2, SequenceOfIds DEF Sorted, Shown
<1>. HIDE DEF m, u
<1>2. PICK q \in 0..m : /\ \A i \in 1..q : ids[i] > u
                        /\ \A i \in (q + 1)..m : ids[i] < u
  <2>. DEFINE C == {k \in Nat : k <= m /\ (k = m \/ ids[k + 1] < u)}
  <2>1. m \in C /\ C \subseteq Nat
    BY <1>1
  <2>2. PICK q \in Nat : q \in C /\ \A k \in C : q <= k
    <3>. HIDE DEF C
    <3>. QED  BY <2>1, LeastNatural
  <2>3. q <= m /\ (q = m \/ ids[q + 1] < u)
    BY <2>2
  <2>4. ASSUME NEW i \in 1..q PROVE ids[i] > u
    <3>1. /\ i - 1 \in Nat /\ i - 1 <= m /\ i - 1 # m /\ (i - 1) + 1 = i
          /\ ~ (q <= i - 1) /\ i \in 1..m
      BY <1>1, <2>3
    <3>2. i - 1 \notin C
      BY <2>2, <3>1
    <3>3. ~ (ids[i] < u)
      BY <3>1, <3>2
    <3>. QED  BY <1>1, <3>1, <3>3
  <2>5. ASSUME NEW i \in (q + 1)..m PROVE ids[i] < u
    <3>1. q + 1 \in 1..m /\ i \in 1..m /\ (q + 1 = i \/ q + 1 < i) /\ ids[q + 1] < u
      BY <1>1, <2>3
    <3>2. ids[q + 1] >= ids[i]
      BY <1>1, <3>1
    <3>. QED  BY <1>1, <3>1, <3>2
  <2>. QED  BY <2>3, <2>4, <2>5
<1>3. /\ t \in Seq(Ids) /\ Len(t) = m + 1 /\ t[1] = u /\ DOMAIN t = 1..(m + 1)
      /\ \A i \in 2..(m + 1) : t[i] = ids[i - 1]
  <2>1. /\ t \in Seq(Ids) /\ Len(t) = 1 + m
        /\ \A i \in 1..(1 + m) :
             t[i] = IF i <= 1 THEN new[(1 - i) + 1] ELSE ids[i - 1]
    BY <1>1, JamInFacts DEF m
  <2>. HIDE DEF t
  <2>2. Len(t) = m + 1 /\ DOMAIN t = 1..(m + 1)
    BY <1>1, <2>1, SequenceOfIds
  <2>3. t[1] = new[1]
    <3>1. 1 \in 1..(1 + m) /\ (1 - 1) + 1 = 1
      BY <1>1
    <3>. QED  BY <2>1, <3>1
  <2>. USE DEF u
  <2>4. \A i \in 2..(m + 1) : i \in 1..(1 + m) /\ ~ (i <= 1)
    BY <1>1
  <2>. QED  BY <2>1, <2>2, <2>3, <2>4
<1>. DEFINE at == [p \in 1..(m + 1) |-> IF p <= q THEN p + 1
                                        ELSE IF p = q + 1 THEN 1 ELSE p]
            K == DOMAIN t
            d == Descending(t)
<1>4. JamInSorted(new) = d /\ d = Arranged(t, before) /\ Orders(before, K)
  BY <1>3, ComparisonsOrder DEF JamInSorted, JamIn, Descending
<1>. HIDE DEF t
<1>5. ASSUME NEW p \in 1..(m + 1)
      PROVE  /\ at[p] \in K
             /\ t[at[p]] = IF p <= q THEN ids[p] ELSE IF p = q + 1 THEN u ELSE ids[p - 1]
  <2>1. CASE p <= q
    <3>1. at[p] = p + 1 /\ p + 1 \in 2..(m + 1) /\ (p + 1) - 1 = p
      BY <1>1, <2>1
    <3>. QED  BY <1>1, <1>3, <2>1, <3>1
  <2>2. CASE p = q + 1
    <3>1. at[p] = 1 /\ ~ (p <= q)
      BY <1>1, <2>2
    <3>. QED  BY <1>1, <1>3, <2>2, <3>1
  <2>3. CASE p > q + 1
    <3>1. at[p] = p /\ ~ (p <= q) /\ p # q + 1 /\ p \in 2..(m + 1)
      BY <1>1, <2>3
    <3>. QED  BY <1>1, <1>3, <3>1
  <2>. QED  BY <1>1, <2>1, <2>2, <2>3
<1>6. ASSUME NEW i \in K PROVE \E p \in 1..(m + 1) : at[p] = i
  <2>1. CASE i = 1
    <3>1. q + 1 \in 1..(m + 1) /\ ~ (q + 1 <= q)
      BY <1>1
    <3>. QED  BY <2>1, <3>1
  <2>2. CASE i # 1 /\ i - 1 <= q
    <3>1. i - 1 \in 1..(m + 1) /\ (i - 1) + 1 = i
      BY <1>1, <1>3, <2>2
    <3>. QED  BY <2>2, <3>1
  <2>3. CASE i # 1 /\ i - 1 > q
    <3>1. i \in 1..(m + 1) /\ ~ (i <= q) /\ i # q + 1
      BY <1>1, <1>3, <2>3
    <3>. QED  BY <3>1
  <2>. QED  BY <1>1, <1>3, <2>1, <2>2, <2>3
<1>7. ASSUME NEW p \in 1..(m + 1), NEW o \in 1..(m + 1), p < o
      PROVE  at[p] \in before[at[o]]
  <2>1. /\ at[p] \in K /\ at[o] \in K
        /\ t[at[p]] = IF p <= q THEN ids[p] ELSE IF p = q + 1 THEN u ELSE ids[p - 1]
        /\ t[at[o]] = IF o <= q THEN ids[o] ELSE IF o = q + 1 THEN u ELSE ids[o - 1]
    BY <1>5
  <2>2. \/ t[at[p]] > t[at[o]]
        \/ t[at[p]] = t[at[o]] /\ at[p] < at[o]
    <3>1. CASE o <= q
      <4>1. p \in 1..m /\ o \in 1..m /\ p <= q /\ at[p] = p + 1 /\ at[o] = o + 1
        BY <1>1, <1>7, <3>1
      <4>2. ids[p] >= ids[o]
        BY <1>1, <1>7, <4>1
      <4>. QED  BY <1>1, <1>7, <2>1, <3>1, <4>1, <4>2
    <3>2. CASE o = q + 1
      <4>1. p \in 1..q /\ p <= q /\ ~ (o <= q)
        BY <1>1, <1>7, <3>2
      <4>. QED  BY <1>2, <2>1, <3>2, <4>1
    <3>3. CASE o > q + 1 /\ p <= q
      <4>1. p \in 1..q /\ p \in 1..m /\ o - 1 \in (q + 1)..m /\ o - 1 \in 1..m
            /\ ~ (o <= q) /\ o # q + 1
        BY <1>1, <3>3
      <4>2. ids[p] > u /\ u > ids[o - 1]
        BY <1>1, <1>2, <4>1
      <4>. QED  BY <1>1, <2>1, <3>3, <4>1, <4>2
    <3>4. CASE o > q + 1 /\ p = q + 1
      <4>1. o - 1 \in (q + 1)..m /\ o - 1 \in 1..m /\ ~ (o <= q) /\ o # q + 1 /\ ~ (p <= q)
        BY <1>1, <3>4
      <4>2. u > ids[o - 1]
        BY <1>1, <1>2, <4>1
      <4>. QED  BY <2>1, <3>4, <4>1, <4>2
    <3>5. CASE o > q + 1 /\ p > q + 1
      <4>1. /\ p - 1 \in 1..m /\ o - 1 \in 1..m /\ p - 1 < o - 1
            /\ ~ (o <= q) /\ o # q + 1 /\ ~ (p <= q) /\ p # q + 1
            /\ at[p] = p /\ at[o] = o
        BY <1>1, <1>7, <3>5
      <4>2. ids[p - 1] >= ids[o - 1]
        BY <1>1, <4>1
      <4>. QED  BY <1>1, <1>7, <2>1, <4>1, <4>2
    <3>. QED  BY <1>1, <3>1, <3>2, <3>3, <3>4, <3>5
  <2>. HIDE DEF at
  <2>. QED  BY <2>1, <2>2 DEF AheadByGreater
<1>8. d = [p \in 1..(m + 1) |-> t[at[p]]]
  <2>1. at \in [1..(m + 1) -> K] /\ m + 1 \in Nat
    <3>1. \A p \in 1..(m + 1) : at[p] \in K
      BY <1>5
    <3>2. at = [p \in 1..(m + 1) |-> at[p]]
      OBVIOUS
    <3>. HIDE DEF at, K
    <3>. QED  BY <1>1, <3>1, <3>2
  <2>. HIDE DEF at, before, d
  <2>2. Lists(at, m + 1, before, K)
    <3>. HIDE DEF K
    <3>. QED  BY <1>6, <1>7, <2>1 DEF Lists
  <2>3. Arranged(t, before) = [p \in 1..(m + 1) |-> t[at[p]]]
    <3>. DEFINE n == m + 1
    <3>1. n \in Nat /\ Orders(before, K) /\ Lists(at, n, before, K)
      BY <1>4, <2>1, <2>2
    <3>. HIDE DEF n, K
    <3>2. Arranged(t, before) = [p \in 1..n |-> t[at[p]]]
      BY <3>1, ArrangedAs
    <3>. QED  BY <3>2 DEF n
  <2>. QED  BY <1>4, <2>3
<1>9. d \in Seq(Ids) /\ Len(d) = m + 1
  BY <1>3, DescendingFacts
<1>. HIDE DEF at, d
<1>10. Adds(ids, d, q, u)
  <2>1. \A p \in 1..(m + 1) :
          d[p] = IF p <= q THEN ids[p] ELSE IF p = q + 1 THEN u ELSE ids[p - 1]
    BY <1>5, <1>8
  <2>. QED  BY <1>1, <1>9, <2>1 DEF Adds, m
<1>. QED  BY <1>2, <1>4, <1>10 DEF u

LEMMA AddsSame ==
  ASSUME NEW s, NEW t, NEW d, NEW q, NEW u, Adds(s, t, q, u), Adds(s, d, q, u)
  PROVE  t = d
<1>1. t \in Seq(Ids) /\ d \in Seq(Ids) /\ Len(t) = Len(d)
  BY DEF Adds
<1>2. \A i \in 1..Len(t) : t[i] = d[i]
  BY DEF Adds
<1>. QED  BY <1>1, <1>2, SeqEqual

\* The first answer, and an answer with one new update, leave the rows in the
\* order of current_ids.
THEOREM AloneInOrder == Spec => InOrderWhenAlone
<1>. DEFINE few == ids = <<>> \/ Len(ids') <= Len(ids) + 1
<1>1. ASSUME IInv, Next, rows = ids, few PROVE rows' = ids'
  <2>1. PICK batch \in Batches : AddUpdates(batch)
    BY <1>1 DEF Next
  <2>2. PICK new, pos :
          /\ new \in Seq(Ids) /\ pos \in [DOMAIN new -> Nat]
          /\ \A k \in DOMAIN new : ~Shown(new[k])
          /\ rows' = InsertRows(new, pos)
          /\ \/ ids' = JamIn(new) /\ pos = [k \in DOMAIN new |-> 0]
             \/ /\ ids' = JamInSorted(new) /\ ids # <<>>
                /\ pos \in RowPositions(new, ids')
    BY <1>1, <2>1, Step
  <2>3. /\ ids \in Seq(Ids) /\ rows \in Seq(Ids) /\ Sorted(ids)
        /\ Len(ids) \in Nat /\ DOMAIN ids = 1..Len(ids)
        /\ Len(new) \in Nat /\ DOMAIN new = 1..Len(new)
    BY <1>1, <2>2, SequenceOfIds DEF IInv, TypeOK
  <2>4. CASE ids' = JamIn(new) /\ pos = [k \in DOMAIN new |-> 0]
    BY <1>1, <2>2, <2>3, <2>4, InsertedAtTop
  <2>5. CASE /\ ids' = JamInSorted(new) /\ ids # <<>>
             /\ pos \in RowPositions(new, ids')
    <3>1. JamIn(new) \in Seq(Ids) /\ Len(JamIn(new)) = Len(new) + Len(ids)
      BY <2>2, <2>3, JamInFacts
    <3>2. ids' = Descending(JamIn(new))
      BY <2>5 DEF JamInSorted, JamIn
    <3>3. Len(ids') = Len(new) + Len(ids)
      BY <3>1, <3>2, DescendingFacts
    <3>4. Len(new) <= 1
      BY <1>1, <2>3, <2>5, <3>3
    <3>5. PICK r : /\ r[0] = rows
                   /\ \A k \in 1..Len(new) : r[k] = InsertRow(r[k - 1], pos[k], new[k])
                   /\ rows' = r[Len(new)]
      BY <2>2, <2>3, InsertRowsStepwise
    <3>6. CASE Len(new) = 0
      <4>1. \A i \in 1..Len(ids) : JamIn(new)[i] = ids[i]
        <5>1. \A i \in 1..(Len(new) + Len(ids)) :
                JamIn(new)[i] = IF i <= Len(new) THEN new[(Len(new) - i) + 1]
                                ELSE ids[i - Len(new)]
          BY <2>2, <2>3, JamInFacts
        <5>2. \A i \in 1..Len(ids) :
                i \in 1..(0 + Len(ids)) /\ ~ (i <= 0) /\ i - 0 = i
          BY <2>3
        <5>. QED  BY <3>6, <5>1, <5>2
      <4>2. JamIn(new) = ids
        <5>1. Len(JamIn(new)) = Len(ids)
          BY <2>3, <3>1, <3>6
        <5>. QED  BY <2>3, <3>1, <4>1, <5>1, SeqEqual
      <4>3. ids' = ids
        BY <2>3, <3>2, <4>2, SortedStays DEF Sorted
      <4>. QED  BY <1>1, <3>5, <3>6, <4>3
    <3>7. CASE Len(new) = 1
      <4>1. 1 \in DOMAIN new /\ 1 \in 1..Len(new)
        BY <2>3, <3>7
      <4>2. new[1] \in Ids /\ ~Shown(new[1]) /\ pos[1] \in Nat
        BY <2>2, <4>1, SequenceOfIds
      <4>3. PICK q : Adds(ids, ids', q, new[1]) /\ \A i \in 1..q : ids[i] > new[1]
        BY <1>1, <2>2, <2>5, <3>7, <4>2, OneGoesInPlace
      <4>4. q \in Nat /\ q <= Len(ids)
        BY <2>3, <4>3 DEF Adds
      <4>5. pos[1] = q
        <5>1. \A i \in 1..Len(ids) : ids[i] \in Nat /\ new[1] \in Nat /\ ids[i] # new[1]
          <6>1. new[1] \in Nat
            BY <4>2, IdAssumption
          <6>2. \A i \in 1..Len(ids) : ids[i] # new[1]
            BY <2>3, <4>2 DEF Shown
          <6>. QED  BY <2>3, <6>1, <6>2, SequenceOfIds
        <5>2. \/ pos[1] = 0 /\ new[1] > ids[1]
              \/ pos[1] \in 0..(Len(ids') - 1) /\ ids'[pos[1] + 1] = new[1]
          <6>1. \/ (\A j \in 1..1 : new[j] > ids[1]) /\ pos[1] \in {1 - 1}
                \/ pos[1] \in {p \in 0..(Len(ids') - 1) : ids'[p + 1] = new[1]}
            BY <2>5, <4>1 DEF RowPositions
          <6>2. 1 \in 1..1 /\ 1 - 1 = 0
            OBVIOUS
          <6>. QED  BY <6>1, <6>2
        <5>3. CASE pos[1] = 0 /\ new[1] > ids[1]
          <6>1. 1 \in 1..Len(ids)
            BY <2>3, <2>5, EmptySeq
          <6>2. 1 \notin 1..q
            BY <4>3, <5>1, <5>3, <6>1
          <6>. QED  BY <4>4, <5>3, <6>2
        <5>4. CASE pos[1] \in 0..(Len(ids') - 1) /\ ids'[pos[1] + 1] = new[1]
          <6>. DEFINE i == pos[1] + 1
          <6>1. i \in 1..(Len(ids) + 1)
            BY <2>3, <3>3, <3>7, <4>2, <5>4
          <6>2. ids'[i] = IF i <= q THEN ids[i]
                          ELSE IF i = q + 1 THEN new[1] ELSE ids[i - 1]
            BY <4>3, <6>1 DEF Adds
          <6>3. /\ i <= q => i \in 1..Len(ids)
                /\ i > q + 1 => i - 1 \in 1..Len(ids)
            BY <2>3, <4>4, <6>1
          <6>4. i = q + 1
            BY <4>4, <5>1, <5>4, <6>1, <6>2, <6>3
          <6>. QED  BY <4>2, <4>4, <6>4
        <5>. QED  BY <5>2, <5>3, <5>4
      <4>6. rows' = InsertRow(rows, pos[1], new[1])
        <5>1. 1 - 1 = 0
          OBVIOUS
        <5>. QED  BY <3>5, <3>7, <4>1, <5>1
      <4>7. RowFor(rows, pos[1]) = q
        <5>1. ~ (q > Len(rows))
          BY <1>1, <2>3, <4>4
        <5>. QED  BY <4>5, <5>1 DEF RowFor
      <4>8. Adds(rows, rows', q, new[1])
        BY <2>3, <4>2, <4>6, <4>7, InsertRowAdds
      <4>. QED  BY <1>1, <4>3, <4>8, AddsSame
    <3>. QED  BY <2>3, <3>4, <3>6, <3>7
  <2>. QED  BY <2>2, <2>4, <2>5
<1>2. IInv /\ [Next]_vars => [rows = ids /\ few => rows' = ids']_vars
  BY <1>1 DEF vars
<1>. QED  BY <1>2, InductiveInvariant, PTL DEF Spec, InOrderWhenAlone
=============================================================================
