----------------------------- MODULE SweepProofs -----------------------------
(***************************************************************************)
(* Proofs about pt_cache_replace(): which items a sweep of the inactive    *)
(* list drops, in which order and how many, for any list, any ages and any *)
(* size of the replacement buffer.                                         *)
(***************************************************************************)
EXTENDS PtCacheProofs, OrderLemmas

-----------------------------------------------------------------------------
(* The inactive list is a list *)

\* Taking items off the list leaves the others in their order.
LEMMA UnlinkedKeepsOrder ==
  ASSUME TypeOK, OrderInv, NEW S,
         inactive' = inactive \ S, ahead' = Unlinked(S)
  PROVE  OrderInv'
BY DEF OrderInv, Unlinked, TypeOK

\* What is added at the tail comes behind all the others.
LEMMA AtTailKeepsOrder ==
  ASSUME TypeOK, ListInv, OrderInv, NEW k \in Keys,
         inactive' = inactive \cup {k}, ahead' = AtTail(k)
  PROVE  OrderInv'
<1>1. ahead'[k] = inactive \ {k}
  BY DEF AtTail, Unlinked, TypeOK
<1>2. \A j \in inactive \ {k} : ahead'[j] = ahead[j] \ {k}
  BY DEF AtTail, Unlinked, TypeOK
<1>3. \A j \in inactive : ahead[j] \subseteq inactive \ {j}
  BY DEF ListInv, TypeOK
<1>. SUFFICES ASSUME NEW i \in inactive', NEW j \in inactive'
              PROVE  /\ i = j \/ i \in ahead'[j] \/ j \in ahead'[i]
                     /\ i \in ahead'[j] => ahead'[i] \subseteq ahead'[j]
  BY DEF OrderInv
<1>4. CASE i # k /\ j # k
  BY <1>2, <1>4 DEF OrderInv
<1>5. CASE i = k
  BY <1>1, <1>2, <1>3, <1>5
<1>6. CASE j = k
  BY <1>1, <1>2, <1>3, <1>6
<1>. QED  BY <1>4, <1>5, <1>6

\* These are the only ways in which the list changes.
LEMMA ListSteps ==
  ASSUME IInv, [Next]_vars
  PROVE  \/ UNCHANGED <<inactive, ahead>>
         \/ \E S \in SUBSET Keys : inactive' = inactive \ S /\ ahead' = Unlinked(S)
         \/ \E k \in Keys : inactive' = inactive \cup {k} /\ ahead' = AtTail(k)
<1>1. ASSUME NEW o \in Objs, Ref(o) \/ Unref(o) \/ Modify(o)
             \/ \E floats \in BOOLEAN : Create(o, floats)
      PROVE  \/ UNCHANGED <<inactive, ahead>>
             \/ \E k \in Keys : inactive' = inactive \ {k} /\ ahead' = Unlinked({k})
             \/ \E k \in Keys : inactive' = inactive \cup {k} /\ ahead' = AtTail(k)
  <2>1. CASE Ref(o)
    BY <2>1 DEF Ref, Awaken, lists
  <2>2. CASE Unref(o)
    BY <2>2 DEF Unref, Retire, EvictOnLastRef, Drop, lists
  <2>3. CASE Modify(o) \/ \E floats \in BOOLEAN : Create(o, floats)
    BY <2>3 DEF Modify, Create, lists
  <2>. QED  BY <1>1, <2>1, <2>2, <2>3
<1>2. ASSUME NEW k \in Keys, NEW o \in Objs, Enlist(k, o)
      PROVE  \/ inactive' = inactive \ {k} /\ ahead' = Unlinked({k})
             \/ inactive' = inactive \cup {k} /\ ahead' = AtTail(k)
  BY <1>2 DEF Enlist
<1>3. CASE StoreNew
  <2>1. putKey \in Keys /\ putObj \in Objs
    BY <1>3 DEF StoreNew, IInv, CallInv
  <2>. QED  BY <1>2, <1>3, <2>1 DEF StoreNew
<1>4. CASE Sweep
  <2>1. Victims \in SUBSET Keys
    BY DEF Victims, Old, Reached, IInv, TypeOK
  <2>. QED  BY <1>4, <2>1 DEF Sweep
<1>5. CASE Dispose
  BY <1>5 DEF Dispose, Drop, Entries
<1>6. ASSUME NEW k \in Keys,
             Get(k) \/ \E o \in Objs : PutNew(k, o) \/ PutExisting(k, o)
      PROVE  \/ UNCHANGED <<inactive, ahead>>
             \/ inactive' = inactive \ {k} /\ ahead' = Unlinked({k})
             \/ inactive' = inactive \cup {k} /\ ahead' = AtTail(k)
  BY <1>2, <1>6 DEF Get, PutNew, PutExisting, lists
<1>7. CASE \/ \E h \in HighMarks : SetHigh(h)
           \/ \E l \in LowMarks : SetLow(l)
           \/ UNCHANGED vars
  BY <1>7 DEF SetHigh, SetLow, SetWatermarks, lists, vars
<1>8. \A k \in Keys : {k} \in SUBSET Keys
  OBVIOUS
<1>9. CASE \E o \in Objs : \/ Ref(o) \/ Unref(o) \/ Modify(o)
                           \/ \E floats \in BOOLEAN : Create(o, floats)
  BY <1>1, <1>8, <1>9
<1>10. CASE \E k \in Keys : Get(k) \/ \E o \in Objs : PutNew(k, o) \/ PutExisting(k, o)
  BY <1>6, <1>8, <1>10
<1>. QED  BY <1>3, <1>4, <1>5, <1>7, <1>9, <1>10 DEF Next

\* The inactive list is in order, with one item at its head and one at its
\* tail, after any sequence of calls.
THEOREM InactiveListIsOrdered == Overwrites # "any" => (Spec => []OrderInv)
<1>. SUFFICES ASSUME Overwrites # "any" PROVE Spec => []OrderInv
  OBVIOUS
<1>1. Init => OrderInv
  BY DEF Init, OrderInv
<1>2. IInv /\ OrderInv /\ [Next]_vars => OrderInv'
  <2>. SUFFICES ASSUME IInv, OrderInv, [Next]_vars PROVE OrderInv'
    OBVIOUS
  <2>1. CASE UNCHANGED <<inactive, ahead>>
    BY <2>1 DEF OrderInv
  <2>. QED
    BY <2>1, ListSteps, UnlinkedKeepsOrder, AtTailKeepsOrder DEF IInv
<1>. QED  BY <1>1, <1>2, InductiveInvariant, PTL DEF Spec

-----------------------------------------------------------------------------
(* What a sweep sees *)

\* A sweep is the only step of a put that is making room.
LEMMA OnlySweepsReplace ==
  ASSUME IInv, stage = "replace", [Next]_vars
  PROVE  Sweep \/ UNCHANGED vars
BY DEF Next, Create, Ref, Unref, Modify, Get, PutNew, PutExisting, StoreNew,
       SetHigh, SetLow, SetWatermarks, Dispose

\* The number of items a sweep may look at is the length of the list.
LEMMA ExcessIsInactive ==
  ASSUME IInv, stage = "replace"
  PROVE  /\ IsFiniteSet(inactive) /\ Excess = Cardinality(inactive)
         /\ Excess \in Nat
<1>1. disposed = FALSE
  BY DEF IInv, TypeOK, CallInv
<1>2. IsFiniteSet(Entries)
  BY FS_Subset, FiniteAssumption DEF Entries
<1>3. inactive = Entries \ active /\ active = Entries \cap active
  BY DEF IInv, ListInv
<1>4. /\ IsFiniteSet(inactive)
      /\ Cardinality(inactive) = Cardinality(Entries) - Cardinality(active)
  BY <1>2, <1>3, FS_Difference
<1>. QED
  BY <1>1, <1>4, FS_CardinalityType DEF Excess, IInv, CountsExact

\* Old items, and items, ahead of k are finitely many.
LEMMA AheadCounted ==
  ASSUME IInv, IsFiniteSet(inactive), NEW k \in inactive
  PROVE  /\ IsFiniteSet(ahead[k]) /\ Cardinality(ahead[k]) \in Nat
         /\ Cardinality(ahead[k]) < Cardinality(inactive)
         /\ IsFiniteSet(Old(ahead[k])) /\ Cardinality(Old(ahead[k])) \in Nat
         /\ BufferFlushedBefore(k) \in Nat
<1>1. ahead[k] \subseteq inactive /\ k \notin ahead[k]
  BY DEF IInv, ListInv, TypeOK
<1>2. /\ IsFiniteSet(ahead[k])
      /\ Cardinality(ahead[k]) <= Cardinality(inactive)
      /\ Cardinality(inactive) # Cardinality(ahead[k])
  BY <1>1, FS_Subset
<1>3. Cardinality(ahead[k]) \in Nat /\ Cardinality(inactive) \in Nat
  BY <1>2, FS_CardinalityType
<1>4. IsFiniteSet(Old(ahead[k])) /\ Cardinality(Old(ahead[k])) \in Nat
  BY <1>2, FS_Subset, FS_CardinalityType DEF Old
<1>. QED
  BY <1>2, <1>3, <1>4, WholeMultiples, SizeAssumption DEF BufferFlushedBefore

\* Of what is ahead of k, less is ahead than of k.
LEMMA AheadGrows ==
  ASSUME IInv, OrderInv, IsFiniteSet(inactive),
         NEW k \in inactive, NEW j \in ahead[k]
  PROVE  /\ j \in inactive
         /\ Cardinality(ahead[j]) < Cardinality(ahead[k])
         /\ BufferFlushedBefore(j) <= BufferFlushedBefore(k)
<1>1. j \in inactive /\ ahead[k] \subseteq inactive /\ j \notin ahead[j]
  BY DEF IInv, ListInv, TypeOK
<1>2. ahead[j] \subseteq ahead[k] /\ ahead[j] # ahead[k]
  BY <1>1 DEF OrderInv
<1>3. Cardinality(ahead[j]) < Cardinality(ahead[k])
  BY <1>1, <1>2, AheadCounted, FS_Subset
<1>4. Cardinality(Old(ahead[j])) <= Cardinality(Old(ahead[k]))
  BY <1>1, <1>2, AheadCounted, FS_Subset DEF Old
<1>5. BufferFlushedBefore(j) <= BufferFlushedBefore(k)
  BY <1>1, <1>4, AheadCounted, WholeMultiplesGrow, SizeAssumption
     DEF BufferFlushedBefore
<1>. QED  BY <1>1, <1>3, <1>5

\* Whatever is ahead of an item that is reached was reached before.
LEMMA ReachedFromHead ==
  ASSUME IInv, OrderInv, stage = "replace",
         NEW k \in Reached, NEW j \in ahead[k]
  PROVE  j \in Reached
<1>1. k \in inactive /\ Cardinality(ahead[k]) < Excess
      /\ Excess - BufferFlushedBefore(k) > low
  BY DEF Reached
<1>2. /\ j \in inactive
      /\ Cardinality(ahead[j]) < Cardinality(ahead[k])
      /\ BufferFlushedBefore(j) <= BufferFlushedBefore(k)
  BY <1>1, ExcessIsInactive, AheadGrows
<1>3. /\ Cardinality(ahead[j]) \in Nat /\ Cardinality(ahead[k]) \in Nat
      /\ BufferFlushedBefore(j) \in Nat /\ BufferFlushedBefore(k) \in Nat
      /\ Excess \in Nat /\ low \in Nat
  BY <1>1, <1>2, ExcessIsInactive, AheadCounted DEF IInv, TypeOK
<1>4. Cardinality(ahead[j]) < Excess /\ Excess - BufferFlushedBefore(j) > low
  BY <1>1, <1>2, <1>3
<1>. QED  BY <1>2, <1>4 DEF Reached

\* Items leave in the order of the list: none is dropped before one that is as
\* old and has been idle for longer.
THEOREM VictimsInOrder == Overwrites # "any" => (Spec => OldestGoFirst)
<1>. SUFFICES ASSUME Overwrites # "any" PROVE Spec => OldestGoFirst
  OBVIOUS
<1>1. ASSUME IInv, OrderInv, [Next]_vars, stage = "replace",
             NEW k \in inactive \ inactive', NEW j \in ahead[k], age[j] = 0
      PROVE  j \notin inactive'
  <2>1. Sweep
    BY <1>1, OnlySweepsReplace DEF vars, lists
  <2>2. k \in Victims
    BY <2>1 DEF Sweep
  <2>3. j \in Reached
    BY <1>1, <2>2, ReachedFromHead DEF Victims, Old
  <2>. QED  BY <1>1, <2>1, <2>3 DEF Sweep, Victims, Old
<1>2. IInv /\ OrderInv /\ [Next]_vars
        => [stage = "replace" =>
              \A k \in inactive \ inactive' : \A j \in ahead[k] :
                age[j] = 0 => j \notin inactive']_vars
  BY <1>1
<1>3. Spec => [](IInv /\ OrderInv)
  BY InductiveInvariant, InactiveListIsOrdered, PTL
<1>. QED  BY <1>2, <1>3, PTL DEF Spec, OldestGoFirst

-----------------------------------------------------------------------------
(* How many items a sweep drops, and when it drops none *)

\* The old item next to the head, if there is an old item at all.
LEMMA FirstOldItem ==
  ASSUME IInv, OrderInv, IsFiniteSet(inactive), Old(inactive) # {}
  PROVE  \E k \in Old(inactive) : Old(ahead[k]) = {}
<1>. DEFINE pos == [k \in inactive |-> Cardinality(ahead[k])]
<1>1. \A k \in Old(inactive) : pos[k] \in Nat
  BY AheadCounted DEF Old
<1>2. PICK k \in Old(inactive) : \A j \in Old(inactive) : pos[k] <= pos[j]
  <2>. HIDE DEF pos
  <2>. QED  BY <1>1, LeastNumbered
<1>3. ASSUME NEW j \in Old(ahead[k]) PROVE FALSE
  <2>1. k \in inactive /\ j \in ahead[k] /\ age[j] = 0
    BY DEF Old
  <2>2. j \in Old(inactive) /\ Cardinality(ahead[j]) < Cardinality(ahead[k])
    BY <2>1, AheadGrows DEF Old
  <2>3. j \in inactive /\ pos[k] <= pos[j]
    BY <1>2, <2>2 DEF Old
  <2>. QED  BY <2>1, <2>2, <2>3, AheadCounted
<1>. QED  BY <1>3

\* If more is inactive than the low watermark allows and there is an old item
\* then a sweep drops one.
LEMMA SweepFindsOldItem ==
  ASSUME IInv, OrderInv, stage = "replace", Excess > low, Old(inactive) # {}
  PROVE  Victims # {}
<1>1. PICK k \in Old(inactive) : Old(ahead[k]) = {}
  BY ExcessIsInactive, FirstOldItem
<1>2. k \in inactive /\ age[k] = 0
  BY DEF Old
<1>3. BufferFlushedBefore(k) = 0
  BY <1>1, FS_EmptySet, SizeAssumption DEF BufferFlushedBefore
<1>4. Cardinality(ahead[k]) < Excess
  BY <1>2, ExcessIsInactive, AheadCounted
<1>5. Excess - BufferFlushedBefore(k) > low
  BY <1>3, ExcessIsInactive DEF IInv, TypeOK
<1>. QED  BY <1>2, <1>4, <1>5 DEF Victims, Old, Reached

\* If there is none then it reaches every item, and halves its age.
LEMMA SweepReachesAll ==
  ASSUME IInv, stage = "replace", Excess > low, Old(inactive) = {}
  PROVE  inactive \subseteq Reached
<1>. SUFFICES ASSUME NEW k \in inactive PROVE k \in Reached
  OBVIOUS
<1>1. Old(ahead[k]) = {}
  BY DEF Old, IInv, ListInv, TypeOK
<1>2. BufferFlushedBefore(k) = 0
  BY <1>1, FS_EmptySet, SizeAssumption DEF BufferFlushedBefore
<1>3. Cardinality(ahead[k]) < Excess /\ Excess \in Nat
  BY ExcessIsInactive, AheadCounted
<1>. QED  BY <1>2, <1>3 DEF Reached, IInv, TypeOK

\* Replacement ends above the low watermark only after a sweep of the whole
\* inactive list that dropped nothing and left every item less of its age.
THEOREM EarlyStopMeansAged == Overwrites # "any" => (Spec => EarlyStopAgesAll)
<1>. SUFFICES ASSUME Overwrites # "any" PROVE Spec => EarlyStopAgesAll
  OBVIOUS
<1>1. ASSUME IInv, OrderInv, [Next]_vars,
             SweepEnds, count' - activeCount' > low
      PROVE  /\ inactive' = inactive
             /\ \A k \in inactive : age[k] > 0 /\ age'[k] < age[k]
  <2>1. stage = "replace" /\ Sweep
    BY <1>1, OnlySweepsReplace DEF SweepEnds, vars, call
  <2>2. count' = count /\ activeCount' = activeCount
    BY <1>1, <2>1 DEF Sweep, Again, SweepEnds
  <2>3. IsFiniteSet(Victims) /\ Cardinality(Victims) \in Nat
    BY <1>1, <2>1, ExcessIsInactive, FS_Subset, FS_CardinalityType
       DEF Victims, Old, Reached
  <2>4. Victims = {}
    BY <1>1, <2>1, <2>2, <2>3, FS_EmptySet DEF Sweep, IInv, TypeOK
  <2>5. Excess > low
    BY <1>1, <2>2 DEF Excess
  <2>6. Old(inactive) = {}
    BY <1>1, <2>1, <2>4, <2>5, SweepFindsOldItem
  <2>7. \A k \in inactive : k \in Keys /\ age[k] # 0 /\ age[k] \in Nat
    BY <1>1, <2>6 DEF Old, IInv, TypeOK
  <2>8. \A k \in inactive : age'[k] = age[k] \div 2
    BY <1>1, <2>1, <2>5, <2>6, <2>7, SweepReachesAll DEF Sweep, Halved
  <2>9. \A n \in Nat : n # 0 => n > 0 /\ n \div 2 < n
    OBVIOUS
  <2>. QED  BY <2>1, <2>4, <2>7, <2>8, <2>9 DEF Sweep
<1>2. IInv /\ OrderInv /\ [Next]_vars
        => [SweepEnds /\ count' - activeCount' > low
              => /\ inactive' = inactive
                 /\ \A k \in inactive : age[k] > 0 /\ age'[k] < age[k]]_vars
  BY <1>1
<1>3. Spec => [](IInv /\ OrderInv)
  BY InductiveInvariant, InactiveListIsOrdered, PTL
<1>. QED  BY <1>2, <1>3, PTL DEF Spec, EarlyStopAgesAll

\* The item a sweep drops last.
LEMMA LastVictim ==
  ASSUME IInv, OrderInv, stage = "replace", Victims # {}
  PROVE  \E k \in Victims : Victims \ {k} \subseteq Old(ahead[k])
<1>1. IsFiniteSet(inactive) /\ Victims \subseteq inactive
  BY ExcessIsInactive DEF Victims, Old, Reached
<1>. DEFINE n == Cardinality(inactive)
            fromTail == [k \in inactive |-> n - Cardinality(ahead[k])]
<1>2. n \in Nat
  BY <1>1, FS_CardinalityType
<1>3. \A k \in Victims : fromTail[k] \in Nat
  BY <1>1, <1>2, AheadCounted
<1>4. PICK k \in Victims : \A j \in Victims : fromTail[k] <= fromTail[j]
  <2>. HIDE DEF fromTail
  <2>. QED  BY <1>3, LeastNumbered
<1>5. ASSUME NEW j \in Victims, j # k PROVE j \in Old(ahead[k])
  <2>1. k \in inactive /\ j \in inactive /\ age[j] = 0
    BY <1>1 DEF Victims, Old
  <2>2. j \in ahead[k] \/ k \in ahead[j]
    BY <1>5, <2>1 DEF OrderInv
  <2>3. k \notin ahead[j]
    <3>1. n - Cardinality(ahead[k]) <= n - Cardinality(ahead[j])
      BY <1>4, <2>1
    <3>. QED  BY <3>1, <1>1, <1>2, <2>1, AheadCounted, AheadGrows
  <2>. QED  BY <2>1, <2>2, <2>3 DEF Old
<1>. QED  BY <1>5

\* A sweep leaves more than the low watermark less one buffer.
LEMMA VictimsBounded ==
  ASSUME IInv, OrderInv, stage = "replace", Victims # {}
  PROVE  /\ IsFiniteSet(Victims) /\ Cardinality(Victims) \in Nat
         /\ Excess - Cardinality(Victims) > low - MaxReplace
<1>1. PICK k \in Victims : Victims \ {k} \subseteq Old(ahead[k])
  BY LastVictim
<1>2. k \in inactive /\ Excess - BufferFlushedBefore(k) > low
  BY DEF Victims, Old, Reached
<1>3. IsFiniteSet(Victims) /\ Cardinality(Victims) \in Nat
  BY ExcessIsInactive, FS_Subset, FS_CardinalityType DEF Victims, Old, Reached
<1>. DEFINE m == Cardinality(Old(ahead[k]))
<1>4. m \in Nat /\ IsFiniteSet(Old(ahead[k]))
  BY <1>2, ExcessIsInactive, AheadCounted
<1>5. Cardinality(Victims) - 1 <= m
  <2>1. IsFiniteSet(Victims \ {k})
        /\ Cardinality(Victims \ {k}) = Cardinality(Victims) - 1
    BY <1>3, FS_RemoveElement
  <2>2. Cardinality(Victims \ {k}) <= Cardinality(Old(ahead[k]))
    BY <1>1, <1>4, FS_Subset
  <2>. QED  BY <2>1, <2>2
<1>6. m < BufferFlushedBefore(k) + MaxReplace /\ BufferFlushedBefore(k) \in Nat
  BY <1>4, WholeMultiples, SizeAssumption DEF BufferFlushedBefore
<1>7. Excess \in Nat /\ low \in Nat /\ MaxReplace \in Nat
  BY ExcessIsInactive, SizeAssumption DEF IInv, TypeOK
<1>. HIDE DEF m
<1>8. Excess - Cardinality(Victims) > low - MaxReplace
  BY <1>2, <1>3, <1>4, <1>5, <1>6, <1>7
<1>. QED  BY <1>3, <1>8

\* Items in the buffer are counted as present until it is full, so a sweep may
\* go below the low watermark, but by less than one buffer.
THEOREM OvershootBounded == Overwrites # "any" => (Spec => OvershootWithinBuffer)
<1>. SUFFICES ASSUME Overwrites # "any" PROVE Spec => OvershootWithinBuffer
  OBVIOUS
<1>1. ASSUME IInv, OrderInv, [Next]_vars, stage = "replace", count' < count
      PROVE  count' - activeCount' > low - MaxReplace
  <2>1. Sweep
    BY <1>1, OnlySweepsReplace DEF vars, table, IInv, TypeOK
  <2>2. count' = count - Cardinality(Victims) /\ activeCount' = activeCount
    BY <2>1 DEF Sweep
  <2>3. Victims # {}
    <3>1. Cardinality({}) = 0
      BY FS_EmptySet
    <3>. QED  BY <1>1, <2>2, <3>1 DEF IInv, TypeOK
  <2>4. /\ Cardinality(Victims) \in Nat
        /\ Excess - Cardinality(Victims) > low - MaxReplace
    BY <1>1, <2>3, VictimsBounded
  <2>. QED  BY <1>1, <2>2, <2>4 DEF Excess, IInv, TypeOK
<1>2. IInv /\ OrderInv /\ [Next]_vars
        => [stage = "replace" /\ count' < count
              => count' - activeCount' > low - MaxReplace]_vars
  BY <1>1
<1>3. Spec => [](IInv /\ OrderInv)
  BY InductiveInvariant, InactiveListIsOrdered, PTL
<1>. QED  BY <1>2, <1>3, PTL DEF Spec, OvershootWithinBuffer

-----------------------------------------------------------------------------
(* Why replacement ends *)

\* A sweep that is repeated made the inactive list shorter.
SweepsRunOut ==
  [][stage = "replace" /\ stage' = "replace"
       => Cardinality(inactive') < Cardinality(inactive)]_vars

\* A put never sweeps more often than there were inactive items when it began,
\* whatever their ages: the variant behind PutReturns.
THEOREM RepeatedSweepsShrink == Overwrites # "any" => (Spec => SweepsRunOut)
<1>. SUFFICES ASSUME Overwrites # "any" PROVE Spec => SweepsRunOut
  OBVIOUS
<1>1. ASSUME IInv, Sweep, stage' = "replace"
      PROVE  Cardinality(inactive') < Cardinality(inactive)
  <2>1. stage = "replace" /\ IsFiniteSet(inactive)
    BY <1>1, ExcessIsInactive DEF Sweep
  <2>2. count' # count /\ count' = count - Cardinality(Victims)
    BY <1>1 DEF Sweep, Again
  <2>3. Victims # {}
    <3>1. Cardinality({}) = 0
      BY FS_EmptySet
    <3>2. count \in Nat
      BY <1>1 DEF IInv, TypeOK
    <3>3. count - 0 = count
      BY <3>2
    <3>. QED  BY <2>2, <3>1, <3>3
  <2>4. inactive' = inactive \ Victims /\ Victims \subseteq inactive
    BY <1>1 DEF Sweep, Victims, Old, Reached
  <2>5. inactive' \subseteq inactive /\ inactive' # inactive
    BY <2>3, <2>4
  <2>6. /\ IsFiniteSet(inactive')
        /\ Cardinality(inactive') <= Cardinality(inactive)
        /\ Cardinality(inactive') # Cardinality(inactive)
    BY <2>1, <2>5, FS_Subset
  <2>. QED  BY <2>1, <2>6, FS_CardinalityType
<1>2. IInv /\ [Next]_vars
        => [stage = "replace" /\ stage' = "replace"
              => Cardinality(inactive') < Cardinality(inactive)]_vars
  <2>. SUFFICES ASSUME IInv, [Next]_vars, stage = "replace", stage' = "replace"
                PROVE  \/ Cardinality(inactive') < Cardinality(inactive)
                       \/ UNCHANGED vars
    OBVIOUS
  <2>. QED  BY <1>1, OnlySweepsReplace
<1>3. Spec => []IInv
  BY InductiveInvariant, PTL
<1>. QED  BY <1>2, <1>3, PTL DEF Spec, SweepsRunOut
=============================================================================
