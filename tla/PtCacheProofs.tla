---------------------------- MODULE PtCacheProofs ----------------------------
(***************************************************************************)
(* Proofs about PtCache for all keys, objects, buffer sizes and watermarks, *)
(* and for clients that do not put a key again while its object is in use. *)
(***************************************************************************)
EXTENDS PtCache, TLAPS, FiniteSetTheorems

USE NoneAssumption, SizeAssumption, BoundAssumption, MarkAssumption

-----------------------------------------------------------------------------
(* The lists *)

\* First() picks a member of the set.
LEMMA FirstIsMember ==
  ASSUME NEW S
  PROVE  First(S) \in S \cup {None}
BY DEF First

\* Moving the hand off k (delist_item) leaves it on another item of the
\* inactive list, or nowhere.
LEMMA HandPastStays ==
  ASSUME ListInv, TypeOK, NEW k \in Keys
  PROVE  HandPast(k) \in (inactive \ {k}) \cup {None}
<1>1. CASE hand = k
  <2>1. Successor(k) \in {j \in inactive : k \in ahead[j]} \cup {None}
    BY FirstIsMember DEF Successor
  <2>2. \A j \in inactive : k \in ahead[j] => j # k
    BY DEF ListInv, TypeOK
  <2>. QED  BY <1>1, <2>1, <2>2 DEF HandPast
<1>2. CASE hand # k
  BY <1>2 DEF HandPast, ListInv, HandOnInactiveList
<1>. QED  BY <1>1, <1>2

\* Taking items off the lists leaves a well-formed order of the others.
LEMMA UnlinkedOrder ==
  ASSUME ListInv, TypeOK, NEW S
  PROVE  /\ Unlinked(S) \in [Keys -> SUBSET Keys]
         /\ \A j \in Keys : Unlinked(S)[j] \subseteq (inactive \ S) \ {j}
BY DEF Unlinked, ListInv, TypeOK

\* So does adding an item at the tail.
LEMMA AtTailOrder ==
  ASSUME ListInv, TypeOK, NEW k \in Keys
  PROVE  /\ AtTail(k) \in [Keys -> SUBSET Keys]
         /\ \A j \in Keys : AtTail(k)[j] \subseteq (inactive \cup {k}) \ {j}
<1>1. /\ Unlinked({k}) \in [Keys -> SUBSET Keys]
      /\ \A j \in Keys : Unlinked({k})[j] \subseteq (inactive \ {k}) \ {j}
  BY UnlinkedOrder
<1>2. inactive \subseteq Keys
  BY DEF TypeOK
<1>3. \A j \in Keys : AtTail(k)[j] = IF j = k THEN inactive \ {k} ELSE Unlinked({k})[j]
  BY <1>1 DEF AtTail
<1>4. AtTail(k) \in [Keys -> SUBSET Keys]
  BY <1>1, <1>2 DEF AtTail
<1>. QED  BY <1>1, <1>3, <1>4

\* An item that moves to the active list.
LEMMA AwakenKeepsLists ==
  ASSUME ListInv, TypeOK, NEW k \in inactive, Awaken(k), item' = item
  PROVE  /\ ListInv'
         /\ active' \subseteq Keys /\ inactive' \subseteq Keys
         /\ ahead' \in [Keys -> SUBSET Keys]
         /\ hand' \in Keys \cup {None}
<1>. k \in Keys
  BY DEF TypeOK
<1>1. hand' \in inactive' \cup {None}
  BY HandPastStays DEF Awaken
<1>2. /\ ahead' \in [Keys -> SUBSET Keys]
      /\ \A j \in Keys : ahead'[j] \subseteq inactive' \ {j}
  BY UnlinkedOrder DEF Awaken
<1>3. active' \cup inactive' = Entries' /\ active' \cap inactive' = {}
  BY DEF Awaken, ListInv, Entries
<1>4. active' \subseteq Keys /\ inactive' \subseteq Keys
  BY DEF Awaken, TypeOK
<1>. QED  BY <1>1, <1>2, <1>3, <1>4 DEF ListInv, HandOnInactiveList

\* An item that moves to the tail of the inactive list.
LEMMA RetireKeepsLists ==
  ASSUME ListInv, TypeOK, NEW k \in active, Retire(k), item' = item
  PROVE  /\ ListInv'
         /\ active' \subseteq Keys /\ inactive' \subseteq Keys
         /\ ahead' \in [Keys -> SUBSET Keys]
         /\ hand' \in Keys \cup {None}
<1>. k \in Keys
  BY DEF TypeOK
<1>1. hand' \in inactive' \cup {None}
  BY HandPastStays DEF Retire
<1>2. /\ ahead' \in [Keys -> SUBSET Keys]
      /\ \A j \in Keys : ahead'[j] \subseteq inactive' \ {j}
  BY AtTailOrder DEF Retire
<1>3. active' \cup inactive' = Entries' /\ active' \cap inactive' = {}
  BY DEF Retire, ListInv, Entries
<1>4. active' \subseteq Keys /\ inactive' \subseteq Keys
  BY DEF Retire, TypeOK
<1>. QED  BY <1>1, <1>2, <1>3, <1>4 DEF ListInv, HandOnInactiveList

\* Items that leave the cache.
LEMMA DropKeepsLists ==
  ASSUME ListInv, TypeOK, NEW S \in SUBSET Keys, NEW h, NEW n, Drop(S, h, n),
         h \in (inactive \ S) \cup {None}
  PROVE  /\ ListInv'
         /\ active' \subseteq Keys /\ inactive' \subseteq Keys
         /\ ahead' \in [Keys -> SUBSET Keys]
         /\ hand' \in Keys \cup {None}
<1>1. hand' \in inactive' \cup {None}
  BY DEF Drop
<1>2. /\ ahead' \in [Keys -> SUBSET Keys]
      /\ \A j \in Keys : ahead'[j] \subseteq inactive' \ {j}
  BY UnlinkedOrder DEF Drop
<1>3. Entries' = Entries \ S
  BY DEF Drop, Entries
<1>4. active' \cup inactive' = Entries' /\ active' \cap inactive' = {}
  BY <1>3 DEF Drop, ListInv
<1>5. active' \subseteq Keys /\ inactive' \subseteq Keys
  BY DEF Drop, TypeOK
<1>. QED  BY <1>1, <1>2, <1>4, <1>5 DEF ListInv, HandOnInactiveList

\* An item that is put.
LEMMA EnlistKeepsLists ==
  ASSUME ListInv, TypeOK, NEW k \in Keys, NEW o \in Objs, Enlist(k, o)
  PROVE  /\ ListInv'
         /\ active' \subseteq Keys /\ inactive' \subseteq Keys
         /\ ahead' \in [Keys -> SUBSET Keys]
         /\ hand' \in Keys \cup {None}
<1>1. HandPast(k) \in (inactive \ {k}) \cup {None}
  BY HandPastStays
<1>2. Entries' = Entries \cup {k}
  BY DEF Enlist, Entries, TypeOK
<1>3. active' \subseteq Keys /\ inactive' \subseteq Keys
  BY DEF Enlist, TypeOK
<1>4. hand' \in inactive' \cup {None}
  BY <1>1 DEF Enlist
<1>5. active' \cup inactive' = Entries' /\ active' \cap inactive' = {}
  BY <1>2 DEF Enlist, ListInv
<1>6. /\ ahead' \in [Keys -> SUBSET Keys]
      /\ \A j \in Keys : ahead'[j] \subseteq inactive' \ {j}
  BY UnlinkedOrder, AtTailOrder DEF Enlist
<1>. QED  BY <1>3, <1>4, <1>5, <1>6 DEF ListInv, HandOnInactiveList

-----------------------------------------------------------------------------
(* The counters *)

\* The active list is finite, and its length moves with activeCount.
LEMMA ActiveLength ==
  ASSUME TypeOK, NEW k \in Keys
  PROVE  /\ IsFiniteSet(active) /\ Cardinality(active) \in Nat
         /\ k \notin active => Cardinality(active \cup {k}) = Cardinality(active) + 1
         /\ k \in active => /\ Cardinality(active \ {k}) = Cardinality(active) - 1
                            /\ Cardinality(active) > 0
<1>1. IsFiniteSet(active)
  BY FiniteAssumption, FS_Subset DEF TypeOK
<1>2. Cardinality(active) \in Nat
  BY <1>1, FS_CardinalityType
<1>3. k \notin active => Cardinality(active \cup {k}) = Cardinality(active) + 1
  BY <1>1, FS_AddElement
<1>4. k \in active => Cardinality(active \ {k}) = Cardinality(active) - 1
  BY <1>1, FS_RemoveElement
<1>5. k \in active => Cardinality(active) # 0
  BY <1>1, FS_EmptySet
<1>. QED  BY <1>1, <1>2, <1>3, <1>4, <1>5

\* There are finitely many entries, and one more or less is one more or less.
LEMMA EntryCount ==
  ASSUME NEW k \in Keys
  PROVE  /\ IsFiniteSet(Entries) /\ Cardinality(Entries) \in Nat
         /\ k \notin Entries => Cardinality(Entries \cup {k}) = Cardinality(Entries) + 1
         /\ k \in Entries => /\ Cardinality(Entries \ {k}) = Cardinality(Entries) - 1
                             /\ Cardinality(Entries) > 0
<1>1. IsFiniteSet(Entries)
  <2>1. Entries \subseteq Keys
    BY DEF Entries
  <2>. QED  BY <2>1, FiniteAssumption, FS_Subset
<1>2. Cardinality(Entries) \in Nat
  BY <1>1, FS_CardinalityType
<1>3. k \notin Entries => Cardinality(Entries \cup {k}) = Cardinality(Entries) + 1
  BY <1>1, FS_AddElement
<1>4. k \in Entries => Cardinality(Entries \ {k}) = Cardinality(Entries) - 1
  BY <1>1, FS_RemoveElement
<1>5. k \in Entries => Cardinality(Entries) # 0
  BY <1>1, FS_EmptySet
<1>. QED  BY <1>1, <1>2, <1>3, <1>4, <1>5

-----------------------------------------------------------------------------
(* References that clients make, take and drop *)

\* A new object is in nobody's list: the invariant is not touched.
LEMMA CreateKeeps ==
  ASSUME IInv, NEW o \in Objs, NEW floats \in BOOLEAN, Create(o, floats)
  PROVE  IInv'
<1>. USE DEF Create, lists, table, marks, call
<1>1. TypeOK'
  BY DEF IInv, TypeOK
<1>2. ListInv'
  BY DEF IInv, ListInv, HandOnInactiveList, Entries
<1>3. ~IsCached(o) /\ holds[o] = 0 /\ o \notin floating
  BY DEF IInv, TypeOK, RefInv, RefAccounting
<1>4. RefInv'
  <2>1. RefAccounting'
    BY <1>3 DEF IInv, TypeOK, RefInv, RefAccounting, IsCached
  <2>. QED  BY <1>3, <2>1 DEF IInv, TypeOK, RefInv, IsCached, Entries
<1>5. CountsExact'
  BY DEF IInv, CountsExact, Entries
<1>6. CallInv'
  BY DEF IInv, CallInv, Entries
<1>7. UseInv'
  BY DEF IInv, UseInv, NothingDroppedUnflushed, IsCached
<1>. QED  BY <1>1, <1>2, <1>4, <1>5, <1>6, <1>7 DEF IInv

\* A reference to an idle entry makes it active: what the toggle reference is
\* for.
LEMMA RefKeeps ==
  ASSUME IInv, NEW o \in Objs, Ref(o)
  PROVE  IInv'
<1>. USE DEF Ref, table, marks, call
<1>1. CASE ~(IsCached(o) /\ rc[o] = 1) /\ UNCHANGED lists
  <2>. USE <1>1 DEF lists
  <2>1. TypeOK'
    BY DEF IInv, TypeOK
  <2>2. ListInv'
    BY DEF IInv, ListInv, HandOnInactiveList, Entries
  <2>3. IsCached(o) => holds[o] > 0
    BY DEF IInv, TypeOK, RefInv, RefAccounting
  <2>4. o \notin floating
    BY DEF IInv, UseInv, RefInv, CanReach, IsCached
  <2>5. RefAccounting'
    BY DEF IInv, TypeOK, RefInv, RefAccounting, IsCached
  <2>6. \A k \in Entries : holds'[item[k]] > 0 <=> holds[item[k]] > 0
    BY <2>3 DEF IInv, TypeOK, Entries, IsCached
  <2>7. RefInv'
    BY <2>4, <2>5, <2>6 DEF IInv, TypeOK, RefInv, IsCached, Entries
  <2>8. CountsExact'
    BY DEF IInv, CountsExact, Entries
  <2>9. CallInv'
    BY DEF IInv, CallInv, Entries
  <2>10. UseInv'
    BY DEF IInv, UseInv, NothingDroppedUnflushed, IsCached
  <2>. QED  BY <2>1, <2>2, <2>7, <2>8, <2>9, <2>10 DEF IInv
<1>2. ASSUME rc[o] = 1, NEW k \in Keys, item[k] = o, Awaken(k)
      PROVE  IInv'
  <2>. USE <1>2
  <2>1. holds[o] = 0 /\ o \notin floating /\ k \in Entries
    BY DEF IInv, TypeOK, RefInv, RefAccounting, IsCached, Entries
  <2>2. k \in inactive /\ k \notin active
    BY <2>1 DEF IInv, RefInv, ListInv
  <2>3. /\ ListInv' /\ hand' \in Keys \cup {None}
        /\ active' \subseteq Keys /\ inactive' \subseteq Keys
        /\ ahead' \in [Keys -> SUBSET Keys]
    BY <2>2, AwakenKeepsLists DEF IInv
  <2>4. TypeOK'
    <3>1. activeCount' \in Nat
      BY DEF IInv, TypeOK, Awaken
    <3>2. rc' \in [Objs -> Nat] /\ holds' \in [Objs -> Nat]
      BY DEF IInv, TypeOK
    <3>. QED  BY <2>3, <3>1, <3>2 DEF IInv, TypeOK
  <2>5. RefAccounting'
    BY DEF IInv, TypeOK, RefInv, RefAccounting, IsCached
  <2>6. \A j \in Entries : j \in active' <=> holds'[item[j]] > 0
    BY <2>1 DEF IInv, TypeOK, RefInv, Entries, Awaken
  <2>7. RefInv'
    BY <2>1, <2>5, <2>6 DEF IInv, TypeOK, RefInv, IsCached, Entries
  <2>8. CountsExact'
    BY <2>2, ActiveLength DEF IInv, CountsExact, Entries, Awaken
  <2>9. CallInv'
    BY DEF IInv, CallInv, Entries
  <2>10. UseInv'
    BY DEF IInv, UseInv, NothingDroppedUnflushed, IsCached
  <2>. QED  BY <2>3, <2>4, <2>7, <2>8, <2>9, <2>10 DEF IInv
<1>. QED  BY <1>1, <1>2

\* The last reference goes: an item with an age is retired, an old one leaves
\* the cache with its object.
LEMMA UnrefKeeps ==
  ASSUME IInv, NEW o \in Objs, Unref(o)
  PROVE  IInv'
<1>. USE DEF marks, call
<1>0. /\ stage = "idle" /\ holds[o] > 0
      /\ holds' = [holds EXCEPT ![o] = @ - 1]
      /\ UNCHANGED <<low, high, stage, putKey, putObj, floating, borrowed, disposed>>
      /\ o \notin floating
  BY DEF Unref, IInv, RefInv
<1>h. holds' \in [Objs -> Nat]
  BY <1>0 DEF IInv, TypeOK
<1>1. ASSUME ~(IsCached(o) /\ rc[o] = 2), rc' = [rc EXCEPT ![o] = @ - 1],
             UNCHANGED <<lists, table, age, unsaved, strayRead>>
      PROVE  IInv'
  <2>. USE <1>0, <1>1 DEF lists, table
  <2>1. rc[o] > 0 /\ (IsCached(o) => holds[o] > 1)
    BY DEF IInv, TypeOK, RefInv, RefAccounting
  <2>2. TypeOK'
    BY <1>h, <2>1 DEF IInv, TypeOK
  <2>3. ListInv'
    BY DEF IInv, ListInv, HandOnInactiveList, Entries
  <2>4. RefAccounting'
    BY <2>1 DEF IInv, TypeOK, RefInv, RefAccounting, IsCached
  <2>5. \A k \in Entries : holds'[item[k]] > 0 <=> holds[item[k]] > 0
    BY <2>1 DEF IInv, TypeOK, Entries, IsCached
  <2>6. RefInv'
    BY <2>4, <2>5 DEF IInv, TypeOK, RefInv, IsCached, Entries
  <2>7. CountsExact'
    BY DEF IInv, CountsExact, Entries
  <2>8. CallInv'
    BY DEF IInv, CallInv, Entries
  <2>9. UseInv'
    BY DEF IInv, UseInv, NothingDroppedUnflushed, IsCached
  <2>. QED  BY <2>2, <2>3, <2>6, <2>7, <2>8, <2>9 DEF IInv
<1>2. ASSUME rc[o] = 2, NEW k \in Keys, item[k] = o
      PROVE  /\ holds[o] = 1 /\ k \in Entries /\ k \in active /\ k \notin inactive
             /\ \A j \in Entries : item[j] = o => j = k
  <2>1. k \in Entries
    BY <1>2 DEF Entries
  <2>2. holds[o] = 1
    BY <1>0, <1>2 DEF IInv, TypeOK, RefInv, RefAccounting, IsCached
  <2>. QED  BY <1>2, <2>1, <2>2 DEF IInv, RefInv, ListInv
<1>3. ASSUME rc[o] = 2, NEW k \in Keys, item[k] = o, age[k] = 0, EvictOnLastRef(k)
      PROVE  IInv'
  <2>. USE <1>0, <1>3 DEF EvictOnLastRef
  <2>1. /\ holds[o] = 1 /\ k \in Entries /\ k \in active
        /\ \A j \in Entries : item[j] = o => j = k
    BY <1>2
  <2>2. Drop({k}, HandPast(k), 1)
    OBVIOUS
  <2>3. /\ ListInv' /\ hand' \in Keys \cup {None}
        /\ active' \subseteq Keys /\ inactive' \subseteq Keys
        /\ ahead' \in [Keys -> SUBSET Keys]
    BY <2>2, HandPastStays, DropKeepsLists DEF IInv
  <2>4. Entries' = Entries \ {k}
    BY DEF Drop, Entries
  <2>5. CountsExact'
    <3>1. Cardinality({k}) = 1
      BY FS_Singleton
    <3>2. count' = Cardinality(Entries')
      BY <2>1, <2>4, <3>1, EntryCount DEF Drop, IInv, CountsExact
    <3>3. ~disposed => activeCount' = Cardinality(active')
      BY <2>1, ActiveLength DEF Drop, IInv, CountsExact
    <3>. QED  BY <3>2, <3>3 DEF CountsExact
  <2>6. TypeOK'
    <3>1. ~disposed
      BY <2>1 DEF IInv, CallInv
    <3>1a. activeCount = Cardinality(active) /\ count = Cardinality(Entries)
      BY <3>1 DEF IInv, CountsExact
    <3>1b. activeCount' = activeCount - 1 /\ count' = count - 1
      BY FS_Singleton DEF Drop
    <3>1c. /\ Cardinality(active) \in Nat /\ Cardinality(active) > 0
           /\ Cardinality(Entries) \in Nat /\ Cardinality(Entries) > 0
      BY <2>1, ActiveLength, EntryCount DEF IInv
    <3>2. activeCount' \in Nat /\ count' \in Nat
      BY <3>1a, <3>1b, <3>1c
    <3>3. rc' \in [Objs -> Nat] /\ item' \in [Keys -> Objs \cup {None}]
          /\ age' \in [Keys -> 0..AgeCap]
      BY DEF IInv, TypeOK, Drop
    <3>4. stale' \subseteq Keys /\ strayRead' \in BOOLEAN /\ unsaved' \subseteq Objs
      BY DEF IInv, TypeOK, Drop
    <3>. QED  BY <1>h, <2>3, <3>2, <3>3, <3>4 DEF IInv, TypeOK
  <2>7. RefInv'
    <3>1. \A p \in Objs : IsCached(p)' <=> IsCached(p) /\ p # o
      BY <2>1 DEF IsCached, Drop, IInv, TypeOK, Entries
    <3>2. RefAccounting'
      BY <2>1, <3>1 DEF IInv, TypeOK, RefInv, RefAccounting
    <3>3. \A j \in Entries' : item'[j] = item[j] /\ item[j] # o
      BY <2>1, <2>4 DEF Drop, Entries
    <3>4. \A j \in Entries' : j \in active' <=> holds'[item'[j]] > 0
      BY <2>4, <3>3 DEF Drop, IInv, RefInv, TypeOK, Entries
    <3>5. \A p \in floating' : ~IsCached(p)' /\ holds'[p] = 0
      BY <3>1 DEF IInv, RefInv, TypeOK
    <3>. QED  BY <2>4, <3>2, <3>3, <3>4, <3>5 DEF IInv, RefInv
  <2>8. CallInv'
    BY <2>1 DEF IInv, CallInv, Drop, Entries
  <2>9. UseInv'
    <3>1. o \notin borrowed
      BY <2>1 DEF IInv, UseInv, TypeOK, Entries
    <3>2. \A p \in borrowed' : \E j \in Keys : item'[j] = p /\ age'[j] > 0
      BY <3>1 DEF Drop, IInv, UseInv
    <3>3. NothingDroppedUnflushed'
      BY DEF Drop, IInv, UseInv, NothingDroppedUnflushed, IsCached
    <3>. QED  BY <3>2, <3>3 DEF UseInv
  <2>. QED  BY <2>3, <2>5, <2>6, <2>7, <2>8, <2>9 DEF IInv
<1>4. ASSUME rc[o] = 2, NEW k \in Keys, item[k] = o, rc' = [rc EXCEPT ![o] = 1],
             Retire(k), UNCHANGED <<table, age, unsaved, strayRead>>
      PROVE  IInv'
  <2>. USE <1>0, <1>4 DEF table
  <2>1. /\ holds[o] = 1 /\ k \in Entries /\ k \in active /\ k \notin inactive
        /\ \A j \in Entries : item[j] = o => j = k
    BY <1>2
  <2>2. /\ ListInv' /\ hand' \in Keys \cup {None}
        /\ active' \subseteq Keys /\ inactive' \subseteq Keys
        /\ ahead' \in [Keys -> SUBSET Keys]
    BY <2>1, RetireKeepsLists DEF IInv
  <2>3. CountsExact'
    BY <2>1, ActiveLength DEF IInv, CountsExact, Entries, Retire
  <2>4. TypeOK'
    <3>1. activeCount' \in Nat
      BY <2>1, <2>3, ActiveLength DEF IInv, CallInv, CountsExact, Retire
    <3>2. rc' \in [Objs -> Nat]
      BY DEF IInv, TypeOK
    <3>. QED  BY <1>h, <2>2, <3>1, <3>2 DEF IInv, TypeOK
  <2>5. RefAccounting'
    BY <2>1 DEF IInv, TypeOK, RefInv, RefAccounting, IsCached
  <2>6. \A j \in Entries : j \in active' <=> holds'[item[j]] > 0
    BY <2>1 DEF IInv, TypeOK, RefInv, Entries, Retire
  <2>7. RefInv'
    BY <2>5, <2>6 DEF IInv, TypeOK, RefInv, IsCached, Entries
  <2>8. CallInv'
    BY DEF IInv, CallInv, Entries
  <2>9. UseInv'
    BY DEF IInv, UseInv, NothingDroppedUnflushed, IsCached
  <2>. QED  BY <2>2, <2>3, <2>4, <2>7, <2>8, <2>9 DEF IInv
<1>. QED  BY <1>1, <1>3, <1>4 DEF Unref

\* Only an object in the cache can be marked as changed.
LEMMA ModifyKeeps ==
  ASSUME IInv, NEW o \in Objs, Modify(o)
  PROVE  IInv'
<1>. USE DEF Modify, lists, table, marks, call, objects
<1>1. TypeOK' /\ ListInv'
  BY DEF IInv, TypeOK, ListInv, HandOnInactiveList, Entries
<1>2. RefInv'
  BY DEF IInv, RefInv, RefAccounting, IsCached, Entries
<1>3. CountsExact' /\ CallInv'
  BY DEF IInv, CountsExact, CallInv, Entries
<1>4. UseInv'
  BY DEF IInv, UseInv, NothingDroppedUnflushed, IsCached
<1>. QED  BY <1>1, <1>2, <1>3, <1>4 DEF IInv

-----------------------------------------------------------------------------
(* Lookups *)

\* A hit leaves an age above zero, within the cap.
LEMMA HitAgeRange ==
  ASSUME NEW a \in 0..AgeCap
  PROVE  HitAge(a) \in 0..AgeCap /\ HitAge(a) > 0
BY DEF HitAge

\* A hit gives the entry an age, which is what keeps a borrowed object in.
LEMMA GetKeeps ==
  ASSUME IInv, NEW k \in Keys, Get(k)
  PROVE  IInv'
<1>. USE DEF Get, lists, table, marks, call, objects
<1>1. age' \in [Keys -> 0..AgeCap] /\ age'[k] > 0
      /\ \A j \in Keys : j # k => age'[j] = age[j]
  BY HitAgeRange DEF IInv, TypeOK
<1>2. TypeOK' /\ ListInv'
  BY <1>1 DEF IInv, TypeOK, ListInv, HandOnInactiveList, Entries
<1>3. RefInv'
  BY DEF IInv, RefInv, RefAccounting, IsCached, Entries
<1>4. CountsExact' /\ CallInv'
  BY DEF IInv, CountsExact, CallInv, Entries
<1>5. UseInv'
  BY <1>1 DEF IInv, UseInv, NothingDroppedUnflushed, IsCached
<1>. QED  BY <1>2, <1>3, <1>4, <1>5 DEF IInv

-----------------------------------------------------------------------------
(* Puts *)

\* A put that begins gives up what was borrowed.
LEMMA PutNewKeeps ==
  ASSUME IInv, NEW k \in Keys, NEW o \in Objs, PutNew(k, o)
  PROVE  IInv'
<1>. USE DEF PutNew, lists, table, marks, objects
<1>1. TypeOK' /\ ListInv'
  BY DEF IInv, TypeOK, ListInv, HandOnInactiveList, Entries
<1>2. RefInv'
  BY DEF IInv, RefInv, RefAccounting, IsCached, Entries
<1>3. CountsExact' /\ CallInv'
  BY DEF IInv, CountsExact, CallInv, Entries, CanPut, IsCached
<1>4. UseInv'
  BY DEF IInv, UseInv, NothingDroppedUnflushed, IsCached
<1>. QED  BY <1>1, <1>2, <1>3, <1>4 DEF IInv

\* What putting o under k does to types, references and ages, whether or not k
\* had another object before.
LEMMA EnlistKeepsTypes ==
  ASSUME TypeOK, ListInv, NEW k \in Keys, NEW o \in Objs, Enlist(k, o)
  PROVE  /\ item' \in [Keys -> Objs \cup {None}]
         /\ item' = [item EXCEPT ![k] = o]
         /\ age' \in [Keys -> 0..AgeCap]
         /\ activeCount' \in Nat
         /\ floating' \subseteq Objs
         /\ \A j \in Keys \ {k} : j \in active' <=> j \in active
         /\ k \in active' <=> o \notin floating
  BY DEF Enlist, NewAge, StaysReferenced, TypeOK

\* RefInv after a put: the old object of k, if any, loses a reference and the
\* new one is owned once.
LEMMA EnlistKeepsReferences ==
  ASSUME IInv, NEW k \in Keys, NEW o \in Objs, Enlist(k, o), CanPut(o),
         item[k] = None \/ holds[item[k]] = 0,
         rc' = [p \in Objs |-> IF p = o THEN StoredRefs(o)
                              ELSE IF p = item[k] THEN rc[p] - 1 ELSE rc[p]],
         holds' = holds
  PROVE  RefInv' /\ rc' \in [Objs -> Nat]
<1>1. /\ item' = [item EXCEPT ![k] = o]
      /\ \A j \in Keys \ {k} : j \in active' <=> j \in active
      /\ k \in active' <=> o \notin floating
  BY EnlistKeepsTypes DEF IInv
<1>2. floating' = floating \ {o}
  BY DEF Enlist
<1>3. Entries' = Entries \cup {k}
  BY <1>1 DEF Entries, IInv, TypeOK
<1>4. \A j \in Keys : item[j] # o
  BY DEF CanPut, IsCached
<1>5. \A p \in Objs : IsCached(p)' <=> p = o \/ (IsCached(p) /\ p # item[k])
  BY <1>1, <1>4 DEF IsCached, IInv, RefInv, TypeOK, Entries
<1>6. \A j, l \in Entries' : item'[j] = item'[l] => j = l
  BY <1>1, <1>3, <1>4 DEF IInv, RefInv, TypeOK, Entries
<1>7. RefAccounting'
  <2>1. ASSUME NEW p \in Objs
        PROVE  rc'[p] = holds'[p] + (IF IsCached(p)' THEN 1 ELSE 0)
                                  + (IF p \in floating' THEN 1 ELSE 0)
    <3>1. rc[p] = holds[p] + (IF IsCached(p) THEN 1 ELSE 0)
                           + (IF p \in floating THEN 1 ELSE 0)
      BY DEF IInv, RefInv, RefAccounting
    <3>2. rc[p] \in Nat /\ holds[p] \in Nat
      BY DEF IInv, TypeOK
    <3>3. CASE p = o
      BY <1>2, <1>5, <3>1, <3>2, <3>3 DEF StoredRefs, CanPut
    <3>4. CASE p # o /\ p = item[k]
      BY <1>2, <1>5, <3>1, <3>2, <3>4 DEF IsCached
    <3>5. CASE p # o /\ p # item[k]
      BY <1>2, <1>5, <3>1, <3>2, <3>5
    <3>. QED  BY <3>3, <3>4, <3>5
  <2>. QED  BY <2>1 DEF RefAccounting
<1>8. \A j \in Entries' : j \in active' <=> holds'[item'[j]] > 0
  <2>1. o \notin floating <=> holds[o] > 0
    BY DEF CanPut, IInv, RefInv
  <2>. QED  BY <1>1, <1>3, <2>1 DEF IInv, RefInv, TypeOK, Entries
<1>9. \A p \in floating' : ~IsCached(p)' /\ holds'[p] = 0
  BY <1>2, <1>5 DEF IInv, RefInv, TypeOK
<1>10. rc' \in [Objs -> Nat]
  <2>1. item[k] \in Objs => rc[item[k]] > 0
    BY DEF IInv, RefInv, RefAccounting, IsCached, TypeOK
  <2>. QED  BY <2>1 DEF StoredRefs, IInv, TypeOK
<1>. QED  BY <1>6, <1>7, <1>8, <1>9, <1>10 DEF RefInv

\* Putting an idle key again keeps the counters right.
LEMMA PutExistingKeeps ==
  ASSUME IInv, Overwrites # "any", NEW k \in Keys, NEW o \in Objs,
         PutExisting(k, o)
  PROVE  IInv'
<1>0. /\ item[k] # None /\ holds[item[k]] = 0 /\ CanPut(o) /\ Enlist(k, o)
      /\ rc' = [rc EXCEPT ![item[k]] = @ - 1, ![o] = StoredRefs(o)]
      /\ UNCHANGED <<count, low, high, stage, putKey, putObj, holds, disposed>>
      /\ stage = "idle" /\ ~disposed
      /\ borrowed' = {o}
      /\ unsaved' = unsaved \ {item[k]}
  BY DEF PutExisting, MayOverwrite, marks, call
<1>1. stale' \subseteq Keys /\ strayRead' \in BOOLEAN
  BY DEF PutExisting, IInv, TypeOK
<1>2. k \in Entries /\ k \in inactive /\ k \notin active
  BY <1>0 DEF Entries, IInv, ListInv, RefInv
<1>3. /\ ListInv' /\ hand' \in Keys \cup {None}
      /\ active' \subseteq Keys /\ inactive' \subseteq Keys
      /\ ahead' \in [Keys -> SUBSET Keys]
  BY <1>0, EnlistKeepsLists DEF IInv
<1>4. /\ item' \in [Keys -> Objs \cup {None}]
      /\ item' = [item EXCEPT ![k] = o]
      /\ age' \in [Keys -> 0..AgeCap]
      /\ activeCount' \in Nat
      /\ floating' \subseteq Objs
  BY <1>0, EnlistKeepsTypes DEF IInv
<1>5. RefInv' /\ rc' \in [Objs -> Nat]
  <2>1. item[k] \in Objs /\ item[k] # o
    BY <1>0 DEF IInv, TypeOK, CanPut, IsCached
  <2>2. rc' = [p \in Objs |-> IF p = o THEN StoredRefs(o)
                             ELSE IF p = item[k] THEN rc[p] - 1 ELSE rc[p]]
    BY <1>0, <2>1 DEF IInv, TypeOK
  <2>. QED  BY <1>0, <2>2, EnlistKeepsReferences
<1>6. TypeOK'
  BY <1>0, <1>1, <1>3, <1>4, <1>5 DEF IInv, TypeOK
<1>7. Entries' = Entries
  BY <1>2, <1>4 DEF Entries, IInv, TypeOK
<1>8. CountsExact'
  <2>1. /\ activeCount = Cardinality(active)
        /\ Cardinality(active \cup {k}) = Cardinality(active) + 1
    BY <1>0, <1>2, ActiveLength DEF IInv, CountsExact
  <2>2. \/ active' = active \cup {k} /\ activeCount' = activeCount + 1
        \/ active' = active /\ activeCount' = activeCount
    BY <1>0, <1>2 DEF Enlist
  <2>. QED  BY <1>0, <1>7, <2>1, <2>2 DEF IInv, CountsExact
<1>9. CallInv'
  BY <1>0 DEF CallInv
<1>10. UseInv'
  <2>1. item'[k] = o /\ age'[k] > 0
    BY <1>0, <1>4 DEF Enlist, NewAge, IInv, TypeOK
  <2>2. NothingDroppedUnflushed'
    BY <1>0, <1>4 DEF IInv, UseInv, NothingDroppedUnflushed, IsCached, TypeOK
  <2>. QED  BY <1>0, <2>1, <2>2 DEF UseInv
<1>. QED  BY <1>3, <1>5, <1>6, <1>8, <1>9, <1>10 DEF IInv

\* The end of a put adds one entry, on the list its references ask for.
LEMMA StoreNewKeeps ==
  ASSUME IInv, StoreNew
  PROVE  IInv'
<1>. DEFINE k == putKey
            o == putObj
<1>0. /\ k \in Keys /\ o \in Objs /\ item[k] = None /\ CanPut(o) /\ Enlist(k, o)
      /\ rc' = [rc EXCEPT ![o] = StoredRefs(o)]
      /\ count' = count + 1
      /\ stage' = "idle" /\ putKey' = None /\ putObj' = None
      /\ UNCHANGED <<low, high, stale, holds, disposed, unsaved, strayRead>>
      /\ ~disposed /\ borrowed' = {o}
  BY DEF StoreNew, IInv, CallInv, marks
<1>2. k \notin Entries /\ k \notin inactive /\ k \notin active
  BY <1>0 DEF Entries, IInv, ListInv
<1>. HIDE DEF k, o
<1>3. /\ ListInv' /\ hand' \in Keys \cup {None}
      /\ active' \subseteq Keys /\ inactive' \subseteq Keys
      /\ ahead' \in [Keys -> SUBSET Keys]
  BY <1>0, EnlistKeepsLists DEF IInv
<1>4. /\ item' \in [Keys -> Objs \cup {None}]
      /\ item' = [item EXCEPT ![k] = o]
      /\ age' \in [Keys -> 0..AgeCap]
      /\ activeCount' \in Nat
      /\ floating' \subseteq Objs
  BY <1>0, EnlistKeepsTypes DEF IInv
<1>5. RefInv' /\ rc' \in [Objs -> Nat]
  <2>1. rc' = [p \in Objs |-> IF p = o THEN StoredRefs(o)
                             ELSE IF p = item[k] THEN rc[p] - 1 ELSE rc[p]]
    BY <1>0 DEF IInv, TypeOK
  <2>. QED  BY <1>0, <2>1, EnlistKeepsReferences
<1>6. TypeOK'
  BY <1>0, <1>3, <1>4, <1>5 DEF IInv, TypeOK
<1>7. Entries' = Entries \cup {k}
  BY <1>0, <1>4 DEF Entries, IInv, TypeOK
<1>8. CountsExact'
  <2>1. /\ activeCount = Cardinality(active) /\ count = Cardinality(Entries)
        /\ Cardinality(active \cup {k}) = Cardinality(active) + 1
        /\ Cardinality(Entries \cup {k}) = Cardinality(Entries) + 1
    BY <1>0, <1>2, ActiveLength, EntryCount DEF IInv, CountsExact
  <2>2. \/ active' = active \cup {k} /\ activeCount' = activeCount + 1
        \/ active' = active /\ activeCount' = activeCount
    BY <1>0, <1>2 DEF Enlist
  <2>. QED  BY <1>0, <1>7, <2>1, <2>2 DEF CountsExact
<1>9. CallInv'
  BY <1>0 DEF CallInv
<1>10. UseInv'
  <2>1. item'[k] = o /\ age'[k] > 0
    BY <1>0, <1>4 DEF Enlist, NewAge, IInv, TypeOK
  <2>2. NothingDroppedUnflushed'
    BY <1>0, <1>4 DEF IInv, UseInv, NothingDroppedUnflushed, IsCached, TypeOK
  <2>. QED  BY <1>0, <2>1, <2>2 DEF UseInv
<1>. QED  BY <1>3, <1>5, <1>6, <1>8, <1>9, <1>10 DEF IInv

\* What a sweep drops is idle, so nobody outside misses it.
LEMMA SweepKeeps ==
  ASSUME IInv, Sweep
  PROVE  IInv'
<1>0. /\ Victims \subseteq Reached /\ Reached \subseteq inactive
      /\ inactive \subseteq Entries /\ Entries \subseteq Keys
      /\ Victims \cap active = {}
  BY DEF Victims, Old, Reached, IInv, ListInv, Entries
<1>1. /\ stage = "replace" /\ ~disposed /\ borrowed = {}
      /\ item' = [j \in Keys |-> IF j \in Victims THEN None ELSE item[j]]
      /\ UNCHANGED <<active, activeCount, low, high, putKey, putObj, floating,
                     holds, borrowed, disposed>>
      /\ stage' \in {"replace", "store"}
  BY DEF Sweep, marks, IInv, CallInv
<1>2. Entries' = Entries \ Victims
  BY <1>1 DEF Entries
<1>3. ListInv' /\ ahead' \in [Keys -> SUBSET Keys]
  <2>1. inactive' = inactive \ Victims /\ ahead' = Unlinked(Victims)
    BY DEF Sweep
  <2>2. /\ ahead' \in [Keys -> SUBSET Keys]
        /\ \A j \in Keys : ahead'[j] \subseteq inactive' \ {j}
    BY <2>1, UnlinkedOrder DEF IInv
  <2>3. hand' \in inactive' \cup {None}
    <3>1. CASE inactive = {}
      BY <1>0, <2>1, <3>1 DEF Sweep, HandAfterSweep, IInv, ListInv, HandOnInactiveList
    <3>2. CASE inactive # {} /\ inactive \subseteq Reached
      <4>1. hand' = First(inactive \ Victims)
        BY <3>2 DEF Sweep, HandAfterSweep
      <4>. QED  BY <2>1, <4>1, FirstIsMember
    <3>3. CASE inactive # {} /\ ~(inactive \subseteq Reached)
      <4>1. hand' = First(inactive \ Reached)
        BY <3>3 DEF Sweep, HandAfterSweep
      <4>. QED  BY <1>0, <2>1, <4>1, FirstIsMember
    <3>. QED  BY <3>1, <3>2, <3>3
  <2>4. active' \cup inactive' = Entries' /\ active' \cap inactive' = {}
    BY <1>0, <1>1, <1>2, <2>1 DEF IInv, ListInv
  <2>. QED  BY <2>2, <2>3, <2>4 DEF ListInv, HandOnInactiveList
<1>4. count' = Cardinality(Entries') /\ count' \in Nat
  <2>1. IsFiniteSet(Entries)
    BY <1>0, FiniteAssumption, FS_Subset
  <2>2. Cardinality(Entries \ Victims) = Cardinality(Entries) - Cardinality(Entries \cap Victims)
    BY <2>1, FS_Difference
  <2>3. Entries \cap Victims = Victims
    BY <1>0
  <2>4. IsFiniteSet(Entries \ Victims)
    BY <2>1, FS_Difference
  <2>5. Cardinality(Entries \ Victims) \in Nat
    BY <2>4, FS_CardinalityType
  <2>6. count' = Cardinality(Entries) - Cardinality(Victims)
    BY DEF Sweep, IInv, CountsExact
  <2>. QED  BY <1>2, <2>2, <2>3, <2>5, <2>6
<1>5. \A p \in Objs : IsCached(p)' <=> IsCached(p) /\ ~\E j \in Victims : item[j] = p
  BY <1>0, <1>1 DEF IsCached, IInv, RefInv, TypeOK, Entries
<1>6. RefAccounting' /\ rc' \in [Objs -> Nat]
  <2>1. rc' = [p \in Objs |-> IF \E j \in Victims : item[j] = p THEN rc[p] - 1 ELSE rc[p]]
    BY DEF Sweep
  <2>2. \A p \in Objs : (\E j \in Victims : item[j] = p) => IsCached(p)
    BY <1>0 DEF IsCached
  <2>3. \A p \in Objs :
          /\ rc[p] \in Nat /\ holds[p] \in Nat
          /\ rc[p] = holds[p] + (IF IsCached(p) THEN 1 ELSE 0)
                             + (IF p \in floating THEN 1 ELSE 0)
    BY DEF IInv, RefInv, RefAccounting, TypeOK
  <2>4. RefAccounting'
    BY <1>1, <1>5, <2>1, <2>2, <2>3 DEF RefAccounting
  <2>5. rc' \in [Objs -> Nat]
    BY <2>1, <2>2, <2>3
  <2>. QED  BY <2>4, <2>5
<1>7. RefInv'
  <2>1. \A j \in Entries' : j \in Entries /\ item'[j] = item[j]
    BY <1>0, <1>1, <1>2
  <2>2. \A j \in Entries' : j \in active' <=> holds'[item'[j]] > 0
    BY <1>1, <2>1 DEF IInv, RefInv
  <2>3. \A p \in floating' : ~IsCached(p)' /\ holds'[p] = 0
    BY <1>1, <1>5 DEF IInv, RefInv, TypeOK
  <2>. QED  BY <1>6, <2>1, <2>2, <2>3 DEF IInv, RefInv
<1>8. TypeOK'
  <2>1. age' \in [Keys -> 0..AgeCap]
    BY DEF Sweep, Halved, IInv, TypeOK
  <2>2. item' \in [Keys -> Objs \cup {None}]
    BY <1>1 DEF IInv, TypeOK
  <2>3. /\ stale' \subseteq Keys /\ strayRead' \in BOOLEAN /\ unsaved' \subseteq Objs
        /\ inactive' \subseteq Keys
    BY DEF Sweep, FlushedBy, IInv, TypeOK
  <2>4. hand' \in Keys \cup {None}
    BY <1>3, <2>3 DEF ListInv, HandOnInactiveList
  <2>. QED  BY <1>1, <1>3, <1>4, <1>6, <2>1, <2>2, <2>3, <2>4 DEF IInv, TypeOK
<1>9. CountsExact'
  BY <1>1, <1>4 DEF IInv, CountsExact
<1>10. CallInv'
  BY <1>0, <1>1, <1>5 DEF IInv, CallInv, CanPut
<1>11. UseInv'
  <2>1. unsaved' = unsaved \ {item[j] : j \in Victims}
    BY DEF Sweep, FlushedBy
  <2>2. NothingDroppedUnflushed'
    BY <1>5, <2>1 DEF IInv, TypeOK, UseInv, NothingDroppedUnflushed
  <2>. QED  BY <1>1, <2>2 DEF UseInv
<1>. QED  BY <1>3, <1>7, <1>8, <1>9, <1>10, <1>11 DEF IInv

-----------------------------------------------------------------------------
(* Watermarks and destruction *)

\* The high watermark ends up above the low one whatever is asked for.
LEMMA SetWatermarksKeeps ==
  ASSUME IInv, NEW h \in Nat, NEW l \in Nat, SetWatermarks(h, l)
  PROVE  IInv'
<1>. USE DEF SetWatermarks, RaisedHigh, lists, table, call, objects
<1>1. TypeOK' /\ ListInv'
  BY DEF IInv, TypeOK, ListInv, HandOnInactiveList, Entries
<1>2. RefInv'
  BY DEF IInv, RefInv, RefAccounting, IsCached, Entries
<1>3. CountsExact' /\ CallInv'
  BY DEF IInv, CountsExact, CallInv, Entries
<1>4. UseInv'
  BY DEF IInv, UseInv, NothingDroppedUnflushed, IsCached
<1>. QED  BY <1>1, <1>2, <1>3, <1>4 DEF IInv

\* Disposing of the cache gives up every reference it owns, once.
LEMMA DisposeKeeps ==
  ASSUME IInv, Dispose
  PROVE  IInv'
<1>0. /\ Drop(Entries, None, 0) /\ borrowed' = {} /\ disposed'
      /\ unsaved' = unsaved \ {item[k] : k \in Entries}
      /\ rc' = [o \in Objs |-> IF IsCached(o) THEN rc[o] - 1 ELSE rc[o]]
      /\ stage = "idle"
      /\ UNCHANGED <<low, high, stage, putKey, putObj, floating, holds, strayRead>>
  BY DEF Dispose, FlushedBy, marks, call
<1>1. item' = [k \in Keys |-> None] /\ Entries' = {}
  BY <1>0 DEF Drop, Entries, IInv, TypeOK
<1>2. \A o \in Objs : ~IsCached(o)'
  BY <1>1 DEF IsCached
<1>3. /\ ListInv' /\ hand' \in Keys \cup {None}
      /\ active' \subseteq Keys /\ inactive' \subseteq Keys
      /\ ahead' \in [Keys -> SUBSET Keys]
  <2>1. Entries \in SUBSET Keys
    BY DEF Entries
  <2>. QED  BY <1>0, <2>1, DropKeepsLists DEF IInv
<1>4. count' = 0 /\ Cardinality(Entries') = 0
  <2>1. Cardinality(Entries) \in Nat
    <3>1. IsFiniteSet(Entries)
      BY FiniteAssumption, FS_Subset DEF Entries
    <3>. QED  BY <3>1, FS_CardinalityType
  <2>2. count' = Cardinality(Entries) - Cardinality(Entries)
    BY <1>0 DEF Drop, IInv, CountsExact
  <2>. QED  BY <1>1, <2>1, <2>2, FS_EmptySet
<1>5. RefAccounting' /\ rc' \in [Objs -> Nat]
  BY <1>0, <1>2 DEF IInv, TypeOK, RefInv, RefAccounting
<1>6. TypeOK'
  <2>1. activeCount' \in Nat /\ age' \in [Keys -> 0..AgeCap] /\ stale' \subseteq Keys
    BY <1>0 DEF Drop, IInv, TypeOK
  <2>. QED  BY <1>0, <1>1, <1>3, <1>4, <1>5, <2>1 DEF IInv, TypeOK
<1>7. RefInv'
  BY <1>0, <1>1, <1>2, <1>5 DEF IInv, TypeOK, RefInv
<1>8. CountsExact' /\ CallInv'
  BY <1>0, <1>1, <1>4 DEF CountsExact, CallInv
<1>9. UseInv'
  <2>1. unsaved' = {}
    BY <1>0 DEF IInv, UseInv, NothingDroppedUnflushed, IsCached, Entries, TypeOK
  <2>. QED  BY <1>0, <2>1 DEF UseInv, NothingDroppedUnflushed
<1>. QED  BY <1>3, <1>6, <1>7, <1>8, <1>9 DEF IInv

-----------------------------------------------------------------------------
(* The invariant *)

\* An empty cache satisfies the invariant, whatever watermarks it is given.
LEMMA InitEstablishes == Init => IInv
<1>. SUFFICES ASSUME Init PROVE IInv
  OBVIOUS
<1>1. Entries = {} /\ \A o \in Objs : ~IsCached(o)
  BY DEF Init, Entries, IsCached
<1>2. TypeOK
  <2>1. low \in Nat /\ high \in Nat /\ low < high
    <3>1. low \in LowMarks /\ \E h \in HighMarks : high = RaisedHigh(h, low)
      BY DEF Init
    <3>. QED  BY <3>1 DEF RaisedHigh
  <2>2. age \in [Keys -> 0..AgeCap] /\ rc \in [Objs -> Nat] /\ holds \in [Objs -> Nat]
    BY DEF Init
  <2>3. /\ item \in [Keys -> Objs \cup {None}] /\ ahead \in [Keys -> SUBSET Keys]
        /\ stage \in {"idle", "replace", "store"}
        /\ disposed \in BOOLEAN /\ strayRead \in BOOLEAN
    BY DEF Init
  <2>4. /\ active = {} /\ inactive = {} /\ stale = {} /\ floating = {}
        /\ borrowed = {} /\ unsaved = {}
        /\ hand = None /\ putKey = None /\ putObj = None
        /\ count = 0 /\ activeCount = 0
    BY DEF Init
  <2>. QED  BY <2>1, <2>2, <2>3, <2>4 DEF TypeOK
<1>3. ListInv /\ RefInv
  BY <1>1 DEF Init, ListInv, RefInv, RefAccounting, HandOnInactiveList
<1>4. CountsExact
  BY <1>1, FS_EmptySet DEF Init, CountsExact
<1>5. CallInv /\ UseInv
  BY <1>1 DEF Init, CallInv, UseInv, NothingDroppedUnflushed
<1>. QED  BY <1>2, <1>3, <1>4, <1>5 DEF IInv

\* Every operation keeps the invariant; one step per action of Next.
LEMMA NextKeeps ==
  ASSUME IInv, Overwrites # "any", [Next]_vars
  PROVE  IInv'
<1>1. ASSUME NEW o \in Objs, NEW floats \in BOOLEAN, Create(o, floats) PROVE IInv'
  BY <1>1, CreateKeeps
<1>2. ASSUME NEW o \in Objs, Ref(o) PROVE IInv'
  BY <1>2, RefKeeps
<1>3. ASSUME NEW o \in Objs, Unref(o) PROVE IInv'
  BY <1>3, UnrefKeeps
<1>4. ASSUME NEW o \in Objs, Modify(o) PROVE IInv'
  BY <1>4, ModifyKeeps
<1>5. ASSUME NEW k \in Keys, Get(k) PROVE IInv'
  BY <1>5, GetKeeps
<1>6. ASSUME NEW k \in Keys, NEW o \in Objs, PutExisting(k, o) PROVE IInv'
  BY <1>6, PutExistingKeeps
<1>7. ASSUME NEW k \in Keys, NEW o \in Objs, PutNew(k, o) PROVE IInv'
  BY <1>7, PutNewKeeps
<1>8. CASE Sweep
  BY <1>8, SweepKeeps
<1>9. CASE StoreNew
  BY <1>9, StoreNewKeeps
<1>10. ASSUME NEW h \in HighMarks, SetHigh(h) PROVE IInv'
  BY <1>10, SetWatermarksKeeps DEF SetHigh, IInv, TypeOK
<1>11. ASSUME NEW l \in LowMarks, SetLow(l) PROVE IInv'
  BY <1>11, SetWatermarksKeeps DEF SetLow, IInv, TypeOK
<1>12. CASE Dispose
  BY <1>12, DisposeKeeps
<1>13. CASE UNCHANGED vars
  <2>. USE <1>13 DEF vars, lists, table, marks, call, objects
  <2>1. TypeOK' /\ ListInv'
    BY DEF IInv, TypeOK, ListInv, HandOnInactiveList, Entries
  <2>2. RefInv'
    BY DEF IInv, RefInv, RefAccounting, IsCached, Entries
  <2>3. CountsExact' /\ CallInv'
    BY DEF IInv, CountsExact, CallInv, Entries, CanPut, IsCached
  <2>4. UseInv'
    BY DEF IInv, UseInv, NothingDroppedUnflushed, IsCached
  <2>. QED  BY <2>1, <2>2, <2>3, <2>4 DEF IInv
<1>. QED
  BY <1>1, <1>2, <1>3, <1>4, <1>5, <1>6, <1>7, <1>8, <1>9, <1>10, <1>11, <1>12, <1>13
  DEF Next

\* The inductive invariant of pt-cache.c holds for clients that put a key again
\* only while its object is idle.
THEOREM InductiveInvariant == Overwrites # "any" => (Spec => []IInv)
<1>. SUFFICES ASSUME Overwrites # "any" PROVE Spec => []IInv
  OBVIOUS
<1>1. IInv /\ [Next]_vars => IInv'
  BY NextKeeps
<1>. QED  BY <1>1, InitEstablishes, PTL DEF Spec

\* Type correctness of the cache's state, watermark order included.
THEOREM TypeCorrect == Overwrites # "any" => (Spec => []TypeOK)
<1>1. IInv => TypeOK
  BY DEF IInv
<1>. QED  BY <1>1, InductiveInvariant, PTL

\* The cache owns exactly one reference to each of its objects.
THEOREM ReferencesBalance == Overwrites # "any" => (Spec => []RefAccounting)
<1>1. IInv => RefAccounting
  BY DEF IInv, RefInv
<1>. QED  BY <1>1, InductiveInvariant, PTL

\* Items are on the active list exactly while a client refers to them.
THEOREM ListsTellReferences == Overwrites # "any" => (Spec => []ActiveIffReferenced)
<1>1. IInv => ActiveIffReferenced
  BY DEF IInv, RefInv, ListInv, ActiveIffReferenced
<1>. QED  BY <1>1, InductiveInvariant, PTL

\* The assertions on list lengths at the end of toggle_last_ref_cb() and
\* pt_cache_put() never fail.
THEOREM CountersNeverDrift == Overwrites # "any" => (Spec => []CountsExact)
<1>1. IInv => CountsExact
  BY DEF IInv
<1>. QED  BY <1>1, InductiveInvariant, PTL

\* repl_hand never dangles.
THEOREM HandNeverDangles == Overwrites # "any" => (Spec => []HandOnInactiveList)
<1>1. IInv => HandOnInactiveList
  BY DEF IInv, ListInv
<1>. QED  BY <1>1, InductiveInvariant, PTL

\* A borrowed object stays in the cache until the next put.
THEOREM BorrowingIsSafe == Overwrites # "any" => (Spec => []BorrowedStaysCached)
<1>1. IInv => BorrowedStaysCached
  BY DEF IInv, UseInv, RefInv, RefAccounting, TypeOK, BorrowedStaysCached, IsCached
<1>. QED  BY <1>1, InductiveInvariant, PTL

\* No change to a cached object is lost by dropping it.
THEOREM ChangesReachTheFlush == Overwrites # "any" => (Spec => []NothingDroppedUnflushed)
<1>1. IInv => NothingDroppedUnflushed
  BY DEF IInv, UseInv
<1>. QED  BY <1>1, InductiveInvariant, PTL

-----------------------------------------------------------------------------
(* Clients like the user cache's *)

KeysStayPut == stale = {} /\ NoStrayRead

\* Every operation keeps the ages of used items and the key pointers sound.
LEMMA NextKeepsUsedAged ==
  ASSUME IInv, UsedItemsHaveAge, KeysStayPut,
         Overwrites = "never", ~RawPointers, [Next]_vars
  PROVE  UsedItemsHaveAge' /\ KeysStayPut'
<1>. USE DEF UsedItemsHaveAge, KeysStayPut, NoStrayRead
<1>1. ASSUME NEW o \in Objs, NEW floats \in BOOLEAN, Create(o, floats)
      PROVE  UsedItemsHaveAge' /\ KeysStayPut'
  BY <1>1 DEF Create, lists, table, Entries
<1>2. ASSUME NEW o \in Objs, Ref(o)
      PROVE  UsedItemsHaveAge' /\ KeysStayPut'
  <2>1. UNCHANGED <<item, stale, age, borrowed, strayRead>> /\ CanReach(o)
    BY <1>2 DEF Ref, table
  <2>2. CASE UNCHANGED lists
    BY <2>1, <2>2 DEF lists, Entries
  <2>3. ASSUME rc[o] = 1, NEW k \in Keys, item[k] = o, Awaken(k)
        PROVE  UsedItemsHaveAge' /\ KeysStayPut'
    <3>1. holds[o] = 0
      BY <2>3 DEF IInv, TypeOK, RefInv, RefAccounting, IsCached
    <3>2. o \in borrowed
      BY <2>1, <3>1 DEF CanReach
    <3>3. age[k] > 0
      BY <2>3, <3>2 DEF Entries
    <3>. QED  BY <2>1, <2>3, <3>3 DEF Awaken, Entries
  <2>. QED  BY <1>2, <2>2, <2>3 DEF Ref
<1>3. ASSUME NEW o \in Objs, Unref(o)
      PROVE  UsedItemsHaveAge' /\ KeysStayPut'
  <2>1. UNCHANGED borrowed /\ holds[o] > 0
    BY <1>3 DEF Unref
  <2>2. CASE UNCHANGED <<lists, table, age, unsaved, strayRead>>
    BY <2>1, <2>2 DEF lists, table, Entries
  <2>3. ASSUME NEW k \in Keys, item[k] = o, age[k] = 0, EvictOnLastRef(k)
        PROVE  FALSE
    <3>1. k \in active
      BY <2>1, <2>3 DEF IInv, RefInv, Entries
    <3>. QED  BY <2>3, <3>1 DEF Entries
  <2>4. ASSUME NEW k \in Keys, item[k] = o, Retire(k),
               UNCHANGED <<table, age, unsaved, strayRead>>
        PROVE  UsedItemsHaveAge' /\ KeysStayPut'
    BY <2>1, <2>4 DEF Retire, table, Entries
  <2>. QED  BY <1>3, <2>2, <2>3, <2>4 DEF Unref
<1>4. ASSUME NEW o \in Objs, Modify(o)
      PROVE  UsedItemsHaveAge' /\ KeysStayPut'
  BY <1>4 DEF Modify, lists, table, Entries
<1>5. ASSUME NEW k \in Keys, Get(k)
      PROVE  UsedItemsHaveAge' /\ KeysStayPut'
  <2>1. /\ age' \in [Keys -> 0..AgeCap] /\ age'[k] > 0
        /\ \A j \in Keys : j # k => age'[j] = age[j]
    BY <1>5, HitAgeRange DEF Get, IInv, TypeOK
  <2>2. /\ UNCHANGED <<active, item, stale>> /\ borrowed' = borrowed \cup {item[k]}
        /\ ~strayRead' /\ k \in Entries
    BY <1>5 DEF Get, lists, table, Entries
  <2>. QED  BY <2>1, <2>2 DEF IInv, RefInv, Entries
<1>6. ASSUME NEW k \in Keys, NEW o \in Objs, PutExisting(k, o)
      PROVE  FALSE
  BY <1>6 DEF PutExisting, MayOverwrite
<1>7. ASSUME NEW k \in Keys, NEW o \in Objs, PutNew(k, o)
      PROVE  UsedItemsHaveAge' /\ KeysStayPut'
  BY <1>7 DEF PutNew, lists, table, Entries
<1>8. CASE Sweep
  <2>1. /\ borrowed' = {} /\ active' = active
        /\ stale' = {} /\ ~strayRead'
    BY <1>8 DEF Sweep, IInv, CallInv
  <2>2. \A k \in active : k \in Entries /\ k \notin Reached
    BY DEF IInv, ListInv, Reached
  <2>3. \A k \in active : age'[k] = age[k]
    BY <1>8, <2>2 DEF Sweep, IInv, TypeOK
  <2>. QED  BY <2>1, <2>2, <2>3 DEF Entries
<1>9. CASE StoreNew
  <2>1. /\ putKey \in Keys /\ putObj \in Objs /\ Enlist(putKey, putObj)
        /\ borrowed' = {putObj} /\ UNCHANGED <<stale, strayRead>>
        /\ ~IsCached(putObj)
    BY <1>9 DEF CanPut, StoreNew, IInv, CallInv
  <2>2. \A k \in Keys \ {putKey} : k \in active' => k \in active
    BY <2>1, EnlistKeepsTypes DEF IInv
  <2>3. age' = [age EXCEPT ![putKey] = 1] /\ item' = [item EXCEPT ![putKey] = putObj]
    BY <2>1 DEF Enlist, NewAge
  <2>. QED  BY <2>1, <2>2, <2>3 DEF Entries, IsCached, IInv, TypeOK
<1>10. ASSUME NEW h, NEW l, SetWatermarks(h, l)
       PROVE  UsedItemsHaveAge' /\ KeysStayPut'
  BY <1>10 DEF SetWatermarks, lists, table, Entries
<1>11. CASE Dispose
  <2>1. item' = [k \in Keys |-> None] /\ stale' = {} /\ strayRead' = strayRead
    BY <1>11 DEF Dispose, Drop, Entries, IInv, TypeOK
  <2>. QED  BY <2>1 DEF Entries
<1>12. CASE UNCHANGED vars
  BY <1>12 DEF vars, lists, table, Entries
<1>. QED
  BY <1>1, <1>2, <1>3, <1>4, <1>5, <1>6, <1>7, <1>8, <1>9, <1>10, <1>11, <1>12
  DEF Next, SetHigh, SetLow

\* Clients that never put a key twice and refer to entries only through what
\* they hold or have just looked up - what usercache.c has to be - may keep the
\* keys inside the objects: an item in use always has an age, so the removal in
\* toggle_last_ref_cb() that reads a key after its object is gone never runs.
THEOREM EmbeddedKeysAreSafe ==
  Overwrites = "never" /\ ~RawPointers => (Spec => [](UsedItemsHaveAge /\ NoStrayRead))
<1>. SUFFICES ASSUME Overwrites = "never", ~RawPointers
              PROVE  Spec => [](UsedItemsHaveAge /\ NoStrayRead)
  OBVIOUS
<1>1. Init => UsedItemsHaveAge /\ KeysStayPut
  BY DEF Init, UsedItemsHaveAge, KeysStayPut, NoStrayRead, Entries
<1>2. IInv /\ UsedItemsHaveAge /\ KeysStayPut /\ [Next]_vars
        => UsedItemsHaveAge' /\ KeysStayPut'
  BY NextKeepsUsedAged
<1>3. Spec => []IInv
  BY InductiveInvariant
<1>4. KeysStayPut => NoStrayRead
  BY DEF KeysStayPut
<1>. QED  BY <1>1, <1>2, <1>3, <1>4, PTL DEF Spec

\* Of that, the half about ages: an entry that is in use, or was just looked
\* up, always survives a sweep after it becomes idle.
THEOREM UsedItemsAreAged ==
  Overwrites = "never" /\ ~RawPointers => (Spec => []UsedItemsHaveAge)
<1>. SUFFICES ASSUME Overwrites = "never", ~RawPointers
              PROVE  Spec => []UsedItemsHaveAge
  OBVIOUS
<1>1. Spec => [](UsedItemsHaveAge /\ NoStrayRead)
  BY EmbeddedKeysAreSafe
<1>. QED  BY <1>1, PTL

-----------------------------------------------------------------------------
(* The header's promise *)

\* An empty cache is an empty cache of the contract.
LEMMA ContractInit == Init => Contract!Init
BY DEF Init, Contract!Init

\* Every step of pt-cache.c is a step the header allows, or none.
LEMMA ContractStep ==
  ASSUME IInv, IInv', Overwrites # "any", [Next]_vars
  PROVE  [Contract!Next]_(Contract!vars)
<1>. USE DEF Contract!vars, lists, table, marks, call, objects
<1>1. ASSUME NEW o \in Objs, NEW floats \in BOOLEAN, Create(o, floats)
      PROVE  Contract!Acquire(o) \/ UNCHANGED Contract!vars
  <2>1. holds[o] = 0
    BY <1>1 DEF Create, IInv, TypeOK, RefInv, RefAccounting
  <2>. QED  BY <1>1, <2>1 DEF Create, Contract!Acquire, IInv, TypeOK
<1>2. ASSUME NEW o \in Objs, Ref(o)
      PROVE  Contract!Acquire(o)
  BY <1>2 DEF Ref, Contract!Acquire
<1>3. ASSUME NEW o \in Objs, Unref(o)
      PROVE  Contract!Release(o)
  <2>1. /\ stage = "idle" /\ holds[o] > 0 /\ holds' = [holds EXCEPT ![o] = @ - 1]
        /\ UNCHANGED <<borrowed, stage, disposed>>
    BY <1>3 DEF Unref
  <2>2. CASE UNCHANGED <<table, unsaved>>
    BY <2>1, <2>2 DEF Contract!Release
  <2>3. ASSUME rc[o] = 2, NEW k \in Keys, item[k] = o, age[k] = 0, EvictOnLastRef(k)
        PROVE  Contract!Release(o)
    <3>1. holds[o] = 1
      BY <2>1, <2>3 DEF IInv, TypeOK, RefInv, RefAccounting, IsCached
    <3>2. o \notin borrowed
      BY <2>3 DEF IInv, UseInv, RefInv, TypeOK, Entries
    <3>3. item' = [item EXCEPT ![k] = None] /\ unsaved' = unsaved \ {o}
      BY <2>3 DEF EvictOnLastRef, Drop, IInv, TypeOK
    <3>. QED  BY <2>1, <2>3, <3>1, <3>2, <3>3 DEF Contract!Release
  <2>. QED  BY <1>3, <2>2, <2>3 DEF Unref
<1>4. ASSUME NEW o \in Objs, Modify(o)
      PROVE  Contract!Change(o)
  BY <1>4 DEF Modify, Contract!Change, Contract!CachedObjs, IsCached
<1>5. ASSUME NEW k \in Keys, Get(k)
      PROVE  Contract!Lookup(k)
  BY <1>5 DEF Get, Contract!Lookup
<1>6. ASSUME NEW k \in Keys, NEW o \in Objs, PutExisting(k, o)
      PROVE  Contract!Overwrite(k, o)
  BY <1>6 DEF PutExisting, Enlist, CanPut, IsCached, Contract!Overwrite, Contract!CachedObjs
<1>7. ASSUME NEW k \in Keys, NEW o \in Objs, PutNew(k, o)
      PROVE  Contract!BeginPut
  BY <1>7 DEF PutNew, Contract!BeginPut
<1>8. CASE Sweep
  <2>1. Victims \subseteq inactive /\ inactive \subseteq Entries /\ Entries \subseteq Keys
    BY DEF Victims, Old, Reached, IInv, ListInv, Entries
  <2>2. \A k \in Victims : item[k] # None /\ holds[item[k]] = 0
    BY <2>1 DEF IInv, ListInv, RefInv, TypeOK, Entries
  <2>3. Contract!Replace(Victims)
    BY <1>8, <2>2 DEF Sweep, FlushedBy, Contract!Replace, Contract!Droppable
  <2>. QED  BY <2>1, <2>3 DEF Contract!Next
<1>9. CASE StoreNew
  <2>1. putKey \in Keys /\ putObj \in Objs /\ item[putKey] = None /\ CanPut(putObj)
    BY <1>9 DEF StoreNew, IInv, CallInv
  <2>2. Contract!Store(putKey, putObj)
    BY <1>9, <2>1 DEF StoreNew, Enlist, CanPut, IsCached, Contract!Store, Contract!CachedObjs
  <2>. QED  BY <2>1, <2>2 DEF Contract!Next
<1>10. ASSUME NEW h, NEW l, SetWatermarks(h, l)
       PROVE  UNCHANGED Contract!vars
  BY <1>10 DEF SetWatermarks
<1>11. CASE Dispose
  <2>1. item' = [k \in Keys |-> None]
    BY <1>11 DEF Dispose, Drop, Entries, IInv, TypeOK
  <2>2. unsaved' = {}
    BY <2>1 DEF IInv, UseInv, NothingDroppedUnflushed, IsCached, TypeOK
  <2>. QED  BY <1>11, <2>1, <2>2 DEF Dispose, Contract!Close, Contract!Next
<1>12. CASE UNCHANGED vars
  BY <1>12 DEF vars
<1>. QED
  BY <1>1, <1>2, <1>3, <1>4, <1>5, <1>6, <1>7, <1>8, <1>9, <1>10, <1>11, <1>12
  DEF Next, SetHigh, SetLow, Contract!Next

\* pt-cache.c keeps the promises of pt-cache.h.
THEOREM CacheKeepsContract == Overwrites # "any" => (Spec => KeepsContract)
<1>. SUFFICES ASSUME Overwrites # "any" PROVE Spec => Contract!Spec
  BY DEF KeepsContract
<1>1. IInv /\ IInv' /\ [Next]_vars => [Contract!Next]_(Contract!vars)
  BY ContractStep
<1>2. Spec => []IInv
  BY InductiveInvariant
<1>. QED  BY <1>1, <1>2, ContractInit, PTL DEF Spec, Contract!Spec

=============================================================================
