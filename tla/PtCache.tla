------------------------------- MODULE PtCache -------------------------------
(***************************************************************************)
(* pt-cache.c: the high/low watermark cache of GObjects.  Each entry holds *)
(* its object by a GObject toggle reference, so that the cache is told     *)
(* when the last reference outside it goes away and when one comes back:   *)
(* entries with outside references are on the active list, the others on   *)
(* the inactive list, where a second-chance sweep replaces them.           *)
(*                                                                         *)
(* The program is one thread, so a call is one action, except that a put   *)
(* that has to make room is taken apart at each sweep (do-while of         *)
(* pt_cache_replace_full).                                                 *)
(***************************************************************************)
EXTENDS Integers, FiniteSets

CONSTANTS
  Keys,         \* the keys clients use
  Objs,         \* the objects (an object that died may be made again)
  None,
  MaxReplace,   \* MAX_REPLACE, the size of the replacement buffer
  AgeCap,       \* UINT32_MAX: ages saturate there
  MaxHolds,     \* bound: outside references to one object
  LowMarks,     \* watermarks the application sets
  HighMarks,
  KeyKind,      \* how keys are passed: "static" (key_size 0, memory that
                \* stays), "embedded" (key_size 0, memory inside the object,
                \* as usercache.c does), "copied" (key_size > 0)
  KeysOf,       \* KeysOf[o]: the keys o may be put under
  Overwrites,   \* which existing keys clients put again: "never", "idle"
                \* (no outside reference to the old object), "any"
  RawPointers   \* clients take references through pointers that they
                \* neither hold nor have just looked up

ASSUME NoneAssumption == None \notin Keys \cup Objs
ASSUME SizeAssumption == MaxReplace \in Nat \ {0} /\ AgeCap \in Nat \ {0}
ASSUME BoundAssumption == MaxHolds \in Nat
ASSUME FiniteAssumption == IsFiniteSet(Keys)
ASSUME MarkAssumption ==
  LowMarks \subseteq Nat \ {0} /\ HighMarks \subseteq Nat \ {0} /\ LowMarks # {} /\ HighMarks # {}
ASSUME ClientAssumption ==
  /\ KeyKind \in {"static", "embedded", "copied"}
  /\ Overwrites \in {"never", "idle", "any"}
  /\ KeysOf \in [Objs -> SUBSET Keys]
  /\ RawPointers \in BOOLEAN

VARIABLES
  item,         \* item[k]: the object of the entry under k, or None
  age,          \* age[k]: its age (0 where there is no entry)
  active,       \* keys of the items on active_list
  inactive,     \* keys of the items on inactive_list
  ahead,        \* ahead[k]: the keys between the head of inactive_list and k
  hand,         \* repl_hand: the key of an item, or None
  count,        \* count
  activeCount,  \* active_count
  low,          \* wm_low
  high,         \* wm_high
  stale,        \* keys the hash table knows by a pointer the item gave up
  rc,           \* rc[o]: GObject reference count, 0 once finalized
  floating,     \* objects whose only reference is a floating one
  holds,        \* holds[o]: references that clients own
  borrowed,     \* objects that pt_cache_get() returned since the last put, and
                \* the one that was put
  unsaved,      \* cached objects changed since the flush function saw them
  stage,        \* "idle", or where the put in progress is
  putKey, putObj,  \* its arguments
  disposed,     \* the cache has been disposed of
  strayRead     \* the hash table was made to read a key that is gone

lists == <<active, inactive, ahead, hand, activeCount>>
table == <<item, count, stale>>
marks == <<low, high>>
call == <<stage, putKey, putObj>>
objects == <<rc, floating, holds>>
vars == <<lists, table, age, marks, call, objects, borrowed, unsaved,
          disposed, strayRead>>

-----------------------------------------------------------------------------
(* Entries and the two lists *)

Entries == {k \in Keys : item[k] # None}
IsCached(o) == \E k \in Keys : item[k] = o

\* The foremost of the keys S of the inactive list, None if there is none.
First(S) ==
  IF \E k \in S : ahead[k] \cap S = {}
  THEN CHOOSE k \in S : ahead[k] \cap S = {}
  ELSE None

\* The item behind k on the inactive list; None at its end.
Successor(k) == First({j \in inactive : k \in ahead[j]})

\* delist_item() leaves repl_hand on an item that stays.
HandPastForgotten(k) == hand
HandPast(k) == IF hand = k THEN Successor(k) ELSE hand

\* The order of the inactive list without the items of S.
Unlinked(S) == [j \in Keys |-> IF j \in S THEN {} ELSE ahead[j] \ S]

\* The order once k has (again) been added at the tail.
AtTail(k) == [Unlinked({k}) EXCEPT ![k] = inactive \ {k}]

\* toggle_last_ref_cb(): an outside reference has come back.
AwakenUncounted(k) ==
  /\ hand' = HandPast(k)
  /\ inactive' = inactive \ {k}
  /\ ahead' = Unlinked({k})
  /\ active' = active \cup {k}
  /\ activeCount' = activeCount
Awaken(k) ==
  /\ hand' = HandPast(k)
  /\ inactive' = inactive \ {k}
  /\ ahead' = Unlinked({k})
  /\ active' = active \cup {k}
  /\ activeCount' = activeCount + 1

\* toggle_last_ref_cb(): the last outside reference has gone.
Retire(k) ==
  /\ hand' = HandPast(k)
  /\ active' = active \ {k}
  /\ ahead' = AtTail(k)
  /\ inactive' = inactive \cup {k}
  /\ activeCount' = activeCount - 1

\* The items of S leave lists and hash table; h is where the hand ends up and
\* n what is subtracted from active_count.
Drop(S, h, n) ==
  /\ item' = [k \in Keys |-> IF k \in S THEN None ELSE item[k]]
  /\ age' = [k \in Keys |-> IF k \in S THEN 0 ELSE age[k]]
  /\ count' = count - Cardinality(S)
  /\ stale' = stale \ S
  /\ active' = active \ S
  /\ inactive' = inactive \ S
  /\ ahead' = Unlinked(S)
  /\ hand' = h
  /\ activeCount' = activeCount - n

-----------------------------------------------------------------------------
(* Objects and references *)

\* g_object_new(): a new object, with a floating reference if it is a
\* GInitiallyUnowned, with an ordinary one that the caller owns otherwise.
Create(o, floats) ==
  /\ stage = "idle" /\ rc[o] = 0
  /\ rc' = [rc EXCEPT ![o] = 1]
  /\ IF floats THEN floating' = floating \cup {o} /\ holds' = holds
     ELSE floating' = floating /\ holds' = [holds EXCEPT ![o] = 1]
  /\ UNCHANGED <<lists, table, age, marks, call, borrowed, unsaved,
                 disposed, strayRead>>

CanReach(o) ==
  holds[o] > 0 \/ o \in borrowed \/ (RawPointers /\ IsCached(o))

\* g_object_ref() by a client; the second reference to a cached object
\* notifies the cache.
Ref(o) ==
  /\ stage = "idle" /\ CanReach(o) /\ rc[o] > 0
  /\ holds[o] < MaxHolds
  /\ holds' = [holds EXCEPT ![o] = @ + 1]
  /\ rc' = [rc EXCEPT ![o] = @ + 1]
  /\ \/ /\ ~(IsCached(o) /\ rc[o] = 1)
        /\ UNCHANGED lists
     \/ /\ rc[o] = 1
        /\ \E k \in Keys : item[k] = o /\ Awaken(k)
  /\ UNCHANGED <<table, age, marks, call, floating, borrowed, unsaved,
                 disposed, strayRead>>

\* The branch of toggle_last_ref_cb() for an item of age 0: flush it, give up
\* the last reference (which finalizes the object and a key inside it), only
\* then look the item up by its key to remove it.
EvictUnflushed(k) ==
  /\ rc' = [rc EXCEPT ![item[k]] = 0]
  /\ unsaved' = unsaved
  /\ strayRead' = (strayRead \/ KeyKind = "embedded" \/ k \in stale)
  /\ Drop({k}, HandPast(k), 1)
EvictOnLastRef(k) ==
  /\ rc' = [rc EXCEPT ![item[k]] = 0]
  /\ unsaved' = unsaved \ {item[k]}
  /\ strayRead' = (strayRead \/ KeyKind = "embedded" \/ k \in stale)
  /\ Drop({k}, HandPast(k), 1)

\* g_object_unref() by a client; the last but one reference to a cached
\* object notifies the cache.
Unref(o) ==
  /\ stage = "idle" /\ holds[o] > 0
  /\ holds' = [holds EXCEPT ![o] = @ - 1]
  /\ \/ /\ ~(IsCached(o) /\ rc[o] = 2)
        /\ rc' = [rc EXCEPT ![o] = @ - 1]
        /\ UNCHANGED <<lists, table, age, unsaved, strayRead>>
     \/ /\ rc[o] = 2
        /\ \E k \in Keys :
             /\ item[k] = o
             /\ \/ /\ age[k] = 0
                   /\ EvictOnLastRef(k)
                \/ /\ age[k] > 0
                   /\ rc' = [rc EXCEPT ![o] = 1]
                   /\ Retire(k)
                   /\ UNCHANGED <<table, age, unsaved, strayRead>>
  /\ UNCHANGED <<marks, call, floating, borrowed, disposed>>

\* A client changes an object of the cache that it can see.
Modify(o) ==
  /\ stage = "idle" /\ IsCached(o)
  /\ holds[o] > 0 \/ o \in borrowed
  /\ unsaved' = unsaved \cup {o}
  /\ UNCHANGED <<lists, table, age, marks, call, objects, borrowed,
                 disposed, strayRead>>

-----------------------------------------------------------------------------
(* pt_cache_get() *)

HitAgeUnchanged(a) == a
HitAgeWrapping(a) == IF a < AgeCap THEN a + 1 ELSE 0
HitAge(a) == IF a < AgeCap THEN a + 1 ELSE a

\* The result is borrowed: no reference is taken.
Get(k) ==
  /\ stage = "idle" /\ item[k] # None
  /\ age' = [age EXCEPT ![k] = HitAge(@)]
  /\ borrowed' = borrowed \cup {item[k]}
  /\ strayRead' = (strayRead \/ k \in stale)
  /\ UNCHANGED <<lists, table, marks, call, objects, unsaved, disposed>>

-----------------------------------------------------------------------------
(* pt_cache_put() *)

\* The references o has when the put is over: one of the cache's own besides
\* the clients', which is the floating one if there was one (ref_sink, toggle
\* reference, unref).
SunkTwice(o) == rc[o] + 1
StoredRefs(o) == IF o \in floating THEN rc[o] ELSE rc[o] + 1

\* A new item starts active, with this age.
NewAgeZero == 0
NewAge == 1

\* The unref at the end leaves a reference outside the cache, unless it was
\* a floating one that has been sunk.
AlwaysReferenced(o) == TRUE
StaysReferenced(o) == o \notin floating

\* The item for o goes under k, on the active list, and is retired again if
\* no reference remains outside.
Enlist(k, o) ==
  /\ hand' = HandPast(k)
  /\ \/ /\ StaysReferenced(o)
        /\ active' = active \cup {k}
        /\ inactive' = inactive \ {k}
        /\ ahead' = Unlinked({k})
        /\ activeCount' = activeCount + 1
     \/ /\ ~StaysReferenced(o)
        /\ active' = active \ {k}
        /\ inactive' = inactive \cup {k}
        /\ ahead' = AtTail(k)
        /\ activeCount' = activeCount
  /\ item' = [item EXCEPT ![k] = o]
  /\ age' = [age EXCEPT ![k] = NewAge]
  /\ floating' = floating \ {o}

\* What a client may put: an object it owns or a floating one, that is not
\* in the cache (an object with two toggle references gets no notification).
CanPut(o) == (holds[o] > 0 \/ o \in floating) /\ ~IsCached(o)

MayOverwrite(k) ==
  Overwrites = "any" \/ (Overwrites = "idle" /\ holds[item[k]] = 0)

\* The key exists: the old object is flushed and let go of, the item takes
\* the new one.  The hash table keeps the old key pointer.  An item that was
\* active is counted again.
PutExisting(k, o) ==
  /\ stage = "idle" /\ ~disposed /\ CanPut(o) /\ k \in KeysOf[o]
  /\ item[k] # None /\ MayOverwrite(k)
  /\ rc' = [rc EXCEPT ![item[k]] = @ - 1, ![o] = StoredRefs(o)]
  /\ unsaved' = unsaved \ {item[k]}
  /\ strayRead' = (strayRead \/ k \in stale)
  /\ stale' = IF KeyKind = "static" THEN stale ELSE stale \cup {k}
  /\ borrowed' = {o}
  /\ Enlist(k, o)
  /\ UNCHANGED <<count, marks, call, holds, disposed>>

\* The key is new: at the high watermark, make room first.
PutNew(k, o) ==
  /\ stage = "idle" /\ ~disposed /\ CanPut(o) /\ k \in KeysOf[o]
  /\ item[k] = None
  /\ stage' = IF count >= high THEN "replace" ELSE "store"
  /\ putKey' = k /\ putObj' = o
  /\ borrowed' = {}
  /\ UNCHANGED <<lists, table, age, marks, objects, unsaved, disposed, strayRead>>

Excess == count - activeCount
Old(S) == {k \in S : age[k] = 0}

\* The items of the inactive list that a sweep of pt_cache_replace() comes to
\* see.  It starts at the head of the list, looks at no more items than are
\* inactive when it starts, and stops when they are down to the low
\* watermark; but items waiting in the buffer count as present until the
\* buffer is full.
NeverFlushedBefore(k) == 0
BufferFlushedBefore(k) ==
  MaxReplace * (Cardinality(Old(ahead[k])) \div MaxReplace)
ReachedFromTail ==
  LET behind(k) == {j \in inactive : k \in ahead[j]} IN
  {k \in inactive : /\ Cardinality(behind(k)) < Excess
                    /\ Excess - Cardinality(Old(behind(k))) > low}
Reached ==
  {k \in inactive : /\ Cardinality(ahead[k]) < Excess
                    /\ Excess - BufferFlushedBefore(k) > low}
VictimsInFullBuffers ==
  LET n == Cardinality(Old(Reached)) IN
  {k \in Old(Reached) :
     Cardinality(Old(Reached) \cap ahead[k]) < n - (n % MaxReplace)}
Victims == Old(Reached)

Halved(a) == a \div 2

HandAfterSweep ==
  IF inactive = {} THEN hand
  ELSE First(IF inactive \subseteq Reached THEN inactive \ Victims
             ELSE inactive \ Reached)

FlushedByNone(S) == unsaved
FlushedBy(S) == unsaved \ {item[k] : k \in S}

\* The condition of the do-while loop, n being the new count.
AgainAtLow(n) == n - activeCount >= low
Again(n) == n - activeCount > low /\ n # count

\* One call of pt_cache_replace(): items with an age get a second chance with
\* half of it, those without are flushed and dropped.  The caller repeats it
\* until the low watermark is reached or nothing was dropped.
Sweep ==
  /\ stage = "replace"
  /\ item' = [k \in Keys |-> IF k \in Victims THEN None ELSE item[k]]
  /\ age' = [k \in Keys |-> IF k \in Reached THEN Halved(age[k]) ELSE age[k]]
  /\ rc' = [o \in Objs |->
              IF \E k \in Victims : item[k] = o THEN rc[o] - 1 ELSE rc[o]]
  /\ unsaved' = FlushedBy(Victims)
  /\ strayRead' = (strayRead \/ Victims \cap stale # {})
  /\ stale' = stale \ Victims
  /\ inactive' = inactive \ Victims
  /\ ahead' = Unlinked(Victims)
  /\ hand' = HandAfterSweep
  /\ count' = count - Cardinality(Victims)
  /\ stage' = IF Again(count') THEN "replace" ELSE "store"
  /\ UNCHANGED <<active, activeCount, marks, putKey, putObj, floating, holds,
                 borrowed, disposed>>

\* The rest of the put of a new key.
StoreNew ==
  /\ stage = "store"
  /\ count' = count + 1
  /\ rc' = [rc EXCEPT ![putObj] = StoredRefs(putObj)]
  /\ Enlist(putKey, putObj)
  /\ stage' = "idle" /\ putKey' = None /\ putObj' = None
  /\ borrowed' = {putObj}
  /\ UNCHANGED <<stale, marks, holds, unsaved, disposed, strayRead>>

-----------------------------------------------------------------------------
(* Properties and destruction *)

\* pt_cache_set_property(): the high watermark is kept above the low one.
HighAsGiven(h, l) == h
RaisedHigh(h, l) == IF h <= l THEN l + 1 ELSE h

SetWatermarks(h, l) ==
  /\ stage = "idle" /\ ~disposed
  /\ low' = l /\ high' = RaisedHigh(h, l)
  /\ UNCHANGED <<lists, table, age, call, objects, borrowed, unsaved,
                 disposed, strayRead>>

SetHigh(h) == SetWatermarks(h, low)
SetLow(l) == SetWatermarks(high, l)

\* pt_cache_dispose(): every item is flushed and let go of, the hash table
\* having been destroyed before.  active_count is left as it is.
Dispose ==
  /\ stage = "idle" /\ ~disposed
  /\ rc' = [o \in Objs |-> IF IsCached(o) THEN rc[o] - 1 ELSE rc[o]]
  /\ unsaved' = FlushedBy(Entries)
  /\ borrowed' = {}
  /\ disposed' = TRUE
  /\ Drop(Entries, None, 0)
  /\ UNCHANGED <<marks, call, floating, holds, strayRead>>

Init ==
  /\ item = [k \in Keys |-> None] /\ age = [k \in Keys |-> 0]
  /\ active = {} /\ inactive = {} /\ ahead = [k \in Keys |-> {}]
  /\ hand = None /\ count = 0 /\ activeCount = 0 /\ stale = {}
  /\ low \in LowMarks
  /\ \E h \in HighMarks : high = RaisedHigh(h, low)
  /\ rc = [o \in Objs |-> 0] /\ holds = [o \in Objs |-> 0] /\ floating = {}
  /\ borrowed = {} /\ unsaved = {}
  /\ stage = "idle" /\ putKey = None /\ putObj = None
  /\ disposed = FALSE /\ strayRead = FALSE

Next ==
  \/ \E o \in Objs, floats \in BOOLEAN : Create(o, floats)
  \/ \E o \in Objs : Ref(o)
  \/ \E o \in Objs : Unref(o)
  \/ \E o \in Objs : Modify(o)
  \/ \E k \in Keys : Get(k)
  \/ \E k \in Keys, o \in Objs : PutExisting(k, o)
  \/ \E k \in Keys, o \in Objs : PutNew(k, o)
  \/ Sweep
  \/ StoreNew
  \/ \E h \in HighMarks : SetHigh(h)
  \/ \E l \in LowMarks : SetLow(l)
  \/ Dispose

Spec == Init /\ [][Next]_vars

\* A call that has begun goes on: nothing in it waits for anything.
FairSpec == Spec /\ WF_vars(Sweep) /\ WF_vars(StoreNew)

-----------------------------------------------------------------------------
(* Invariants *)

TypeOK ==
  /\ item \in [Keys -> Objs \cup {None}]
  /\ age \in [Keys -> 0..AgeCap]
  /\ active \subseteq Keys /\ inactive \subseteq Keys
  /\ ahead \in [Keys -> SUBSET Keys]
  /\ hand \in Keys \cup {None}
  /\ count \in Nat /\ activeCount \in Nat
  /\ low \in Nat /\ high \in Nat /\ low < high
  /\ stale \subseteq Keys
  /\ rc \in [Objs -> Nat] /\ holds \in [Objs -> Nat]
  /\ floating \subseteq Objs /\ borrowed \subseteq Objs /\ unsaved \subseteq Objs
  /\ stage \in {"idle", "replace", "store"}
  /\ putKey \in Keys \cup {None} /\ putObj \in Objs \cup {None}
  /\ disposed \in BOOLEAN /\ strayRead \in BOOLEAN

\* The cache owns exactly one reference to each object it holds, through every
\* put, overwrite, eviction and disposal: none is leaked and none is given up
\* twice.
RefAccounting ==
  \A o \in Objs :
    rc[o] = holds[o] + (IF IsCached(o) THEN 1 ELSE 0)
                     + (IF o \in floating THEN 1 ELSE 0)

\* pt-cache.h:55: items on the active list have an outside reference, items on
\* the inactive list have none, and no item is on both or on neither.
ActiveIffReferenced ==
  /\ active \cup inactive = Entries /\ active \cap inactive = {}
  /\ \A k \in Entries : k \in active <=> holds[item[k]] > 0

\* The counters agree with the lists whenever a call returns: the assertions
\* at the end of toggle_last_ref_cb() and pt_cache_put().
CountsExact ==
  /\ count = Cardinality(Entries)
  /\ ~disposed => activeCount = Cardinality(active)

\* repl_hand never points to an item that has been freed or that has moved to
\* the active list.
HandOnInactiveList == hand = None \/ hand \in inactive

\* pt-cache.h:84: what pt_cache_get() returned is still there, in the cache
\* and not finalized, until the next put, whatever references were taken and
\* dropped in between.  So is what was put last, which get_user_info() relies
\* on "de facto" (usercache.c:278).
BorrowedStaysCached == \A o \in borrowed : IsCached(o) /\ rc[o] > 0

\* A changed object never leaves the cache before the flush function saw the
\* change, on any of the four ways out.
NothingDroppedUnflushed == \A o \in unsaved : IsCached(o)

\* The hash table never follows a key pointer to memory that was freed.
NoStrayRead == ~strayRead

\* An entry that a client uses or has just looked up survives at least one
\* sweep after it becomes idle; toggle_last_ref_cb() never removes it on the
\* spot.
UsedItemsHaveAge ==
  \A k \in Entries : k \in active \/ item[k] \in borrowed => age[k] > 0

-----------------------------------------------------------------------------
(* The inductive invariant: what the invariants above rest on.  It holds    *)
(* when no key in use is overwritten (Overwrites # "any").                  *)

\* Both lists together hold every item once; nothing is ahead of itself, and
\* only items of the inactive list are ahead of anything.
ListInv ==
  /\ active \cup inactive = Entries
  /\ active \cap inactive = {}
  /\ \A k \in Keys : ahead[k] \subseteq inactive \ {k}
  /\ HandOnInactiveList

\* No object is cached twice, and a floating object is neither cached nor held.
RefInv ==
  /\ RefAccounting
  /\ \A j, k \in Entries : item[j] = item[k] => j = k
  /\ \A k \in Entries : k \in active <=> holds[item[k]] > 0
  /\ \A o \in floating : ~IsCached(o) /\ holds[o] = 0

\* While a put is going on its key is still absent and its object still alive,
\* and what was borrowed before has been given up.
CallInv ==
  /\ stage # "idle" =>
       /\ putKey \in Keys /\ item[putKey] = None
       /\ putObj \in Objs /\ CanPut(putObj)
       /\ borrowed = {}
  /\ disposed => Entries = {} /\ borrowed = {} /\ stage = "idle"

\* What has been looked up has an age, so that no toggle evicts it.
UseInv ==
  /\ \A o \in borrowed : \E k \in Keys : item[k] = o /\ age[k] > 0
  /\ NothingDroppedUnflushed

IInv == TypeOK /\ ListInv /\ RefInv /\ CountsExact /\ CallInv /\ UseInv

\* The inactive list is a list: of two items one is ahead of the other, and of
\* what is behind it.  What a sweep reaches rests on this.
OrderInv ==
  \A j, k \in inactive :
    /\ j = k \/ j \in ahead[k] \/ k \in ahead[j]
    /\ j \in ahead[k] => ahead[j] \subseteq ahead[k]

-----------------------------------------------------------------------------
(* Properties of steps *)

SweepEnds == stage = "replace" /\ stage' = "store"

\* pt-cache.c:157 says replacement goes on until no more than `low' items are
\* inactive.  It does not: a sweep that only halves ages ends it.
ReplacementReachesLow == [][SweepEnds => count' - activeCount' <= low]_vars

\* What is true instead: it stops early only after a sweep that went round the
\* whole inactive list, found an age left on every item and took some of it
\* away.  That need not be an age that a use since the sweep before has left: of
\* an age of 2, half is still there the next time.  But an item nobody uses can
\* stop only as many sweeps as it takes to halve its age to nothing.
EarlyStopAgesAll ==
  [][SweepEnds /\ count' - activeCount' > low
       => /\ inactive' = inactive
          /\ \A k \in inactive : age[k] > 0 /\ age'[k] < age[k]]_vars

\* Nor does it stop right at the low watermark, since what waits in the buffer
\* is not counted; but it goes below by less than one buffer.
OvershootWithinBuffer ==
  [][stage = "replace" /\ count' < count
       => count' - activeCount' > low - MaxReplace]_vars

\* The sweep drops old items in the order of the inactive list: one that is
\* dropped never leaves behind one that was as old and idle for longer.
OldestGoFirst ==
  [][stage = "replace" =>
       \A k \in inactive \ inactive' : \A j \in ahead[k] :
         age[j] = 0 => j \notin inactive']_vars

\* A put that makes room comes to an end, however the ages and the references
\* stand when it begins: no sweep is repeated for ever.
PutReturns == stage # "idle" ~> stage = "idle"

-----------------------------------------------------------------------------
(* The header's promise *)

Contract == INSTANCE ReplacingCache WITH
  entry <- item, refs <- holds, putting <- (stage # "idle"), closed <- disposed

KeepsContract == Contract!Spec
=============================================================================
