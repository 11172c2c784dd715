--------------------------- MODULE ReplacingCache ---------------------------
(***************************************************************************)
(* What pt-cache.h promises its clients, without saying how.  A cache maps *)
(* keys to objects.  Clients hold counted references to objects; what they *)
(* looked up without taking a reference is borrowed until the next put.    *)
(* Entries that no client refers to may be dropped, but only inside a put  *)
(* or when their last reference goes away, and only after they have been   *)
(* handed to the flush function.                                           *)
(***************************************************************************)
EXTENDS Naturals

CONSTANTS Keys, Objs, None

VARIABLES
  entry,      \* entry[k]: the object cached under k, or None
  refs,       \* refs[o]: the references clients hold to o
  borrowed,   \* objects looked up, or put, since the last put began
  unsaved,    \* cached objects changed since they were last flushed
  putting,    \* a put is going on
  closed      \* the cache has been disposed of

vars == <<entry, refs, borrowed, unsaved, putting, closed>>

CachedObjs == {entry[k] : k \in Keys} \ {None}

DroppableAnyway(S) == \A k \in S : entry[k] # None
\* The entries that may go without anybody missing them.
Droppable(S) == \A k \in S : entry[k] # None /\ refs[entry[k]] = 0

Init ==
  /\ entry = [k \in Keys |-> None]
  /\ refs = [o \in Objs |-> 0]
  /\ borrowed = {} /\ unsaved = {}
  /\ putting = FALSE /\ closed = FALSE

\* A client makes an object, or takes one more reference to an object it can
\* reach: one it made, one it refers to already, or one in the cache.
Acquire(o) ==
  /\ ~putting
  /\ refs' = [refs EXCEPT ![o] = @ + 1]
  /\ UNCHANGED <<entry, borrowed, unsaved, putting, closed>>

\* Dropping the last reference to an entry may take the entry along, unless
\* somebody has just looked it up.
Release(o) ==
  /\ ~putting /\ refs[o] > 0
  /\ refs' = [refs EXCEPT ![o] = @ - 1]
  /\ \/ UNCHANGED <<entry, unsaved>>
     \/ \E k \in Keys :
          /\ entry[k] = o /\ refs[o] = 1 /\ o \notin borrowed
          /\ entry' = [entry EXCEPT ![k] = None]
          /\ unsaved' = unsaved \ {o}
  /\ UNCHANGED <<borrowed, putting, closed>>

Lookup(k) ==
  /\ ~putting /\ entry[k] # None
  /\ borrowed' = borrowed \cup {entry[k]}
  /\ UNCHANGED <<entry, refs, unsaved, putting, closed>>

\* Only an object one holds or has just looked up can be changed.
Change(o) ==
  /\ ~putting /\ o \in CachedObjs
  /\ refs[o] > 0 \/ o \in borrowed
  /\ unsaved' = unsaved \cup {o}
  /\ UNCHANGED <<entry, refs, borrowed, putting, closed>>

BeginPut ==
  /\ ~putting /\ ~closed
  /\ putting' = TRUE
  /\ borrowed' = {}
  /\ UNCHANGED <<entry, refs, unsaved, closed>>

\* While it makes room, a put may drop entries that nobody refers to.
Replace(S) ==
  /\ putting /\ Droppable(S)
  /\ entry' = [k \in Keys |-> IF k \in S THEN None ELSE entry[k]]
  /\ unsaved' = unsaved \ {entry[k] : k \in S}
  /\ UNCHANGED <<refs, borrowed, putting, closed>>

\* What has just been put is borrowed as if it had been looked up.  The header
\* does not say so, but the user cache relies on it (usercache.c:278).
Store(k, o) ==
  /\ putting /\ entry[k] = None /\ o \notin CachedObjs
  /\ entry' = [entry EXCEPT ![k] = o]
  /\ putting' = FALSE
  /\ borrowed' = {o}
  /\ UNCHANGED <<refs, unsaved, closed>>

\* A put under a key that exists replaces the entry at once.
Overwrite(k, o) ==
  /\ ~putting /\ ~closed /\ entry[k] # None /\ o \notin CachedObjs
  /\ entry' = [entry EXCEPT ![k] = o]
  /\ unsaved' = unsaved \ {entry[k]}
  /\ borrowed' = {o}
  /\ UNCHANGED <<refs, putting, closed>>

Close ==
  /\ ~putting /\ ~closed
  /\ entry' = [k \in Keys |-> None]
  /\ borrowed' = {} /\ unsaved' = {}
  /\ closed' = TRUE
  /\ UNCHANGED <<refs, putting>>

Next ==
  \/ \E o \in Objs : Acquire(o) \/ Release(o) \/ Change(o)
  \/ \E k \in Keys : Lookup(k)
  \/ BeginPut
  \/ \E S \in SUBSET Keys : Replace(S)
  \/ \E k \in Keys, o \in Objs : Store(k, o) \/ Overwrite(k, o)
  \/ Close

Spec == Init /\ [][Next]_vars

=============================================================================
