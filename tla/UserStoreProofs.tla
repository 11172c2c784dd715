--------------------------- MODULE UserStoreProofs ---------------------------
(***************************************************************************)
(* Proofs about UserStore.tla, for any users, records and names.           *)
(***************************************************************************)
EXTENDS UserStore, TLAPS

-----------------------------------------------------------------------------
(* The records *)

RecordTypes ==
  /\ entry \in [Users -> Objs \cup {None}] /\ refs \in [Objs -> Nat]
  /\ id \in [Objs -> Users \cup {None}]
  /\ borrowed \subseteq Objs /\ todo \subseteq Objs /\ current \in todo \cup {None}
  /\ putting \in BOOLEAN /\ closed \in BOOLEAN

\* What is cached is cached under its own id, and what is borrowed is cached.
Keyed == \A u \in Users : entry[u] # None => id[entry[u]] = u
BorrowedCached ==
  /\ putting = TRUE => borrowed = {}
  /\ \A o \in borrowed : \E u \in Users : entry[u] = o

\* A record that lives is cached, or about to be, or on its way out.
Accounted ==
  closed = FALSE => \A o \in Objs :
    id[o] # None => entry[id[o]] = o \/ o \in todo \/ (o = inf /\ call = "put")

\* What is on its way out lives, has left the cache, and nobody refers to it
\* while the cache is open.
Leaving ==
  \A o \in todo : /\ id[o] # None
                  /\ \A u \in Users : entry[u] # o
                  /\ closed = FALSE => refs[o] = 0

UsedLive == \A o \in Objs : refs[o] # 0 => id[o] # None

\* What a call is doing: it has a new record of a user who has none, or nothing
\* is being flushed and what it works on is borrowed.
Calling ==
  /\ call = "put" => /\ inf \in Objs /\ refs[inf] # 0
                     /\ id[inf] \in Users /\ entry[id[inf]] = None
                     /\ closed = FALSE
  /\ call \in {"unref", "fill"} => todo = {} /\ inf \in borrowed

RecInv ==
  /\ RecordTypes /\ OneRecordPerUser /\ Keyed /\ BorrowedCached
  /\ Accounted /\ Leaving /\ UsedLive /\ Calling

\* A record that is made is its user's only one: the cache has none, nothing is
\* being flushed, and every record that lives is one or the other.
LEMMA MissKeepsRecords ==
  ASSUME RecInv, NEW u \in Users, NEW o \in Objs,
         NEW j \in Names \cup {Bare, Trimmed, None}, Miss(u, o, j)
  PROVE  RecInv'
<1>. USE UserNone DEF RecInv, RecordTypes
<1>1. /\ call = "none" /\ todo = {} /\ closed = FALSE
      /\ entry[u] = None /\ id[o] = None
      /\ refs' = [refs EXCEPT ![o] = @ + 1]
      /\ id' = [id EXCEPT ![o] = u]
      /\ call' = "put" /\ inf' = o
      /\ UNCHANGED <<entry, borrowed, putting, closed, todo, current>>
  BY DEF Miss, Idle, Flushing, Missed, Cache!Acquire, flushVars
<1>2. refs[o] = 0 /\ \A v \in Users : entry[v] # o
  BY <1>1 DEF UsedLive, Keyed
<1>3. \A p \in Objs : id[p] # u
  BY <1>1 DEF Accounted
<1>4. RecordTypes' /\ Keyed' /\ BorrowedCached'
  BY <1>1, <1>2 DEF Keyed, BorrowedCached
<1>5. OneRecordPerUser'
  BY <1>1, <1>3 DEF OneRecordPerUser
<1>6. Accounted' /\ Leaving' /\ UsedLive' /\ Calling'
  BY <1>1, <1>2 DEF Accounted, Leaving, UsedLive, Calling
<1>. QED  BY <1>4, <1>5, <1>6

\* Putting a record into the cache keeps the records in order.
LEMMA PutKeepsRecords ==
  ASSUME RecInv, StorePut \/ BeginPut \/ \E S \in SUBSET Users : MakeRoom(S)
  PROVE  RecInv'
<1>. USE UserNone DEF RecInv, RecordTypes
<1>1. CASE BeginPut
  <2>1. /\ borrowed' = {} /\ putting' = TRUE
        /\ UNCHANGED <<entry, refs, closed, id, call, inf, todo, current>>
    BY <1>1 DEF BeginPut, Cache!BeginPut, records, callVars, flushVars
  <2>2. call = "put"
    BY <1>1 DEF BeginPut
  <2>. QED
    BY <2>1, <2>2 DEF OneRecordPerUser, Keyed, BorrowedCached, Accounted,
                      Leaving, UsedLive, Calling
<1>2. ASSUME NEW S \in SUBSET Users, MakeRoom(S) PROVE RecInv'
  <2>1. /\ call = "put" /\ todo = {} /\ current = None
        /\ \A u \in S : entry[u] # None /\ refs[entry[u]] = 0
        /\ entry' = [k \in Users |-> IF k \in S THEN None ELSE entry[k]]
        /\ todo' = {entry[u] : u \in S}
        /\ borrowed = {}
        /\ UNCHANGED <<refs, borrowed, putting, closed, id, call, inf, current>>
    BY <1>2 DEF MakeRoom, Flushing, Cache!Replace, Cache!Droppable,
                BorrowedCached, records, callVars
  <2>2. RecordTypes' /\ OneRecordPerUser' /\ Keyed' /\ UsedLive' /\ Calling'
    BY <2>1 DEF OneRecordPerUser, Keyed, UsedLive, Calling
  <2>3. BorrowedCached'
    BY <2>1 DEF BorrowedCached
  <2>4. Accounted'
    BY <2>1 DEF Accounted
  <2>5. Leaving'
    BY <2>1 DEF Leaving, Keyed
  <2>. QED  BY <2>2, <2>3, <2>4, <2>5
<1>3. CASE StorePut
  <2>. DEFINE u == id[inf]
  <2>1. /\ call = "put" /\ todo = {} /\ current = None
        /\ entry' = [entry EXCEPT ![u] = inf]
        /\ borrowed' = {inf} /\ putting' = FALSE /\ call' = "unref"
        /\ UNCHANGED <<refs, closed, id, inf, todo, current>>
    BY <1>3 DEF StorePut, Flushing, Cache!Store, records, flushVars
  <2>2. u \in Users /\ entry[u] = None /\ inf \in Objs
    BY <2>1 DEF Calling
  <2>3. RecordTypes' /\ OneRecordPerUser' /\ UsedLive'
    BY <2>1, <2>2 DEF OneRecordPerUser, UsedLive
  <2>4. Keyed' /\ BorrowedCached' /\ Calling'
    BY <2>1, <2>2 DEF Keyed, BorrowedCached, Calling
  <2>5. Accounted' /\ Leaving'
    BY <2>1, <2>2 DEF Accounted, Leaving
  <2>. QED  BY <2>3, <2>4, <2>5
<1>. QED  BY <1>1, <1>2, <1>3

\* A lookup, filling a record in and a reference more keep the records in
\* order: they change neither the cache nor whose records there are.
LEMMA LookupsKeepRecords ==
  ASSUME RecInv,
         \/ \E u \in Users, j \in Names \cup {Bare, Trimmed, None} : Hit(u, j)
         \/ FillIn
         \/ \E o \in Objs : ClientRef(o)
  PROVE  RecInv'
<1>. USE UserNone DEF RecInv, RecordTypes
<1>1. ASSUME NEW u \in Users, NEW j \in Names \cup {Bare, Trimmed, None},
             Hit(u, j)
      PROVE  RecInv'
  <2>1. /\ call = "none" /\ todo = {} /\ putting = FALSE
        /\ entry[u] # None /\ borrowed' = borrowed \cup {entry[u]}
        /\ UNCHANGED <<entry, refs, putting, closed, id, todo, current>>
        /\ call' = call \/ (call' = "fill" /\ inf' = entry[u])
    BY <1>1 DEF Hit, Idle, Flushing, Cache!Lookup, records, callVars, flushVars
  <2>. QED
    BY <2>1 DEF OneRecordPerUser, Keyed, BorrowedCached, Accounted, Leaving,
                UsedLive, Calling
<1>2. CASE FillIn
  <2>1. /\ call = "fill" /\ call' = "none"
        /\ UNCHANGED <<entry, refs, borrowed, putting, closed, id, todo, current>>
    BY <1>2 DEF FillIn, Return, Cache!Change, flushVars
  <2>. QED
    BY <2>1 DEF OneRecordPerUser, Keyed, BorrowedCached, Accounted, Leaving,
                UsedLive, Calling
<1>3. ASSUME NEW o \in Objs, ClientRef(o) PROVE RecInv'
  <2>1. /\ call = "none" /\ todo = {}
        /\ refs[o] # 0 \/ o \in borrowed
        /\ refs' = [refs EXCEPT ![o] = @ + 1]
        /\ UNCHANGED <<entry, borrowed, putting, closed, id, call, inf, todo,
                       current>>
    BY <1>3 DEF ClientRef, Idle, Flushing, Cache!Acquire, records, callVars,
                flushVars
  <2>2. id[o] # None
    BY <2>1 DEF UsedLive, BorrowedCached, Keyed
  <2>3. RecordTypes' /\ OneRecordPerUser' /\ Keyed' /\ BorrowedCached'
    BY <2>1 DEF OneRecordPerUser, Keyed, BorrowedCached
  <2>. QED
    BY <2>1, <2>2, <2>3 DEF Accounted, Leaving, UsedLive, Calling
<1>. QED  BY <1>1, <1>2, <1>3

\* A reference given up keeps the records in order: if it was the last one the
\* record dies at once, or leaves the cache to be flushed, or stays in it.
LEMMA UnrefKeepsRecords ==
  ASSUME RecInv, Unref \/ \E o \in Objs : ClientUnref(o)
  PROVE  RecInv'
<1>. USE UserNone DEF RecInv, RecordTypes
<1>1. CASE Unref
  <2>1. /\ call = "unref" /\ todo = {} /\ inf \in borrowed /\ putting = FALSE
        /\ refs[inf] > 0 /\ refs' = [refs EXCEPT ![inf] = @ - 1]
        /\ UNCHANGED <<entry, borrowed, putting, closed, id, todo, current>>
        /\ call' = "none" \/ (call' = "fill" /\ inf' = inf)
    BY <1>1 DEF Unref, Return, Calling, Cache!Release, records, flushVars
  <2>2. inf \in Objs
    BY <2>1 DEF BorrowedCached
  <2>. QED
    BY <2>1, <2>2 DEF OneRecordPerUser, Keyed, BorrowedCached, Accounted,
                      Leaving, UsedLive, Calling
<1>2. ASSUME NEW o \in Objs, ClientUnref(o) PROVE RecInv'
  <2>1. /\ call = "none" /\ todo = {} /\ current = None /\ putting = FALSE
        /\ refs[o] > 0 /\ refs' = [refs EXCEPT ![o] = @ - 1]
        /\ UNCHANGED <<borrowed, putting, closed, call, inf, current>>
    BY <1>2 DEF ClientUnref, Idle, Flushing, Cache!Release, callVars
  <2>2. CASE entry' = entry
    <3>. DEFINE dead == {p \in {o} \ Cache!CachedObjs : refs'[p] = 0}
    <3>1. /\ todo' = {}
          /\ id' = [p \in Objs |-> IF p \in dead THEN None ELSE id[p]]
      BY <1>2, <2>1, <2>2 DEF ClientUnref, Finalize, Dead
    <3>2. \A p \in dead : p = o /\ refs'[p] = 0 /\ \A u \in Users : entry[u] # p
      BY DEF Cache!CachedObjs
    <3>. HIDE DEF dead
    <3>3. RecordTypes' /\ OneRecordPerUser'
      BY <2>1, <2>2, <3>1 DEF OneRecordPerUser
    <3>4. Keyed' /\ BorrowedCached'
      BY <2>1, <2>2, <3>1, <3>2 DEF Keyed, BorrowedCached
    <3>5. Accounted' /\ Leaving' /\ Calling'
      BY <2>1, <2>2, <3>1, <3>2 DEF Accounted, Leaving, Calling
    <3>6. UsedLive'
      BY <2>1, <2>2, <3>1, <3>2 DEF UsedLive
    <3>. QED  BY <3>3, <3>4, <3>5, <3>6
  <2>3. CASE entry' # entry
    <3>1. PICK k \in Users :
            /\ entry[k] = o /\ refs[o] = 1 /\ o \notin borrowed
            /\ entry' = [entry EXCEPT ![k] = None]
      BY <1>2, <2>3 DEF ClientUnref, Cache!Release
    <3>2. todo' = {o} /\ id' = id
      BY <1>2, <2>3 DEF ClientUnref, records
    <3>3. RecordTypes' /\ OneRecordPerUser' /\ Keyed'
      BY <2>1, <3>1, <3>2 DEF OneRecordPerUser, Keyed
    <3>4. BorrowedCached' /\ Calling'
      BY <2>1, <3>1, <3>2 DEF BorrowedCached, Calling
    <3>5. Accounted' /\ Leaving' /\ UsedLive'
      BY <2>1, <3>1, <3>2 DEF Accounted, Leaving, UsedLive, Keyed
    <3>. QED  BY <3>3, <3>4, <3>5
  <2>. QED  BY <2>2, <2>3
<1>. QED  BY <1>1, <1>2

\* Closing the cache sends every record that is in it to be flushed.
LEMMA CloseKeepsRecords ==
  ASSUME RecInv, Close
  PROVE  RecInv'
<1>. USE UserNone DEF RecInv, RecordTypes
<1>1. /\ call = "none" /\ todo = {} /\ current = None
      /\ entry' = [k \in Users |-> None] /\ borrowed' = {} /\ closed' = TRUE
      /\ todo' = {entry[k] : k \in Users} \ {None}
      /\ UNCHANGED <<refs, putting, id, call, inf, current>>
  BY DEF Close, Idle, Flushing, Cache!Close, Cache!CachedObjs, records, callVars
<1>2. RecordTypes' /\ OneRecordPerUser' /\ Keyed' /\ BorrowedCached'
  BY <1>1 DEF OneRecordPerUser, Keyed, BorrowedCached
<1>. QED
  BY <1>1, <1>2 DEF Accounted, Leaving, UsedLive, Calling, Keyed

\* A record the flush is done with dies, unless the cache was closed and it is
\* still referred to; nothing but the flush knows it.
LEMMA FlushKeepsRecords ==
  ASSUME RecInv, FlushStep
  PROVE  RecInv'
<1>. USE UserNone DEF RecInv, RecordTypes
<1>1. UNCHANGED <<entry, refs, borrowed, putting, closed, call, inf>>
  BY DEF FlushStep, cache, callVars
<1>2. CASE FlushDone
  <2>. DEFINE dead == {p \in {current} : refs'[p] = 0}
  <2>1. /\ current' = None /\ todo' = todo \ {current}
        /\ id' = [p \in Objs |-> IF p \in dead THEN None ELSE id[p]]
    BY <1>2 DEF FlushDone, Finalize, Dead
  <2>2. \A p \in dead : p = current /\ refs[p] = 0
    BY <1>1
  <2>3. current \in Objs => \A u \in Users : entry[u] # current
    BY DEF Leaving
  <2>4. closed = FALSE /\ current \in Objs => refs[current] = 0 /\ current \in dead
    BY <1>1 DEF Leaving
  <2>. HIDE DEF dead
  <2>5. RecordTypes' /\ OneRecordPerUser'
    BY <1>1, <2>1 DEF OneRecordPerUser
  <2>6. Keyed' /\ BorrowedCached'
    BY <1>1, <2>1, <2>2, <2>3 DEF Keyed, BorrowedCached
  <2>7. Accounted' /\ Leaving'
    BY <1>1, <2>1, <2>2, <2>4 DEF Accounted, Leaving
  <2>8. UsedLive' /\ Calling'
    BY <1>1, <2>1, <2>2 DEF UsedLive, Calling
  <2>. QED  BY <2>5, <2>6, <2>7, <2>8
<1>3. CASE /\ UNCHANGED <<id, todo>>
           /\ current' \in todo \cup {None}
  BY <1>1, <1>3 DEF OneRecordPerUser, Keyed, BorrowedCached, Accounted,
                    Leaving, UsedLive, Calling
<1>4. FlushDone \/ (UNCHANGED <<id, todo>> /\ current' \in todo \cup {None})
  <2>1. CASE \E o \in Objs : Begin(o)
    BY <2>1 DEF Begin, records
  <2>2. CASE Update
    <3>1. UNCHANGED <<records, todo, current>>
      BY <2>2 DEF Update, Fail
    <3>. QED  BY <3>1 DEF records
  <2>3. CASE Insert
    BY <2>3 DEF Insert, Fail, records
  <2>4. CASE Commit \/ Rollback
    BY <2>4 DEF Commit, Rollback, GiveUp, Fail, records
  <2>. QED  BY <2>1, <2>2, <2>3, <2>4 DEF FlushStep
<1>. QED  BY <1>2, <1>3, <1>4

\* Every step keeps RecInv.
LEMMA StepKeepsRecords == RecInv /\ [Next]_vars => RecInv'
<1>. SUFFICES ASSUME RecInv, [Next]_vars PROVE RecInv'
  OBVIOUS
<1>1. CASE Restart
  BY <1>1, UserNone DEF Restart, NoRow, NoRecord, RecInv, RecordTypes,
     OneRecordPerUser, Keyed, BorrowedCached, Accounted, Leaving, UsedLive,
     Calling
<1>2. CASE UNCHANGED vars
  BY <1>2 DEF vars, cache, records, callVars, flushVars, RecInv, RecordTypes,
     OneRecordPerUser, Keyed, BorrowedCached, Accounted, Leaving, UsedLive,
     Calling
<1>. QED
  BY <1>1, <1>2, MissKeepsRecords, PutKeepsRecords, LookupsKeepRecords,
     UnrefKeepsRecords, CloseKeepsRecords, FlushKeepsRecords
     DEF Next, CallStep

\* RecInv is inductive.
THEOREM RecordInvariant == Spec => []RecInv
<1>1. Init => RecInv
  <2>. SUFFICES ASSUME Init PROVE RecInv
    OBVIOUS
  <2>. USE UserNone DEF Init, Cache!Init, NoRecord
  <2>1. RecordTypes
    BY DEF RecordTypes
  <2>2. OneRecordPerUser /\ Keyed /\ BorrowedCached
    BY DEF OneRecordPerUser, Keyed, BorrowedCached
  <2>3. Accounted /\ Leaving /\ UsedLive /\ Calling
    BY DEF Accounted, Leaving, UsedLive, Calling
  <2>. QED  BY <2>1, <2>2, <2>3 DEF RecInv
<1>. QED  BY <1>1, StepKeepsRecords, PTL DEF Spec

\* Nobody ever sees two records of one user.
THEOREM RecordsAreUnique == Spec => []OneRecordPerUser
<1>1. RecInv => OneRecordPerUser
  BY DEF RecInv
<1>. QED  BY <1>1, RecordInvariant, PTL

\* A record that is referred to is what the next lookup of its user finds.
THEOREM UsedRecordsStayFindable == Spec => []UsedRecordsAreFound
<1>1. RecInv => UsedRecordsAreFound
  BY DEF RecInv, RecordTypes, Accounted, Leaving, UsedLive, UsedRecordsAreFound
<1>. QED  BY <1>1, RecordInvariant, PTL

\* What is cached, borrowed, being flushed or referred to has not been freed.
THEOREM ReachedRecordsAlive == Spec => []ReachableRecordsLive
<1>1. RecInv => ReachableRecordsLive
  BY UserNone DEF RecInv, RecordTypes, Keyed, BorrowedCached, Leaving, UsedLive,
     ReachableRecordsLive, Cache!CachedObjs
<1>. QED  BY <1>1, RecordInvariant, PTL

-----------------------------------------------------------------------------
(* Types *)

\* What RecordTypes leaves out of TypeOK, and the two facts it needs to be
\* kept: a flush that is under way has a record, and a call that is filling a
\* record in has something to fill it with.
OtherTypes ==
  /\ refs \in [Objs -> 0..MaxRefs] /\ unsaved \subseteq Objs
  /\ name \in [Objs -> Names \cup {Bare}]
  /\ call \in {"none", "put", "unref", "fill"}
  /\ inf \in Objs \cup {None} /\ json \in Names \cup {Bare, Trimmed, None}
  /\ stmt \in {"none", "update", "insert", "commit", "rollback"}
  /\ changes \in BOOLEAN
  /\ work \in Tables /\ saved \in Tables

TypeInv ==
  /\ OtherTypes
  /\ stmt # "none" => current # None
  /\ call = "fill" => json # None

\* The calls into the user cache keep TypeInv.
LEMMA CallsKeepTypes ==
  ASSUME RecInv, TypeInv,
         \/ \E u \in Users, j \in Names \cup {Bare, Trimmed, None} :
              Hit(u, j) \/ \E o \in Objs : Miss(u, o, j)
         \/ CallStep
         \/ \E S \in SUBSET Users : MakeRoom(S)
  PROVE  TypeInv'
<1>. USE UserNone, RefBound DEF TypeInv, OtherTypes
<1>1. ASSUME NEW u \in Users, NEW j \in Names \cup {Bare, Trimmed, None},
             Hit(u, j)
      PROVE  TypeInv'
  <2>1. entry[u] \in Objs
    BY <1>1 DEF Hit, Cache!Lookup, RecInv, RecordTypes
  <2>. QED
    BY <1>1, <2>1 DEF Hit, Idle, Cache!Lookup, records, callVars, flushVars,
                      database
<1>2. ASSUME NEW u \in Users, NEW j \in Names \cup {Bare, Trimmed, None},
             NEW o \in Objs, Miss(u, o, j)
      PROVE  TypeInv'
  <2>1. refs[o] = 0
    BY <1>2 DEF Miss, RecInv, UsedLive
  <2>2. refs' \in [Objs -> 0..MaxRefs]
    BY <1>2, <2>1 DEF Miss, Cache!Acquire
  <2>. QED
    BY <1>2, <2>2 DEF Miss, Idle, Cache!Acquire, FetchedName, flushVars, database
<1>3. CASE BeginPut
  BY <1>3 DEF BeginPut, Cache!BeginPut, records, callVars, flushVars, database
<1>4. CASE StorePut
  BY <1>4 DEF StorePut, Cache!Store, records, flushVars, database
<1>5. CASE Unref
  <2>0. inf \in Objs
    BY <1>5 DEF Unref, RecInv, RecordTypes, Calling
  <2>1. refs' \in [Objs -> 0..MaxRefs] /\ unsaved' \subseteq Objs
    BY <1>5, <2>0 DEF Unref, Cache!Release
  <2>2. /\ call' \in {"none", "fill"} /\ inf' \in {None, inf}
        /\ json' \in {None, json} /\ (call' = "fill" => json' # None)
    BY <1>5 DEF Unref, Return
  <2>3. UNCHANGED <<name, stmt, current, changes, work, saved>>
    BY <1>5 DEF Unref, records, flushVars, database
  <2>. QED  BY <2>1, <2>2, <2>3
<1>6. CASE FillIn
  <2>1. call = "fill" /\ inf \in Objs
    BY <1>6 DEF FillIn, RecInv, RecordTypes, Calling
  <2>2. name' \in [Objs -> Names \cup {Bare}]
    BY <1>6, <2>1 DEF FillIn, FromJson
  <2>3. unsaved' \subseteq Objs /\ refs' = refs
    BY <1>6, <2>1 DEF FillIn, Cache!Change
  <2>. QED
    BY <1>6, <2>2, <2>3 DEF FillIn, Return, flushVars, database
<1>7. ASSUME NEW S \in SUBSET Users, MakeRoom(S) PROVE TypeInv'
  BY <1>7 DEF MakeRoom, Cache!Replace, records, callVars, database
<1>. QED  BY <1>1, <1>2, <1>3, <1>4, <1>5, <1>6, <1>7 DEF CallStep

\* So do the clients' references and the closing of the cache.
LEMMA ClientsKeepTypes ==
  ASSUME RecInv, TypeInv,
         (\E o \in Objs : ClientRef(o) \/ ClientUnref(o)) \/ Close
  PROVE  TypeInv'
<1>. USE UserNone, RefBound DEF TypeInv, OtherTypes
<1>1. ASSUME NEW o \in Objs, ClientRef(o) PROVE TypeInv'
  <2>1. refs' \in [Objs -> 0..MaxRefs]
    BY <1>1 DEF ClientRef, Cache!Acquire
  <2>. QED
    BY <1>1, <2>1 DEF ClientRef, Cache!Acquire, records, callVars, flushVars,
                      database
<1>2. ASSUME NEW o \in Objs, ClientUnref(o) PROVE TypeInv'
  <2>1. refs' \in [Objs -> 0..MaxRefs] /\ unsaved' \subseteq Objs
    BY <1>2 DEF ClientUnref, Cache!Release
  <2>2. name' \in [Objs -> Names \cup {Bare}]
    BY <1>2 DEF ClientUnref, Finalize, records
  <2>. QED
    BY <1>2, <2>1, <2>2 DEF ClientUnref, callVars, database
<1>3. CASE Close
  BY <1>3 DEF Close, Cache!Close, records, callVars, database
<1>. QED  BY <1>1, <1>2, <1>3

IsTable(t) == t = [u \in Users |-> t[u]]

\* The UPDATE changes nothing and counts nothing: its WHERE clause selects no
\* row.
LEMMA UpdateSelectsNothing ==
  ASSUME IsTable(work)
  PROVE  Updated = work /\ AnyUpdated = FALSE
  BY DEF IsTable, Updated, AnyUpdated, Selected

\* And so does the flush: what it inserts has a name.
LEMMA FlushKeepsTypes ==
  ASSUME RecInv, TypeInv, FlushStep
  PROVE  TypeInv'
<1>. USE UserNone DEF TypeInv, OtherTypes
<1>1. UNCHANGED <<refs, unsaved, call, inf, json>>
  BY DEF FlushStep, cache, callVars
<1>2. current \in Objs \cup {None}
  BY DEF RecInv, RecordTypes
<1>3. ASSUME NEW o \in Objs, Begin(o) PROVE TypeInv'
  BY <1>1, <1>3 DEF Begin, records, database
<1>4. ASSUME Fail, stmt # "none" PROVE TypeInv'
  BY <1>1, <1>4 DEF Fail, records, database
<1>5. ASSUME FlushDone PROVE name' \in [Objs -> Names \cup {Bare}]
  BY <1>5 DEF FlushDone, Finalize
<1>6. CASE Update
  <2>1. ASSUME ~Fail PROVE TypeInv'
    <3>1. work' \in Tables
      BY <1>6, <2>1 DEF Update, Updated, Selected, Tables
    <3>2. changes' \in BOOLEAN
      BY <1>6, <2>1, UpdateSelectsNothing, Zenon DEF Update, AnyUpdated, Selected
    <3>. QED  BY <1>1, <1>6, <2>1, <3>1, <3>2 DEF Update, records
  <2>. QED  BY <2>1, <1>4, <1>6 DEF Update
<1>7. CASE Insert
  <2>1. ASSUME ~Fail PROVE TypeInv'
    <3>1. work' \in Tables
      BY <1>7, <2>1, <1>2 DEF Insert, MayInsert, Tables
    <3>. QED  BY <1>1, <1>7, <2>1, <3>1 DEF Insert, records
  <2>. QED  BY <2>1, <1>4, <1>7 DEF Insert
<1>8. CASE Commit
  <2>1. ASSUME ~Fail PROVE TypeInv'
    BY <1>1, <1>5, <1>8, <2>1 DEF Commit, FlushDone
  <2>. QED  BY <2>1, <1>4, <1>8 DEF Commit
<1>9. CASE Rollback
  BY <1>1, <1>5, <1>9 DEF Rollback, Undone, GiveUp, FlushDone
<1>. QED  BY <1>3, <1>6, <1>7, <1>8, <1>9 DEF FlushStep

\* TypeInv is inductive, given RecInv.
THEOREM TypeInvariant == Spec => []TypeInv
<1>1. Init => TypeInv
  <2>. SUFFICES ASSUME Init PROVE TypeInv
    OBVIOUS
  <2>1. refs \in [Objs -> 0..MaxRefs] /\ unsaved \subseteq Objs
    BY RefBound DEF Init, Cache!Init
  <2>2. work \in Tables /\ saved \in Tables
    BY DEF Init, NoRow, Tables
  <2>. QED  BY <2>1, <2>2 DEF Init, TypeInv, OtherTypes
<1>2. RecInv /\ TypeInv /\ [Next]_vars => TypeInv'
  <2>. SUFFICES ASSUME RecInv, TypeInv, [Next]_vars PROVE TypeInv'
    OBVIOUS
  <2>1. CASE Restart
    <3>1. refs' \in [Objs -> 0..MaxRefs] /\ unsaved' \subseteq Objs
      BY <2>1, RefBound DEF Restart
    <3>2. work' \in Tables /\ saved' \in Tables
      BY <2>1 DEF Restart, TypeInv, OtherTypes
    <3>. QED  BY <2>1, <3>1, <3>2 DEF Restart, TypeInv, OtherTypes
  <2>2. CASE UNCHANGED vars
    BY <2>2 DEF vars, cache, records, callVars, flushVars, database, TypeInv,
                OtherTypes
  <2>. QED
    BY <2>1, <2>2, CallsKeepTypes, ClientsKeepTypes, FlushKeepsTypes DEF Next
<1>. QED  BY <1>1, <1>2, RecordInvariant, PTL DEF Spec

\* Every variable keeps its type; above all, no row is ever without a name, and
\* no client's references outnumber those it was given.
THEOREM UserStoreTypeCorrect == Spec => []TypeOK
<1>1. RecInv /\ TypeInv => TypeOK
  BY DEF RecInv, RecordTypes, TypeInv, OtherTypes, TypeOK
<1>. QED  BY <1>1, RecordInvariant, TypeInvariant, PTL

-----------------------------------------------------------------------------
(* What a flush saves *)

\* What the connection sees is what is on disk, but for the row of the record
\* being flushed once that was inserted, until it is committed or undone.
RowInv ==
  /\ IsTable(work) /\ IsTable(saved)
  /\ stmt \in {"none", "update", "insert"} => work = saved
  /\ stmt = "commit" => \A u \in Users :
       work[u] # saved[u] => u = id[current] /\ work[u] = name[current]

\* No call goes on while a record is being flushed, and no call touches the
\* table.
LEMMA CallsLeaveRowsAlone ==
  ASSUME RecInv, TypeInv, [Next]_vars
  PROVE  \/ FlushStep
         \/ Restart
         \/ stmt = "none" /\ UNCHANGED <<stmt, work, saved>>
         \/ UNCHANGED <<stmt, work, saved, id, name, current>>
<1>1. todo = {} => stmt = "none"
  BY UserNone DEF RecInv, RecordTypes, TypeInv
<1>2. CASE CallStep
  <2>1. UNCHANGED <<stmt, work, saved>>
    BY <1>2 DEF CallStep, BeginPut, StorePut, Unref, FillIn, flushVars, database
  <2>2. todo = {}
    BY <1>2 DEF CallStep, BeginPut, StorePut, Unref, FillIn, Flushing, RecInv,
                Calling
  <2>. QED  BY <1>1, <2>1, <2>2
<1>3. ASSUME NEW u \in Users, NEW j \in Names \cup {Bare, Trimmed, None},
             Hit(u, j) \/ \E o \in Objs : Miss(u, o, j)
      PROVE  todo = {} /\ UNCHANGED <<stmt, work, saved>>
  BY <1>3 DEF Hit, Miss, Idle, Flushing, flushVars, database
<1>4. ASSUME NEW S \in SUBSET Users, MakeRoom(S)
      PROVE  todo = {} /\ UNCHANGED <<stmt, work, saved>>
  BY <1>4 DEF MakeRoom, Flushing, database
<1>5. ASSUME NEW o \in Objs, ClientRef(o) \/ ClientUnref(o)
      PROVE  todo = {} /\ UNCHANGED <<stmt, work, saved>>
  BY <1>5 DEF ClientRef, ClientUnref, Idle, Flushing, flushVars, database
<1>6. CASE Close
  BY <1>1, <1>6 DEF Close, Idle, Flushing, database
<1>7. CASE UNCHANGED vars
  BY <1>7 DEF vars, records, flushVars, database
<1>. QED  BY <1>1, <1>2, <1>3, <1>4, <1>5, <1>6, <1>7 DEF Next

\* Every step of a flush keeps RowInv.
LEMMA FlushKeepsRows ==
  ASSUME RowInv, FlushStep
  PROVE  RowInv'
<1>. USE DEF RowInv, IsTable
<1>1. ASSUME Fail PROVE RowInv'
  BY <1>1 DEF Fail, database
<1>2. CASE \E o \in Objs : Begin(o)
  BY <1>2 DEF Begin, database
<1>3. CASE Update
  <2>1. ASSUME ~Fail PROVE UNCHANGED <<work, saved>> /\ stmt' \in {"commit", "insert"}
    BY <1>3, <2>1, UpdateSelectsNothing DEF Update
  <2>. QED  BY <1>1, <1>3, <2>1 DEF Update
<1>4. CASE Insert
  <2>1. ASSUME ~Fail
        PROVE  /\ work' = [work EXCEPT ![id[current]] = name[current]]
               /\ work = saved /\ stmt' = "commit"
               /\ UNCHANGED <<saved, id, name, current>>
    BY <1>4, <2>1 DEF Insert, records
  <2>2. ASSUME ~Fail PROVE RowInv'
    BY <2>1, <2>2
  <2>. QED  BY <1>1, <2>2
<1>5. CASE Commit
  <2>1. ASSUME ~Fail PROVE saved' = work /\ work' = work /\ stmt' = "none"
    BY <1>5, <2>1 DEF Commit, FlushDone
  <2>. QED  BY <1>1, <2>1
<1>6. CASE Rollback
  BY <1>6 DEF Rollback, Undone, GiveUp, FlushDone
<1>. QED  BY <1>2, <1>3, <1>4, <1>5, <1>6 DEF FlushStep

\* What is committed is the record being flushed: neither what a failed flush
\* had done nor another user's row gets on disk with it.
THEOREM FlushesWriteOneRecord == Spec => FlushWritesItsRecord
<1>1. Init => RowInv
  BY DEF Init, RowInv, IsTable, NoRow
<1>2. RecInv /\ TypeInv /\ RowInv /\ [Next]_vars => RowInv'
  <2>. SUFFICES ASSUME RecInv, TypeInv, RowInv, [Next]_vars PROVE RowInv'
    OBVIOUS
  <2>1. CASE Restart
    BY <2>1 DEF Restart, RowInv, IsTable
  <2>2. CASE stmt = "none" /\ UNCHANGED <<stmt, work, saved>>
    BY <2>2 DEF RowInv, IsTable
  <2>3. CASE UNCHANGED <<stmt, work, saved, id, name, current>>
    BY <2>3 DEF RowInv, IsTable
  <2>. QED  BY <2>1, <2>2, <2>3, CallsLeaveRowsAlone, FlushKeepsRows
<1>3. ASSUME RecInv, TypeInv, RowInv, [Next]_vars,
             NEW u \in Users, saved'[u] # saved[u]
      PROVE  Commit /\ u = id[current] /\ saved'[u] = name[current]
  <2>1. FlushStep
    BY <1>3, CallsLeaveRowsAlone DEF Restart
  <2>2. Commit
    BY <1>3, <2>1 DEF FlushStep, Begin, Update, Insert, Rollback, Fail, database
  <2>3. saved' = work /\ stmt = "commit"
    BY <1>3, <2>2 DEF Commit, Fail, database
  <2>. QED  BY <1>3, <2>2, <2>3 DEF RowInv
<1>4. RecInv /\ TypeInv /\ RowInv /\ [Next]_vars
        => [\A u \in Users : saved'[u] # saved[u] =>
              Commit /\ u = id[current] /\ saved'[u] = name[current]]_vars
  BY <1>3
<1>. QED
  BY <1>1, <1>2, <1>4, RecordInvariant, TypeInvariant, PTL
     DEF Spec, FlushWritesItsRecord
=============================================================================
