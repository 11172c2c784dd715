------------------------------ MODULE UserStore ------------------------------
(***************************************************************************)
(* usercache.c on top of a replacing cache and under it an SQLite table:   *)
(* records of users are looked up or made, filled in from what the service *)
(* delivers, and written to the table when they leave the cache.           *)
(*                                                                         *)
(* The cache is taken at its contract (ReplacingCache), which pt-cache.c   *)
(* is proved to keep; its actions are steps of the calls modelled here.    *)
(* A record's data is its screen name, the column with constraints.  The   *)
(* flag `dirty' is left out: it is set and never read.                     *)
(***************************************************************************)
EXTENDS Naturals

CONSTANTS
  Users,      \* user ids
  Objs,       \* PtUserInfo objects (one that died may be made again)
  Names,      \* screen names
  None,
  Bare,       \* screenname == NULL
  Trimmed,    \* a user in JSON that has an id only
  MaxRefs     \* bound: references of clients to one record

ASSUME UserNone == None \notin Users \cup Objs \cup Names
ASSUME NameKinds == Bare # Trimmed /\ {Bare, Trimmed} \cap (Names \cup {None}) = {}
ASSUME RefBound == MaxRefs \in Nat \ {0}

VARIABLES
  entry, refs, borrowed, unsaved, putting, closed,   \* of ReplacingCache
  id,         \* id[o]: the user o is the record of, None once it is finalized
  name,       \* name[o]: its screenname, Bare for NULL
  call,       \* where the call into usercache.c is: "none" if there is none
  inf,        \* the record it is about
  json,       \* what it is to fill in: a name, Bare or Trimmed; None if it is
              \* get_user_info()
  todo,       \* records handed to user_info_flush(), not yet done with
  stmt,       \* the statement flush_user_info() is at
  current,    \* the record it writes
  changes,    \* sqlite3_total_changes() > 0 on this connection
  work,       \* work[u]: u's row as the connection sees it, None if absent
  saved       \* the same as it is on disk

cache == <<entry, refs, borrowed, unsaved, putting, closed>>
records == <<id, name>>
callVars == <<call, inf, json>>
flushVars == <<todo, stmt, current>>
database == <<changes, work, saved>>
vars == <<cache, records, callVars, flushVars, database>>

Cache == INSTANCE ReplacingCache WITH Keys <- Users

Flushing == todo # {}
Idle == call = "none" /\ ~Flushing
Return == call' = "none" /\ inf' = None /\ json' = None

-----------------------------------------------------------------------------
(* Calls *)

\* get_user_info() and get_user_info_from_json() of a user that is cached.
Hit(u, j) ==
  /\ Idle /\ ~closed
  /\ Cache!Lookup(u)
  /\ \/ j = None /\ UNCHANGED callVars
     \/ j # None /\ call' = "fill" /\ inf' = entry[u] /\ json' = j
  /\ UNCHANGED <<records, flushVars, database>>

\* pt_cache_get() finds nothing.
MissedUnasked(u) == TRUE
Missed(u) == entry[u] = None

\* fetch_user_info() binds the id to parameter 0, which does not exist; the
\* WHERE clause compares with NULL and no row is ever found.
FetchedName(u) == Bare

\* Of a user that is not: new_or_fetch() makes a record, a reference to which
\* the call owns.
Miss(u, o, j) ==
  /\ Idle /\ ~closed
  /\ Missed(u) /\ id[o] = None
  /\ Cache!Acquire(o)
  /\ id' = [id EXCEPT ![o] = u]
  /\ name' = [name EXCEPT ![o] = FetchedName(u)]
  /\ call' = "put" /\ inf' = o /\ json' = j
  /\ UNCHANGED <<flushVars, database>>

\* pt_cache_put() begins, makes room as often as it likes, and stores.
BeginPut ==
  /\ call = "put" /\ ~Flushing
  /\ Cache!BeginPut
  /\ UNCHANGED <<records, callVars, flushVars, database>>

MakeRoom(S) ==
  /\ call = "put" /\ ~Flushing /\ S # {}
  /\ Cache!Replace(S)
  /\ todo' = {entry[u] : u \in S}
  /\ UNCHANGED <<records, callVars, stmt, current, database>>

StorePut ==
  /\ call = "put" /\ ~Flushing
  /\ Cache!Store(id[inf], inf)
  /\ call' = "unref"
  /\ UNCHANGED <<records, inf, json, flushVars, database>>

\* The call gives up its own reference and goes on with the cache's.
Unref ==
  /\ call = "unref"
  /\ Cache!Release(inf)
  /\ \/ json = None /\ Return
     \/ json # None /\ call' = "fill" /\ UNCHANGED <<inf, json>>
  /\ UNCHANGED <<records, flushVars, database>>

\* format_from_json(): a member that is missing leaves the field alone.
FromJson(n, j) == IF j = Trimmed THEN n ELSE j

FillIn ==
  /\ call = "fill"
  /\ Cache!Change(inf)
  /\ name' = [name EXCEPT ![inf] = FromJson(@, json)]
  /\ Return
  /\ UNCHANGED <<id, flushVars, database>>

\* The records of S are finalized, unless somebody refers to them.
Unused(S) == S
Dead(S) == {o \in S : refs'[o] = 0}
Finalize(S) ==
  LET dead == Dead(S) IN
  /\ id' = [o \in Objs |-> IF o \in dead THEN None ELSE id[o]]
  /\ name' = [o \in Objs |-> IF o \in dead THEN Bare ELSE name[o]]

\* g_object_ref() and g_object_unref() by a client, on a record it was given.
ClientRef(o) ==
  /\ Idle /\ (refs[o] > 0 \/ o \in borrowed) /\ refs[o] < MaxRefs
  /\ Cache!Acquire(o)
  /\ UNCHANGED <<records, callVars, flushVars, database>>

\* If the cache evicts the record there and then it is flushed first.
ClientUnref(o) ==
  /\ Idle
  /\ Cache!Release(o)
  /\ IF entry' = entry
     THEN todo' = todo /\ Finalize({o} \ Cache!CachedObjs)
     ELSE todo' = {o} /\ UNCHANGED records
  /\ UNCHANGED <<callVars, stmt, current, database>>

\* user_cache_close(), of the last reference: everything is flushed.
Close ==
  /\ Idle
  /\ Cache!Close
  /\ todo' = Cache!CachedObjs
  /\ UNCHANGED <<records, callVars, stmt, current, database>>

-----------------------------------------------------------------------------
(* flush_user_info() and store_to_sqlite(): BEGIN, UPDATE, INSERT, COMMIT,  *)
(* and ROLLBACK when one of them fails                                      *)

FlushDone ==
  /\ stmt' = "none" /\ current' = None
  /\ todo' = todo \ {current} /\ Finalize({current})

Fail == stmt' = "rollback" /\ UNCHANGED <<records, todo, current, database>>

Begin(o) ==
  /\ stmt = "none" /\ o \in todo
  /\ current' = o
  /\ stmt' \in {"update", "rollback"}
  /\ UNCHANGED <<records, todo, database>>

\* The id is bound to the last column's parameter again, and the one of the
\* WHERE clause stays NULL: no row is selected.
SelectedById(u) == {u}
Selected(u) == {}

Updated ==
  [u \in Users |-> IF u \in Selected(id[current]) /\ work[u] # None
                   THEN name[current] ELSE work[u]]
AnyUpdated == \E u \in Selected(id[current]) : work[u] # None

\* Whether to insert is decided by sqlite3_total_changes(), which counts from
\* the opening of the connection.
Update ==
  /\ stmt = "update"
  /\ \/ Fail
     \/ /\ work' = Updated
        /\ changes' = (changes \/ AnyUpdated)
        /\ stmt' = IF changes' THEN "commit" ELSE "insert"
        /\ UNCHANGED <<records, todo, current, saved>>

\* PRIMARY KEY, NOT NULL and UNIQUE
MayInsertNull(u, n) == work[u] = None /\ \A v \in Users : work[v] # n
MayInsert(u, n) == work[u] = None /\ n # Bare /\ \A v \in Users : work[v] # n

Insert ==
  /\ stmt = "insert"
  /\ \/ Fail
     \/ /\ MayInsert(id[current], name[current])
        /\ work' = [work EXCEPT ![id[current]] = name[current]]
        /\ changes' = TRUE
        /\ stmt' = "commit"
        /\ UNCHANGED <<records, todo, current, saved>>

Commit ==
  /\ stmt = "commit"
  /\ \/ Fail
     \/ /\ saved' = work
        /\ FlushDone
        /\ UNCHANGED <<changes, work>>

\* A record that cannot be written is warned about and let go of.
TryAgain == stmt' = "none" /\ UNCHANGED <<records, todo, current>>
GiveUp == FlushDone

\* What ROLLBACK leaves of the table: what was last committed.
NotUndone == work
Undone == saved

Rollback ==
  /\ stmt = "rollback"
  /\ work' = Undone
  /\ GiveUp
  /\ UNCHANGED <<changes, saved>>

FlushStep ==
  /\ UNCHANGED <<cache, callVars>>
  /\ \/ \E o \in Objs : Begin(o)
     \/ Update
     \/ Insert
     \/ Commit
     \/ Rollback

-----------------------------------------------------------------------------

NoRow == [u \in Users |-> None]
NoRecord == [o \in Objs |-> None]

\* user_cache_open(), of a table that is empty
Init ==
  /\ Cache!Init
  /\ id = NoRecord /\ name = [o \in Objs |-> Bare]
  /\ call = "none" /\ inf = None /\ json = None
  /\ todo = {} /\ stmt = "none" /\ current = None
  /\ changes = FALSE /\ work = NoRow /\ saved = NoRow

\* The program ends or is killed, at any point, and is started again.  SQLite
\* discards what was not committed when the table is next opened.
Restart ==
  /\ entry' = NoRow /\ refs' = [o \in Objs |-> 0]
  /\ borrowed' = {} /\ unsaved' = {} /\ putting' = FALSE /\ closed' = FALSE
  /\ id' = NoRecord /\ name' = [o \in Objs |-> Bare]
  /\ call' = "none" /\ inf' = None /\ json' = None
  /\ todo' = {} /\ stmt' = "none" /\ current' = None
  /\ changes' = FALSE /\ work' = saved
  /\ UNCHANGED saved

CallStep == BeginPut \/ StorePut \/ Unref \/ FillIn

Next ==
  \/ \E u \in Users, j \in Names \cup {Bare, Trimmed, None} :
       Hit(u, j) \/ \E o \in Objs : Miss(u, o, j)
  \/ CallStep
  \/ \E S \in SUBSET Users : MakeRoom(S)
  \/ \E o \in Objs : ClientRef(o) \/ ClientUnref(o)
  \/ Close
  \/ FlushStep
  \/ Restart

Spec == Init /\ [][Next]_vars

\* A call runs until it returns, whatever the database answers.
FairSpec == Spec /\ WF_vars(CallStep) /\ WF_vars(FlushStep)

-----------------------------------------------------------------------------
(* Properties *)

Tables == [Users -> Names \cup {None}]

TypeOK ==
  /\ entry \in [Users -> Objs \cup {None}] /\ refs \in [Objs -> 0..MaxRefs]
  /\ borrowed \subseteq Objs /\ unsaved \subseteq Objs
  /\ putting \in BOOLEAN /\ closed \in BOOLEAN
  /\ id \in [Objs -> Users \cup {None}] /\ name \in [Objs -> Names \cup {Bare}]
  /\ call \in {"none", "put", "unref", "fill"}
  /\ inf \in Objs \cup {None} /\ json \in Names \cup {Bare, Trimmed, None}
  /\ todo \subseteq Objs /\ current \in todo \cup {None}
  /\ stmt \in {"none", "update", "insert", "commit", "rollback"}
  /\ changes \in BOOLEAN
  /\ work \in Tables /\ saved \in Tables

\* There is never more than one record of a user: what several updates of one
\* author refer to is shared, whatever was evicted in between.
OneRecordPerUser ==
  \A o, p \in Objs : id[o] # None /\ id[o] = id[p] => o = p

\* A record somebody refers to is the one the next lookup finds, so that what
\* the service delivers later is seen by the rows that show the user.
UsedRecordsAreFound ==
  ~closed => \A o \in Objs :
    refs[o] > 0 => entry[id[o]] = o \/ (o = inf /\ call = "put")

\* A record is alive while anyone can get at it: in the cache, borrowed, or on
\* its way to the table.
ReachableRecordsLive ==
  \A o \in Objs :
    o \in Cache!CachedObjs \cup borrowed \cup todo \/ refs[o] > 0 => id[o] # None

\* What a COMMIT puts on disk is the record that is being flushed and nothing
\* else: whatever an earlier flush had done when a statement failed, or when the
\* program was killed, has been undone by then, and no other user's row is
\* touched, although rows and records come and go in any order.
FlushWritesItsRecord ==
  [][\A u \in Users : saved'[u] # saved[u] =>
       Commit /\ u = id[current] /\ saved'[u] = name[current]]_vars

\* format.c:240 wants the number of rows that the UPDATE matched, so as to
\* insert the record if there is none: what was flushed without a warning is
\* on disk.
FlushedIsSaved ==
  [][Commit /\ stmt' = "none" => saved'[id[current]] = name[current]]_vars

\* A call returns and a flush ends although any statement may fail: no record
\* is tried for ever.
CallsReturn == ~Idle ~> Idle
=============================================================================
