---------------------------- MODULE UserpicProofs ----------------------------
(***************************************************************************)
(* Proofs about Userpic.tla, for any users, URLs and pixbufs.              *)
(***************************************************************************)
EXTENDS Userpic, TLAPS

-----------------------------------------------------------------------------
(* Types *)

CacheTypes ==
  /\ entry \in [Names -> Objs \cup {None}] /\ refs \in [Objs -> Nat]
  /\ borrowed \subseteq Objs /\ unsaved = {}
  /\ putting \in BOOLEAN /\ closed \in BOOLEAN

\* TypeOK; a user's URL is one of the user's own; and what a row in the middle
\* of its drawing is about.
TypeInv ==
  /\ TypeOK
  /\ \A u \in Users : url[u] \in URLs => url[u] \in URLsOf[u]
  /\ stage # "none" => got \in Objs /\ drawn \in Users

\* The actions of the cache that the drawing of a row is made of keep its
\* types.
LEMMA CacheStepKeepsTypes ==
  ASSUME CacheTypes
  PROVE  /\ \A o \in Objs : Cache!Acquire(o) \/ Cache!Release(o) => CacheTypes'
         /\ \A n \in Names : Cache!Lookup(n) => CacheTypes'
         /\ \A S \in SUBSET Names : Cache!Replace(S) => CacheTypes'
         /\ \A n \in Names, o \in Objs : Cache!Store(n, o) => CacheTypes'
         /\ Cache!BeginPut \/ Cache!Close \/ UNCHANGED cache => CacheTypes'
<1>. USE DEF CacheTypes
<1>1. ASSUME NEW o \in Objs, Cache!Acquire(o) PROVE CacheTypes'
  BY <1>1 DEF Cache!Acquire
<1>2. ASSUME NEW o \in Objs, Cache!Release(o) PROVE CacheTypes'
  <2>1. refs' \in [Objs -> Nat]
    BY <1>2 DEF Cache!Release
  <2>2. entry' \in [Names -> Objs \cup {None}] /\ unsaved' = {}
    BY <1>2 DEF Cache!Release
  <2>. QED  BY <1>2, <2>1, <2>2 DEF Cache!Release
<1>3. ASSUME NEW n \in Names, Cache!Lookup(n) PROVE CacheTypes'
  BY <1>3 DEF Cache!Lookup
<1>4. CASE Cache!BeginPut
  BY <1>4 DEF Cache!BeginPut
<1>5. ASSUME NEW S \in SUBSET Names, Cache!Replace(S) PROVE CacheTypes'
  BY <1>5 DEF Cache!Replace
<1>6. ASSUME NEW n \in Names, NEW o \in Objs, Cache!Store(n, o) PROVE CacheTypes'
  BY <1>6 DEF Cache!Store
<1>7. CASE Cache!Close
  BY <1>7 DEF Cache!Close
<1>8. CASE UNCHANGED cache
  BY <1>8 DEF cache
<1>. QED  BY <1>1, <1>2, <1>3, <1>4, <1>5, <1>6, <1>7, <1>8

\* So do showing a picture and disposing of users, which also keep the types of
\* the pixbufs.
LEMMA ShowKeepsTypes ==
  ASSUME TypeInv, NEW o \in Objs \cup {None}, Show(o)
  PROVE  /\ CacheTypes' /\ cell' \in Objs \cup {None}
         /\ pix' \in [Objs -> Pictures \cup {None}]
<1>1. CacheTypes
  BY DEF TypeInv, TypeOK, CacheTypes
<1>2. CacheTypes'
  <2>1. CASE cell = None
    BY <1>1, <2>1, CacheStepKeepsTypes DEF Show
  <2>2. CASE cell # None
    <3>1. cell \in Objs /\ Cache!Release(cell)
      BY <2>2 DEF Show, TypeInv, TypeOK
    <3>. QED  BY <1>1, <3>1, CacheStepKeepsTypes
  <2>. QED  BY <2>1, <2>2
<1>3. pix' \in [Objs -> Pictures \cup {None}]
  BY DEF Show, Finalized, TypeInv, TypeOK
<1>. QED  BY <1>2, <1>3 DEF Show

LEMMA DisposeKeepsTypes ==
  ASSUME TypeInv, NEW S \in SUBSET Users, Dispose(S)
  PROVE  /\ CacheTypes'
         /\ url' \in [Users -> URLs \cup {NoURL, Trimmed, None}]
         /\ img' \in [Users -> Names \cup {None}]
         /\ pix' \in [Objs -> Pictures \cup {None}]
         /\ \A u \in Users : url'[u] \in URLs => url'[u] \in URLsOf[u]
<1>1. CacheTypes
  BY DEF TypeInv, TypeOK, CacheTypes
<1>2. CacheTypes'
  BY <1>1, CacheStepKeepsTypes DEF Dispose
<1>3. /\ url' \in [Users -> URLs \cup {NoURL, Trimmed, None}]
      /\ img' \in [Users -> Names \cup {None}]
  BY DEF Dispose, TypeInv, TypeOK
<1>4. pix' \in [Objs -> Pictures \cup {None}]
  BY DEF Dispose, Finalized, TypeInv, TypeOK
<1>5. \A u \in Users : url'[u] \in URLs => url'[u] \in URLsOf[u]
  BY KindAssumption DEF Dispose, TypeInv, TypeOK
<1>. QED  BY <1>2, <1>3, <1>4, <1>5

LEMMA StartKeepsTypes ==
  ASSUME TypeInv, NEW u \in Users, StartFetch(u)
  PROVE  msg' \in [Users -> BOOLEAN] /\ flight' \in [Users -> Seq(URLs)]
<1>1. CASE CanStart(u)
  <2>1. Append(flight[u], url[u]) \in Seq(URLs)
    <3>1. flight[u] \in Seq(URLs) /\ url[u] \in URLs
      BY <1>1 DEF CanStart, Startable, TypeInv, TypeOK
    <3>. QED  BY <3>1
  <2>2. flight' = [flight EXCEPT ![u] = Append(flight[u], url[u])]
    BY <1>1 DEF StartFetch
  <2>3. flight' \in [Users -> Seq(URLs)]
    BY <2>1, <2>2 DEF TypeInv, TypeOK
  <2>4. msg' \in [Users -> BOOLEAN]
    BY <1>1 DEF StartFetch, TypeInv, TypeOK
  <2>. QED  BY <2>3, <2>4
<1>2. CASE ~CanStart(u)
  BY <1>2 DEF StartFetch, requests, TypeInv, TypeOK
<1>. QED  BY <1>1, <1>2

\* The name of a user's picture is a name as long as there is a URL, and all of
\* its pictures are pictures.
LEMMA NamesAreNames ==
  ASSUME TypeInv, NEW u \in Users, url[u] \in URLs
  PROVE  Name(u) \in Names
<1>1. url[u] \in URLsOf[u]
  BY DEF TypeInv
<1>2. Name(u) \in {<<u, Ext[l]>> : l \in URLsOf[u]}
  BY <1>1 DEF Name
<1>. QED  BY <1>2 DEF Names

LEMMA NothingInFlight == [u \in Users |-> <<>>] \in [Users -> Seq(URLs)]
<1>1. <<>> \in Seq(URLs)
  OBVIOUS
<1>. QED  BY <1>1

LEMMA AnswersAreTyped ==
  ASSUME TypeInv, NEW u \in Users, Answered(u)
  PROVE  /\ Head(flight[u]) \in URLs
         /\ flight' \in [Users -> Seq(URLs)]
<1>1. flight[u] \in Seq(URLs) /\ flight[u] # <<>>
  BY DEF Answered, TypeInv, TypeOK
<1>2. Head(flight[u]) \in URLs /\ Tail(flight[u]) \in Seq(URLs)
  BY <1>1
<1>3. flight' \in [Users -> Seq(URLs)]
  BY <1>2 DEF Answered, TypeInv, TypeOK
<1>. QED  BY <1>2, <1>3

\* Every step keeps TypeInv.
LEMMA StepKeepsTypes == TypeInv /\ [Next]_vars => TypeInv'
<1>. SUFFICES ASSUME TypeInv, [Next]_vars PROVE TypeInv'
  OBVIOUS
<1>. USE DEF TypeInv, TypeOK, CacheTypes, Idle
<1>1. ASSUME NEW u \in Users, NEW j \in URLsOf[u] \cup {NoURL, Trimmed}, Deliver(u, j)
      PROVE  TypeInv'
  <2>1. j \in URLs \cup {NoURL, Trimmed} /\ (j \in URLs => j \in URLsOf[u])
    BY URLAssumption, KindAssumption
  <2>2. url' \in [Users -> URLs \cup {NoURL, Trimmed, None}]
    BY <1>1, <2>1 DEF Deliver, FromJson
  <2>3. \A v \in Users : url'[v] \in URLs => url'[v] \in URLsOf[v]
    BY <1>1, <2>1 DEF Deliver, FromJson
  <2>. QED  BY <1>1, <2>2, <2>3 DEF Deliver, ImgAfterJson, requests, drawing
<1>2. ASSUME NEW n \in Names, RemoveFile(n) PROVE TypeInv'
  <2>1. file' \in [Names -> Pictures \cup {Garbage, None}]
    BY <1>2 DEF RemoveFile
  <2>. QED  BY <1>2, <2>1 DEF RemoveFile, cache, records, requests, drawing
<1>3. CASE FreeModel
  <2>1. Show(None)
    BY <1>3 DEF FreeModel
  <2>2. /\ CacheTypes' /\ cell' \in Objs \cup {None}
        /\ pix' \in [Objs -> Pictures \cup {None}]
    BY <2>1, ShowKeepsTypes
  <2>. QED  BY <1>3, <2>2 DEF FreeModel, LeftOver, records, requests, drawing
<1>4. CASE Restart
  <2>1. CacheTypes' /\ flight' \in [Users -> Seq(URLs)]
    BY <1>4, NothingInFlight DEF Restart
  <2>2. url' \in [Users -> URLs \cup {NoURL, Trimmed, None}]
    BY <1>4 DEF Restart
  <2>3. \A u \in Users : url'[u] \in URLs => url'[u] \in URLsOf[u]
    BY <1>4, KindAssumption DEF Restart
  <2>. QED  BY <1>4, <2>1, <2>2, <2>3 DEF Restart
<1>5. ASSUME NEW u \in Users, Insert(u) PROVE TypeInv'
  BY <1>5 DEF Insert, cache, records, requests, drawing
<1>6. ASSUME NEW u \in Users, Evict(u) PROVE TypeInv'
  <2>1. Dispose({u}) /\ {u} \in SUBSET Users
    BY <1>6 DEF Evict
  <2>. QED  BY <1>6, <2>1, DisposeKeepsTypes DEF Evict, requests, drawing
<1>7. ASSUME NEW u \in Users, Refused(u) PROVE TypeInv'
  <2>1. flight' \in [Users -> Seq(URLs)]
    BY <1>7, AnswersAreTyped DEF Refused
  <2>. QED  BY <1>7, <2>1 DEF Refused, MsgCleared, cache, records, drawing
<1>8. ASSUME NEW u \in Users, Stored(u) \/ StoredGarbage(u) \/ NotStored(u)
      PROVE  TypeInv'
  <2>1. Answered(u) /\ url[u] \in URLs
    BY <1>8 DEF Stored, StoredGarbage, NotStored, Arrived
  <2>2. flight' \in [Users -> Seq(URLs)] /\ Head(flight[u]) \in URLs
    BY <2>1, AnswersAreTyped
  <2>3. Name(u) \in Names
    BY <2>1, NamesAreNames
  <2>4. <<u, Head(flight[u])>> \in Pictures
    BY <2>2 DEF Pictures
  <2>5. file' \in [Names -> Pictures \cup {Garbage, None}]
    BY <1>8, <2>4 DEF Stored, StoredGarbage, NotStored, Arrived
  <2>6. /\ img' \in [Users -> Names \cup {None}] /\ msg' \in [Users -> BOOLEAN]
        /\ UNCHANGED <<cache, url, kept, pix, drawing, cell, pc>>
    BY <1>8, <2>3 DEF Stored, StoredGarbage, NotStored, Arrived, MsgCleared
  <2>. QED  BY <2>2, <2>5, <2>6 DEF cache, drawing
<1>9. ASSUME NEW u \in Users, Crash(u) PROVE TypeInv'
  BY <1>9 DEF Crash, cache, records, requests, drawing
<1>10. ASSUME NEW u \in Users, DrawTrimmed(u) \/ DrawUnreadable(u) PROVE TypeInv'
  <2>1. Show(None) /\ UNCHANGED <<records, requests, kept, file, drawing, pc>>
    BY <1>10 DEF DrawTrimmed, DrawUnreadable
  <2>. QED  BY <2>1, ShowKeepsTypes DEF records, requests, drawing
<1>11. ASSUME NEW u \in Users, DrawNone(u) \/ DrawGone(u) PROVE TypeInv'
  <2>1. /\ Show(None) /\ StartFetch(u)
        /\ UNCHANGED <<url, kept, file, drawing, pc>>
    BY <1>11 DEF DrawNone, DrawGone, records
  <2>2. img' \in [Users -> Names \cup {None}]
    BY <1>11 DEF DrawNone, DrawGone, records
  <2>. QED  BY <2>1, <2>2, ShowKeepsTypes, StartKeepsTypes DEF drawing
<1>12. ASSUME NEW u \in Users, DrawCached(u) PROVE TypeInv'
  <2>1. img[u] \in Names /\ Cache!Lookup(img[u]) /\ entry[img[u]] \in Objs
    BY <1>12 DEF DrawCached
  <2>2. CacheTypes'
    BY <2>1, CacheStepKeepsTypes
  <2>. QED  BY <1>12, <2>1, <2>2 DEF DrawCached, records, requests
<1>13. ASSUME NEW u \in Users, NEW o \in Objs, Load(u, o) PROVE TypeInv'
  <2>1. img[u] \in Names /\ Cache!Acquire(o) /\ file[img[u]] \in Pictures
    BY <1>13 DEF Load
  <2>2. CacheTypes'
    BY <2>1, CacheStepKeepsTypes
  <2>. QED  BY <1>13, <2>1, <2>2 DEF Load, records, requests
<1>14. CASE Retain
  <2>1. got \in Objs /\ Cache!Acquire(got)
    BY <1>14 DEF Retain, Retained
  <2>2. CacheTypes'
    BY <2>1, CacheStepKeepsTypes
  <2>. QED  BY <1>14, <2>1, <2>2 DEF Retain, records, requests
<1>15. CASE BeginPut
  <2>1. CacheTypes'
    BY <1>15, CacheStepKeepsTypes DEF BeginPut
  <2>. QED  BY <1>15, <2>1 DEF BeginPut, records, requests, drawing
<1>16. ASSUME NEW S \in SUBSET Names, MakeRoom(S) PROVE TypeInv'
  <2>1. CacheTypes'
    BY <1>16, CacheStepKeepsTypes DEF MakeRoom
  <2>2. pix' \in [Objs -> Pictures \cup {None}]
    BY <1>16 DEF MakeRoom, Finalized
  <2>. QED  BY <1>16, <2>1, <2>2 DEF MakeRoom, records, requests, drawing
<1>17. CASE StorePut
  <2>1. got \in Objs /\ Cache!Store(img[drawn], got)
    BY <1>17 DEF StorePut
  <2>2. CacheTypes'
    BY <2>1 DEF Cache!Store
  <2>. QED  BY <1>17, <2>1, <2>2 DEF StorePut, records, requests
<1>18. CASE SetCell
  <2>1. got \in Objs /\ Show(got)
    BY <1>18 DEF SetCell
  <2>. QED  BY <1>18, <2>1, ShowKeepsTypes DEF SetCell, records, requests
<1>19. CASE CloseUserCache
  <2>1. Dispose(Alive \ kept) /\ Alive \ kept \in SUBSET Users
    BY <1>19 DEF CloseUserCache, Alive
  <2>. QED  BY <1>19, <2>1, DisposeKeepsTypes DEF CloseUserCache, requests, drawing
<1>20. CASE EndSession
  <2>1. flight' \in [Users -> Seq(URLs)] /\ msg' \in [Users -> BOOLEAN]
    BY <1>20, NothingInFlight DEF EndSession
  <2>. QED  BY <1>20, <2>1 DEF EndSession, cache, records, drawing
<1>21. CASE UNCHANGED vars
  BY <1>21 DEF vars, cache, records, requests, drawing
<1>. QED
  BY <1>1, <1>2, <1>3, <1>4, <1>5, <1>6, <1>7, <1>8, <1>9, <1>10, <1>11, <1>12,
     <1>13, <1>14, <1>15, <1>16, <1>17, <1>18, <1>19, <1>20, <1>21
  DEF Next, Disturbed, Draw, DrawStep, Ending

LEMMA InitialTypes == Init => TypeInv
<1>. SUFFICES ASSUME Init PROVE TypeInv
  OBVIOUS
<1>1. /\ entry \in [Names -> Objs \cup {None}] /\ refs \in [Objs -> Nat]
      /\ flight \in [Users -> Seq(URLs)]
  BY NothingInFlight DEF Init, Cache!Init
<1>2. \A u \in Users : url[u] \notin URLs
  BY KindAssumption DEF Init
<1>. QED  BY <1>1, <1>2 DEF Init, Cache!Init, TypeInv, TypeOK

\* The variables keep their types.
THEOREM UserpicTypeCorrect == Spec => []TypeOK
<1>1. Init => TypeInv
  BY InitialTypes
<1>2. TypeInv => TypeOK
  BY DEF TypeInv
<1>. QED  BY <1>1, <1>2, StepKeepsTypes, PTL DEF Spec

-----------------------------------------------------------------------------
(* Requests and records *)

\* What RequestsAccounted and CallbackMeetsUser rest on: only users of rows are
\* drawn, only those have pictures and requests, and they are kept for ever; a
\* request is made for who has no picture.
ReqInv ==
  /\ \A u \in kept : url[u] # None
  /\ \A u \in Users :
       /\ Len(flight[u]) = IF msg[u] THEN 1 ELSE 0
       /\ msg[u] => u \in kept
       /\ img[u] # None => u \in kept /\ msg[u] = FALSE

\* An answer is the one that is waited for, and leaves none in flight.
LEMMA AnswersAreAwaited ==
  ASSUME TypeInv, ReqInv, NEW u \in Users, Answered(u)
  PROVE  msg[u] = TRUE /\ u \in kept /\ img[u] = None /\ Len(flight'[u]) = 0
<1>1. flight[u] \in Seq(URLs) /\ flight[u] # <<>>
  BY DEF TypeInv, TypeOK, Answered
<1>2. Len(flight[u]) # 0 /\ Len(Tail(flight[u])) = Len(flight[u]) - 1
  BY <1>1
<1>3. msg[u] = TRUE /\ Len(flight[u]) = 1
  BY <1>2 DEF ReqInv, TypeInv, TypeOK
<1>4. flight'[u] = Tail(flight[u])
  BY DEF Answered, TypeInv, TypeOK
<1>. QED  BY <1>2, <1>3, <1>4 DEF ReqInv

\* Every step keeps ReqInv.
LEMMA StepKeepsRequests == TypeInv /\ ReqInv /\ [Next]_vars => ReqInv'
<1>. SUFFICES ASSUME TypeInv, ReqInv, [Next]_vars PROVE ReqInv'
  OBVIOUS
<1>. USE DEF ReqInv
<1>t. /\ msg \in [Users -> BOOLEAN] /\ flight \in [Users -> Seq(URLs)]
      /\ img \in [Users -> Names \cup {None}] /\ kept \subseteq Users
      /\ url \in [Users -> URLs \cup {NoURL, Trimmed, None}]
  BY DEF TypeInv, TypeOK
<1>1. CASE UNCHANGED <<records, requests, kept>>
  BY <1>1 DEF records, requests
<1>2. ASSUME NEW u \in Users, NEW j \in URLsOf[u] \cup {NoURL, Trimmed}, Deliver(u, j)
      PROVE  ReqInv'
  <2>1. j # None
    BY URLAssumption, KindAssumption
  <2>2. \A v \in kept : url'[v] # None
    BY <1>t, <1>2, <2>1 DEF Deliver, FromJson
  <2>. QED  BY <1>2, <2>2 DEF Deliver, ImgAfterJson, requests
<1>3. ASSUME NEW u \in Users, Insert(u) PROVE ReqInv'
  BY <1>3 DEF Insert, records, requests
<1>4. ASSUME NEW S \in SUBSET Users, S \cap kept = {}, Dispose(S),
             UNCHANGED <<requests, kept>>
      PROVE  ReqInv'
  BY <1>t, <1>4 DEF Dispose, requests
<1>5. ASSUME NEW u \in Users, Refused(u) PROVE ReqInv'
  <2>1. Answered(u) /\ msg' = [msg EXCEPT ![u] = FALSE] /\ UNCHANGED <<records, kept>>
    BY <1>5 DEF Refused, MsgCleared
  <2>2. Len(flight'[u]) = 0 /\ \A v \in Users \ {u} : flight'[v] = flight[v]
    BY <1>t, <2>1, AnswersAreAwaited DEF Answered
  <2>. QED  BY <1>t, <2>1, <2>2 DEF records
<1>6. ASSUME NEW u \in Users, Stored(u) \/ StoredGarbage(u) \/ NotStored(u)
      PROVE  ReqInv'
  <2>1. /\ Answered(u) /\ msg' = [msg EXCEPT ![u] = FALSE]
        /\ img' = [img EXCEPT ![u] = Name(u)] /\ UNCHANGED <<url, kept>>
    BY <1>6 DEF Stored, StoredGarbage, NotStored, Arrived, MsgCleared
  <2>2. /\ Len(flight'[u]) = 0 /\ u \in kept
        /\ \A v \in Users \ {u} : flight'[v] = flight[v]
    BY <1>t, <2>1, AnswersAreAwaited DEF Answered
  <2>. QED  BY <1>t, <2>1, <2>2
<1>7. ASSUME NEW u \in Users, DrawNone(u) \/ DrawGone(u) PROVE ReqInv'
  <2>1. /\ StartFetch(u) /\ u \in kept /\ UNCHANGED <<url, kept>>
        /\ img' = [img EXCEPT ![u] = None]
    BY <1>t, <1>7 DEF DrawNone, DrawGone, Drawable, records
  <2>2. CASE CanStart(u)
    <3>1. /\ msg[u] = FALSE /\ url[u] \in URLs
          /\ msg' = [msg EXCEPT ![u] = TRUE]
          /\ flight' = [flight EXCEPT ![u] = Append(flight[u], url[u])]
      BY <1>t, <2>1, <2>2 DEF StartFetch, CanStart, Startable
    <3>2. Len(flight[u]) = 0 /\ flight[u] \in Seq(URLs)
      BY <1>t, <3>1
    <3>3. Len(Append(flight[u], url[u])) = 1
      BY <3>1, <3>2
    <3>. QED  BY <1>t, <2>1, <3>1, <3>3
  <2>3. CASE ~CanStart(u)
    BY <1>t, <2>1, <2>3 DEF StartFetch, requests
  <2>. QED  BY <2>2, <2>3
<1>8. CASE EndSession
  <2>1. \A u \in Users : Len(flight'[u]) = 0 /\ msg'[u] = FALSE
    BY <1>8 DEF EndSession
  <2>. QED  BY <1>8, <2>1 DEF EndSession, records
<1>9. CASE Restart
  <2>1. \A u \in Users : Len(flight'[u]) = 0 /\ msg'[u] = FALSE /\ img'[u] = None
    BY <1>9 DEF Restart
  <2>. QED  BY <1>9, <2>1 DEF Restart
<1>10. CASE FreeModel
  BY <1>1, <1>10 DEF FreeModel, LeftOver
<1>11. ASSUME NEW u \in Users, Evict(u) PROVE ReqInv'
  BY <1>4, <1>11 DEF Evict
<1>12. CASE CloseUserCache
  BY <1>4, <1>12 DEF CloseUserCache, Alive
<1>13. ASSUME NEW u \in Users,
              \/ Crash(u) \/ DrawTrimmed(u) \/ DrawUnreadable(u) \/ DrawCached(u)
              \/ \E o \in Objs : Load(u, o)
       PROVE  ReqInv'
  BY <1>1, <1>13 DEF Crash, DrawTrimmed, DrawUnreadable, DrawCached, Load
<1>14. CASE DrawStep
  BY <1>1, <1>14 DEF DrawStep, Retain, BeginPut, StorePut, SetCell
<1>15. ASSUME NEW n \in Names, RemoveFile(n) PROVE ReqInv'
  BY <1>1, <1>15 DEF RemoveFile
<1>16. ASSUME NEW S \in SUBSET Names, MakeRoom(S) PROVE ReqInv'
  BY <1>1, <1>16 DEF MakeRoom
<1>17. CASE UNCHANGED vars
  BY <1>1, <1>17 DEF vars
<1>. QED
  BY <1>2, <1>3, <1>5, <1>6, <1>7, <1>8, <1>9, <1>10, <1>11, <1>12, <1>13,
     <1>14, <1>15, <1>16, <1>17
  DEF Next, Disturbed, Draw, Ending

LEMMA InitialRequests == Init => ReqInv
<1>. SUFFICES ASSUME Init PROVE ReqInv
  OBVIOUS
<1>1. \A u \in Users : Len(flight[u]) = 0 /\ msg[u] = FALSE /\ img[u] = None
  BY DEF Init
<1>. QED  BY <1>1 DEF Init, ReqInv

\* Each request is accounted for, whatever is drawn, answered, delivered and
\* evicted: img_fetch_msg is set exactly while one is in flight.
THEOREM RequestsBalance == Spec => []RequestsAccounted
<1>1. TypeInv /\ ReqInv => RequestsAccounted
  BY DEF ReqInv, RequestsAccounted, Alive
<1>. QED
  BY <1>1, InitialTypes, InitialRequests, StepKeepsTypes, StepKeepsRequests, PTL
  DEF Spec

\* No callback gets a record that is gone, not even at the end of the program.
THEOREM CallbacksMeetUsers == Spec => []CallbackMeetsUser
<1>1. TypeInv /\ ReqInv => CallbackMeetsUser
  <2>. SUFFICES ASSUME TypeInv, ReqInv, NEW u \in Users, flight[u] # <<>>
                PROVE  url[u] # None
    BY DEF CallbackMeetsUser
  <2>1. flight[u] \in Seq(URLs)
    BY DEF TypeInv, TypeOK
  <2>2. Len(flight[u]) # 0
    BY <2>1
  <2>. QED  BY <2>2 DEF ReqInv
<1>. QED
  BY <1>1, InitialTypes, InitialRequests, StepKeepsTypes, StepKeepsRequests, PTL
  DEF Spec

-----------------------------------------------------------------------------
(* Pictures *)

\* What is in file n: its user's picture, if it is one.
FileIsOwn(n) == file[n] \in ({n[1]} \X URLs) \cup {Garbage, None}

\* A cached pixbuf is what its user's name leads to.
EntryIsOwn(n) ==
  entry[n] # None =>
    /\ img[n[1]] = n
    /\ pix[entry[n]] \in {n[1]} \X URLs
    /\ file[n] \in {None, pix[entry[n]]}

\* Who holds references to o: the renderer, and the drawing of a row.
References(o) ==
  (IF o = cell THEN 1 ELSE 0)
    + (IF stage \in {"put", "set"} /\ o = got THEN 1 ELSE 0)

\* What the drawing of a row, in the middle of it, can rely on.
DrawsOwn ==
  stage # "none" =>
    /\ pc = "running" /\ img[drawn] # None
    /\ pix[got] \in {drawn} \X URLs
    /\ stage = "put" => entry[img[drawn]] = None /\ file[img[drawn]] = pix[got]

PicInv ==
  /\ \A n \in Names : FileIsOwn(n) /\ EntryIsOwn(n)
  /\ \A u \in Users : img[u] # None => img[u][1] = u
  /\ cell # None => pix[cell] # None
  /\ \A o \in Objs : refs[o] = References(o)
  /\ DrawsOwn

LEMMA NamesHaveUsers == \A n \in Names : n[1] \in Users
  BY DEF Names

\* A picture, and what is no picture.
LEMMA PicturesAreNotNone ==
  \A v \in Users : \A p \in {v} \X URLs : p # None /\ p # Garbage /\ p \in Pictures
  BY PictureAssumption DEF Pictures

\* Of the pixbufs, those that are still referred to or cached keep what they
\* show.
LEMMA OthersKeepPictures ==
  ASSUME TypeInv, PicInv, Finalized, NEW o \in Objs,
         refs'[o] # 0 \/ \E n \in Names : entry'[n] = o
  PROVE  pix'[o] = pix[o]
  BY DEF Finalized

\* Entries may go: for those that remain, all is as it was, unless their users
\* forget them.
LEMMA EntriesMayGo ==
  ASSUME TypeInv, PicInv, Finalized, UNCHANGED file,
         \A n \in Names : entry[n] # None => img'[n[1]] = n,
         entry' \in [Names -> Objs \cup {None}],
         \A n \in Names : entry'[n] \in {entry[n], None}
  PROVE  \A n \in Names : FileIsOwn(n)' /\ EntryIsOwn(n)'
<1>. SUFFICES ASSUME NEW n \in Names PROVE FileIsOwn(n)' /\ EntryIsOwn(n)'
  OBVIOUS
<1>1. FileIsOwn(n)'
  BY DEF PicInv, FileIsOwn
<1>2. CASE entry'[n] = None
  BY <1>1, <1>2 DEF EntryIsOwn
<1>3. CASE entry'[n] # None
  <2>1. entry'[n] = entry[n] /\ entry[n] \in Objs
    BY <1>3
  <2>2. pix'[entry[n]] = pix[entry[n]]
    BY <2>1, OthersKeepPictures
  <2>. QED  BY <1>1, <1>3, <2>1, <2>2 DEF PicInv, EntryIsOwn
<1>. QED  BY <1>2, <1>3

\* Showing o, which the drawing of a row has one reference to if it is not the
\* default picture, leaves one reference to it and none to anything else.
LEMMA ShowBalances ==
  ASSUME TypeInv, PicInv, NEW o \in Objs \cup {None}, Show(o),
         UNCHANGED file, \A n \in Names : entry[n] # None => img'[n[1]] = n,
         \A p \in Objs : refs[p] = (IF p = cell THEN 1 ELSE 0) + IF p = o THEN 1 ELSE 0,
         o # None => pix[o] # None
  PROVE  /\ \A n \in Names : FileIsOwn(n)' /\ EntryIsOwn(n)'
         /\ cell' # None => pix'[cell'] # None
         /\ \A p \in Objs : refs'[p] = IF p = cell' THEN 1 ELSE 0
<1>t. /\ entry \in [Names -> Objs \cup {None}] /\ refs \in [Objs -> Nat]
      /\ cell \in Objs \cup {None} /\ None \notin Objs
  BY KindAssumption DEF TypeInv, TypeOK
<1>1. /\ \A p \in Objs : refs'[p] = IF p = o THEN 1 ELSE 0
      /\ \A n \in Names : entry'[n] \in {entry[n], None}
  <2>1. CASE cell = None
    BY <1>t, <2>1 DEF Show, cache
  <2>2. CASE cell # None
    <3>1. Cache!Release(cell)
      BY <2>2 DEF Show
    <3>2. refs' = [refs EXCEPT ![cell] = refs[cell] - 1]
      BY <3>1 DEF Cache!Release
    <3>3. \A n \in Names : entry'[n] \in {entry[n], None}
      BY <1>t, <3>1 DEF Cache!Release
    <3>. QED  BY <1>t, <3>2, <3>3
  <2>. QED  BY <2>1, <2>2
<1>2. cell' = o /\ Finalized
  BY DEF Show
<1>3. entry' \in [Names -> Objs \cup {None}]
  BY ShowKeepsTypes DEF CacheTypes
<1>4. o # None => pix'[o] = pix[o]
  BY <1>1, <1>2, OthersKeepPictures
<1>. QED  BY <1>1, <1>2, <1>3, <1>4, EntriesMayGo

\* Disposing of users who are in no row forgets no picture's name; the cache is
\* left as it is or emptied.
LEMMA DisposeKeepsPictures ==
  ASSUME TypeInv, ReqInv, PicInv, NEW S \in SUBSET Users, S \cap kept = {},
         Dispose(S), stage = "none", UNCHANGED <<file, drawing, cell>>
  PROVE  PicInv'
<1>t. /\ entry \in [Names -> Objs \cup {None}] /\ refs \in [Objs -> Nat]
      /\ img \in [Users -> Names \cup {None}] /\ cell \in Objs \cup {None}
  BY DEF TypeInv, TypeOK
<1>1. img' = img
  BY <1>t DEF Dispose, ReqInv
<1>2. /\ refs' = refs /\ entry' \in [Names -> Objs \cup {None}]
      /\ \A n \in Names : entry'[n] \in {entry[n], None}
  BY <1>t DEF Dispose, Cache!Close, cache
<1>3. Finalized /\ stage' = "none" /\ got' = got /\ cell' = cell
  BY DEF Dispose, drawing
<1>4. \A n \in Names : FileIsOwn(n)' /\ EntryIsOwn(n)'
  <2>1. \A n \in Names : entry[n] # None => img'[n[1]] = n
    BY <1>1 DEF PicInv, EntryIsOwn
  <2>. QED  BY <1>2, <1>3, <2>1, EntriesMayGo
<1>5. \A o \in Objs : refs'[o] = References(o)'
  BY <1>2, <1>3 DEF PicInv, References
<1>6. cell' # None => pix'[cell'] # None
  <2>. SUFFICES ASSUME cell # None PROVE pix'[cell] # None
    BY <1>3
  <2>1. refs'[cell] # 0
    BY <1>t, <1>2, <1>3 DEF PicInv, References
  <2>. QED  BY <1>t, <1>3, <2>1, OthersKeepPictures DEF PicInv
<1>. QED  BY <1>1, <1>3, <1>4, <1>5, <1>6 DEF PicInv, DrawsOwn

\* So does drawing a row that ends up with the default picture, its user's name
\* forgotten or not.
LEMMA DefaultKeepsPictures ==
  ASSUME TypeInv, PicInv, Show(None), stage = "none",
         UNCHANGED <<file, drawing>>,
         \/ UNCHANGED img
         \/ \E u \in Users : /\ img[u] # None /\ entry[img[u]] = None
                             /\ img' = [img EXCEPT ![u] = None]
  PROVE  PicInv'
<1>t. /\ img \in [Users -> Names \cup {None}] /\ cell \in Objs \cup {None}
      /\ None \notin Objs
  BY KindAssumption DEF TypeInv, TypeOK
<1>1. stage' = "none" /\ got' = got
  BY DEF drawing
<1>2. \A p \in Objs : refs[p] = (IF p = cell THEN 1 ELSE 0) + IF p = None THEN 1 ELSE 0
  BY <1>t DEF PicInv, References
<1>3. \A n \in Names : entry[n] # None => img'[n[1]] = n
  BY <1>t, NamesHaveUsers DEF PicInv, EntryIsOwn
<1>4. \A u \in Users : img'[u] # None => img'[u][1] = u
  BY <1>t DEF PicInv
<1>5. /\ \A n \in Names : FileIsOwn(n)' /\ EntryIsOwn(n)'
      /\ cell' # None => pix'[cell'] # None
      /\ \A p \in Objs : refs'[p] = IF p = cell' THEN 1 ELSE 0
  BY <1>2, <1>3, ShowBalances
<1>6. \A p \in Objs : refs'[p] = References(p)'
  BY <1>1, <1>5 DEF References
<1>. QED  BY <1>1, <1>4, <1>5, <1>6 DEF PicInv, DrawsOwn

\* What is stored for u is under a name that nothing is cached for.
LEMMA StoringKeepsPictures ==
  ASSUME TypeInv, ReqInv, PicInv, NEW u \in Users,
         Stored(u) \/ StoredGarbage(u) \/ NotStored(u)
  PROVE  PicInv'
<1>t. /\ img \in [Users -> Names \cup {None}]
      /\ file \in [Names -> Pictures \cup {Garbage, None}]
  BY DEF TypeInv, TypeOK
<1>1. /\ Answered(u) /\ stage = "none" /\ Name(u) \in Names /\ Name(u)[1] = u
      /\ Head(flight[u]) \in URLs /\ img[u] = None
  <2>1. Answered(u) /\ url[u] \in URLs
    BY DEF Stored, StoredGarbage, NotStored, Arrived
  <2>. QED
    BY <2>1, AnswersAreTyped, AnswersAreAwaited, NamesAreNames
    DEF Answered, Idle, Name
<1>2. /\ img' = [img EXCEPT ![u] = Name(u)]
      /\ UNCHANGED <<cache, pix, drawing, cell, pc>>
  BY DEF Stored, StoredGarbage, NotStored, Arrived
<1>3. /\ \A n \in Names \ {Name(u)} : file'[n] = file[n]
      /\ file'[Name(u)] \in ({u} \X URLs) \cup {Garbage, file[Name(u)]}
  BY <1>t, <1>1 DEF Stored, StoredGarbage, NotStored, Arrived
<1>4. \A n \in Names : FileIsOwn(n)'
  BY <1>1, <1>3 DEF PicInv, FileIsOwn
<1>5. \A n \in Names : EntryIsOwn(n)'
  <2>. SUFFICES ASSUME NEW n \in Names, entry[n] # None PROVE EntryIsOwn(n)'
    BY <1>2 DEF cache, EntryIsOwn
  <2>1. img[n[1]] = n /\ n # None
    BY PictureAssumption DEF PicInv, EntryIsOwn
  <2>2. n[1] # u /\ n # Name(u)
    BY <1>1, <2>1
  <2>. QED
    BY <1>t, <1>2, <1>3, <2>1, <2>2, NamesHaveUsers DEF cache, PicInv, EntryIsOwn
<1>6. \A v \in Users : img'[v] # None => img'[v][1] = v
  BY <1>t, <1>1, <1>2 DEF PicInv
<1>7. UNCHANGED <<refs, pix, cell, stage, got>>
  BY <1>2 DEF cache, drawing
<1>8. \A o \in Objs : refs'[o] = References(o)'
  BY <1>7 DEF PicInv, References
<1>. QED  BY <1>1, <1>4, <1>5, <1>6, <1>7, <1>8 DEF PicInv, DrawsOwn

\* The steps of drawing a row that has a picture.
LEMMA CachedKeepsPictures ==
  ASSUME TypeInv, PicInv, NEW u \in Users, DrawCached(u)
  PROVE  PicInv'
<1>t. img \in [Users -> Names \cup {None}] /\ None \notin Objs
  BY KindAssumption DEF TypeInv, TypeOK
<1>1. /\ img[u] \in Names /\ img[u] # None /\ img[u][1] = u
      /\ entry[img[u]] # None
      /\ stage = "none" /\ pc = "running"
      /\ stage' = "retain" /\ drawn' = u /\ got' = entry[img[u]]
      /\ UNCHANGED <<entry, refs, img, file, pix, cell, pc>>
  BY <1>t DEF DrawCached, Drawable, Idle, Cache!Lookup, records, PicInv
<1>2. pix[entry[img[u]]] \in {u} \X URLs
  BY <1>1 DEF PicInv, EntryIsOwn
<1>3. \A o \in Objs : refs'[o] = References(o)'
  BY <1>1 DEF PicInv, References
<1>4. \A n \in Names : FileIsOwn(n)' /\ EntryIsOwn(n)'
  BY <1>1 DEF PicInv, FileIsOwn, EntryIsOwn
<1>5. DrawsOwn'
  BY <1>1, <1>2 DEF DrawsOwn
<1>6. /\ \A v \in Users : img'[v] # None => img'[v][1] = v
      /\ cell' # None => pix'[cell'] # None
  BY <1>1 DEF PicInv
<1>. QED  BY <1>3, <1>4, <1>5, <1>6 DEF PicInv

LEMMA RetainKeepsPictures ==
  ASSUME TypeInv, PicInv, Retain
  PROVE  PicInv'
<1>t. refs \in [Objs -> Nat] /\ got \in Objs
  BY DEF TypeInv, TypeOK, Retain
<1>1. /\ stage = "retain" /\ stage' = "set" /\ refs' = [refs EXCEPT ![got] = refs[got] + 1]
      /\ UNCHANGED <<entry, img, file, pix, cell, drawn, got, pc>>
  BY DEF Retain, Retained, Cache!Acquire, records
<1>2. \A o \in Objs : refs'[o] = References(o)'
  BY <1>t, <1>1 DEF PicInv, References
<1>3. \A n \in Names : FileIsOwn(n)' /\ EntryIsOwn(n)'
  BY <1>1 DEF PicInv, FileIsOwn, EntryIsOwn
<1>4. DrawsOwn'
  BY <1>1 DEF PicInv, DrawsOwn
<1>. QED  BY <1>1, <1>2, <1>3, <1>4 DEF PicInv

LEMMA LoadKeepsPictures ==
  ASSUME TypeInv, PicInv, NEW u \in Users, NEW o \in Objs, Load(u, o)
  PROVE  PicInv'
<1>t. /\ img \in [Users -> Names \cup {None}] /\ refs \in [Objs -> Nat]
      /\ pix \in [Objs -> Pictures \cup {None}] /\ None \notin Objs
      /\ entry \in [Names -> Objs \cup {None}]
  BY KindAssumption DEF TypeInv, TypeOK
<1>1. /\ img[u] \in Names /\ img[u] # None /\ img[u][1] = u
      /\ entry[img[u]] = None /\ pix[o] = None
      /\ stage = "none" /\ pc = "running" /\ file[img[u]] \in Pictures
      /\ refs' = [refs EXCEPT ![o] = refs[o] + 1]
      /\ pix' = [pix EXCEPT ![o] = file[img[u]]]
      /\ stage' = "put" /\ drawn' = u /\ got' = o
      /\ UNCHANGED <<entry, img, file, cell, pc>>
  BY <1>t DEF Load, Drawable, Idle, Cache!Acquire, records, PicInv
<1>2. file[img[u]] \in {u} \X URLs
  BY <1>1, PictureAssumption DEF PicInv, FileIsOwn
<1>3. \A n \in Names : entry[n] # o
  BY <1>1, <1>t, NamesHaveUsers, PicturesAreNotNone DEF PicInv, EntryIsOwn
<1>4. \A n \in Names : FileIsOwn(n)' /\ EntryIsOwn(n)'
  BY <1>t, <1>1, <1>3 DEF PicInv, FileIsOwn, EntryIsOwn
<1>5. cell # o
  BY <1>t, <1>1 DEF PicInv
<1>6. \A p \in Objs : refs'[p] = References(p)'
  BY <1>t, <1>1, <1>5 DEF PicInv, References
<1>7. cell' # None => pix'[cell'] # None
  <2>1. cell # None => cell \in Objs
    BY DEF TypeInv, TypeOK
  <2>. QED  BY <1>t, <1>1, <1>5, <2>1 DEF PicInv
<1>8. DrawsOwn'
  BY <1>t, <1>1, <1>2 DEF DrawsOwn
<1>9. \A v \in Users : img'[v] # None => img'[v][1] = v
  BY <1>1 DEF PicInv
<1>. QED  BY <1>4, <1>6, <1>7, <1>8, <1>9 DEF PicInv

LEMMA MakingRoomKeepsPictures ==
  ASSUME TypeInv, PicInv, NEW S \in SUBSET Names, MakeRoom(S)
  PROVE  PicInv'
<1>t. /\ entry \in [Names -> Objs \cup {None}] /\ img \in [Users -> Names \cup {None}]
      /\ got \in Objs /\ drawn \in Users /\ stage = "put" /\ cell \in Objs \cup {None}
  BY DEF TypeInv, TypeOK, MakeRoom
<1>1. /\ entry' = [n \in Names |-> IF n \in S THEN None ELSE entry[n]]
      /\ Finalized
      /\ UNCHANGED <<refs, img, file, drawn, got, stage, cell, pc>>
  BY DEF MakeRoom, Cache!Replace, records, drawing
<1>2. \A n \in Names : FileIsOwn(n)' /\ EntryIsOwn(n)'
  <2>1. \A n \in Names : entry[n] # None => img'[n[1]] = n
    BY <1>1 DEF PicInv, EntryIsOwn
  <2>2. /\ \A n \in Names : entry'[n] \in {entry[n], None}
        /\ entry' \in [Names -> Objs \cup {None}]
    BY <1>t, <1>1
  <2>. QED  BY <1>1, <2>1, <2>2, EntriesMayGo
<1>3. refs[got] # 0 /\ (cell # None => refs[cell] # 0)
  BY <1>t DEF PicInv, References
<1>4. pix'[got] = pix[got] /\ (cell # None => pix'[cell] = pix[cell])
  BY <1>t, <1>1, <1>3, OthersKeepPictures
<1>5. \A o \in Objs : refs'[o] = References(o)'
  BY <1>1 DEF PicInv, References
<1>6. DrawsOwn'
  <2>1. img[drawn] \in Names /\ entry'[img[drawn]] = None
    BY <1>t, <1>1 DEF PicInv, DrawsOwn
  <2>. QED  BY <1>t, <1>1, <1>4, <2>1 DEF PicInv, DrawsOwn
<1>. QED  BY <1>1, <1>2, <1>4, <1>5, <1>6 DEF PicInv

LEMMA StoringPixbufKeepsPictures ==
  ASSUME TypeInv, PicInv, StorePut
  PROVE  PicInv'
<1>t. /\ entry \in [Names -> Objs \cup {None}] /\ img \in [Users -> Names \cup {None}]
      /\ got \in Objs /\ drawn \in Users /\ None \notin Objs
  BY KindAssumption DEF TypeInv, TypeOK, StorePut
<1>1. /\ stage = "put" /\ stage' = "set" /\ entry' = [entry EXCEPT ![img[drawn]] = got]
      /\ UNCHANGED <<refs, img, file, pix, cell, drawn, got, pc>>
  BY DEF StorePut, Cache!Store, records
<1>2. /\ img[drawn] \in Names /\ img[drawn][1] = drawn
      /\ pix[got] \in {drawn} \X URLs /\ file[img[drawn]] = pix[got]
  BY <1>t, <1>1 DEF PicInv, DrawsOwn
<1>3. \A n \in Names : FileIsOwn(n)' /\ EntryIsOwn(n)'
  BY <1>t, <1>1, <1>2 DEF PicInv, FileIsOwn, EntryIsOwn
<1>4. \A o \in Objs : refs'[o] = References(o)'
  BY <1>1 DEF PicInv, References
<1>5. DrawsOwn'
  BY <1>1 DEF PicInv, DrawsOwn
<1>. QED  BY <1>1, <1>3, <1>4, <1>5 DEF PicInv

LEMMA SettingKeepsPictures ==
  ASSUME TypeInv, PicInv, SetCell
  PROVE  PicInv'
<1>t. got \in Objs /\ None \notin Objs
  BY KindAssumption DEF TypeInv, SetCell
<1>1. /\ Show(got) /\ stage = "set" /\ stage' = "none"
      /\ UNCHANGED <<img, file, pc>>
  BY DEF SetCell, records
<1>2. pix[got] # None
  <2>1. drawn \in Users /\ pix[got] \in {drawn} \X URLs
    BY <1>1 DEF TypeInv, PicInv, DrawsOwn
  <2>. QED  BY <2>1, PicturesAreNotNone
<1>3. \A p \in Objs : refs[p] = (IF p = cell THEN 1 ELSE 0) + IF p = got THEN 1 ELSE 0
  BY <1>1 DEF PicInv, References
<1>4. /\ \A n \in Names : FileIsOwn(n)' /\ EntryIsOwn(n)'
      /\ cell' # None => pix'[cell'] # None
      /\ \A p \in Objs : refs'[p] = IF p = cell' THEN 1 ELSE 0
  <2>1. \A n \in Names : entry[n] # None => img'[n[1]] = n
    BY <1>1 DEF PicInv, EntryIsOwn
  <2>. QED  BY <1>t, <1>1, <1>2, <1>3, <2>1, ShowBalances
<1>5. \A p \in Objs : refs'[p] = References(p)'
  BY <1>1, <1>4 DEF References
<1>. QED  BY <1>1, <1>4, <1>5 DEF PicInv, DrawsOwn

\* A step that leaves alone all that PicInv is about keeps it.
LEMMA PicturesUntouched ==
  ASSUME PicInv, UNCHANGED <<entry, refs, img, file, pix, cell, drawing, pc>>
  PROVE  PicInv'
  BY DEF PicInv, FileIsOwn, EntryIsOwn, References, DrawsOwn, drawing

\* So does one that leaves a row undrawn, and a file that goes away.
LEMMA IdlePicturesUntouched ==
  ASSUME PicInv, UNCHANGED <<entry, refs, img, pix, cell, drawing>>,
         stage = "none", \A n \in Names : file'[n] \in {file[n], None}
  PROVE  PicInv'
<1>1. \A n \in Names : FileIsOwn(n)' /\ EntryIsOwn(n)'
  BY DEF PicInv, FileIsOwn, EntryIsOwn
<1>2. \A o \in Objs : refs'[o] = References(o)'
  BY DEF PicInv, References, drawing
<1>3. DrawsOwn'
  BY DEF DrawsOwn, drawing
<1>. QED  BY <1>1, <1>2, <1>3 DEF PicInv

\* A row is drawn only while the program runs, so that its end finds none.
LEMMA NoneDrawnAtEnd == PicInv /\ pc # "running" => stage = "none"
  BY DEF PicInv, DrawsOwn

\* Every step keeps PicInv.
LEMMA StepKeepsPictures == TypeInv /\ ReqInv /\ PicInv /\ [Next]_vars => PicInv'
<1>. SUFFICES ASSUME TypeInv, ReqInv, PicInv, [Next]_vars PROVE PicInv'
  OBVIOUS
<1>t. file \in [Names -> Pictures \cup {Garbage, None}] /\ img \in [Users -> Names \cup {None}]
  BY DEF TypeInv, TypeOK
<1>1. ASSUME NEW u \in Users, NEW j \in URLsOf[u] \cup {NoURL, Trimmed}, Deliver(u, j)
      PROVE  PicInv'
  BY <1>1, PicturesUntouched DEF Deliver, ImgAfterJson
<1>2. ASSUME NEW n \in Names, RemoveFile(n) PROVE PicInv'
  <2>1. \A k \in Names : file'[k] \in {file[k], None}
    BY <1>t, <1>2 DEF RemoveFile
  <2>. QED  BY <1>2, <2>1, IdlePicturesUntouched DEF RemoveFile, Idle, cache, records
<1>3. CASE FreeModel
  BY <1>3, DefaultKeepsPictures DEF FreeModel, Idle, records
<1>4. CASE Restart
  <2>1. \A n \in Names : FileIsOwn(n)' /\ EntryIsOwn(n)'
    BY <1>4 DEF Restart, PicInv, FileIsOwn, EntryIsOwn
  <2>2. \A o \in Objs : refs'[o] = References(o)'
    BY <1>4, KindAssumption DEF Restart, References
  <2>. QED  BY <1>4, <2>1, <2>2 DEF Restart, PicInv, DrawsOwn
<1>5. ASSUME NEW u \in Users, Insert(u) PROVE PicInv'
  BY <1>5, PicturesUntouched DEF Insert, cache, records
<1>6. ASSUME NEW u \in Users, Evict(u) PROVE PicInv'
  <2>1. {u} \in SUBSET Users /\ {u} \cap kept = {}
    BY <1>6 DEF Evict
  <2>. QED  BY <1>6, <2>1, DisposeKeepsPictures DEF Evict, Idle
<1>7. ASSUME NEW u \in Users, Refused(u) PROVE PicInv'
  BY <1>7, PicturesUntouched DEF Refused, cache, records
<1>8. ASSUME NEW u \in Users, Stored(u) \/ StoredGarbage(u) \/ NotStored(u)
      PROVE  PicInv'
  BY <1>8, StoringKeepsPictures
<1>9. ASSUME NEW u \in Users, Crash(u) PROVE PicInv'
  BY <1>9, <1>t, IdlePicturesUntouched DEF Crash, Idle, cache, records
<1>10. ASSUME NEW u \in Users, DrawTrimmed(u) \/ DrawUnreadable(u) \/ DrawNone(u)
       PROVE  PicInv'
  BY <1>10, DefaultKeepsPictures
  DEF DrawTrimmed, DrawUnreadable, DrawNone, Drawable, Idle, records
<1>11. ASSUME NEW u \in Users, DrawGone(u) PROVE PicInv'
  BY <1>11, DefaultKeepsPictures DEF DrawGone, Drawable, Idle
<1>12. ASSUME NEW u \in Users, DrawCached(u) \/ \E o \in Objs : Load(u, o)
       PROVE  PicInv'
  BY <1>12, CachedKeepsPictures, LoadKeepsPictures
<1>13. CASE BeginPut
  BY <1>13, PicturesUntouched DEF BeginPut, Cache!BeginPut, records
<1>14. ASSUME NEW S \in SUBSET Names, MakeRoom(S) PROVE PicInv'
  BY <1>14, MakingRoomKeepsPictures
<1>15. CASE CloseUserCache
  <2>1. /\ Dispose(Alive \ kept) /\ Alive \ kept \in SUBSET Users
        /\ (Alive \ kept) \cap kept = {}
    BY <1>15 DEF CloseUserCache, Alive
  <2>. QED
    BY <1>15, <2>1, NoneDrawnAtEnd, DisposeKeepsPictures DEF CloseUserCache
<1>16. CASE EndSession
  BY <1>16, <1>t, NoneDrawnAtEnd, IdlePicturesUntouched DEF EndSession, cache, records
<1>17. CASE UNCHANGED vars
  BY <1>17, PicturesUntouched DEF vars, cache, records
<1>. QED
  BY <1>1, <1>2, <1>3, <1>4, <1>5, <1>6, <1>7, <1>8, <1>9, <1>10, <1>11, <1>12,
     <1>13, <1>14, <1>15, <1>16, <1>17, RetainKeepsPictures,
     StoringPixbufKeepsPictures, SettingKeepsPictures
  DEF Next, Disturbed, Draw, DrawStep, Ending

LEMMA InitialPictures == Init => PicInv
<1>. SUFFICES ASSUME Init PROVE PicInv
  OBVIOUS
<1>1. \A n \in Names : FileIsOwn(n) /\ EntryIsOwn(n)
  BY DEF Init, Cache!Init, FileIsOwn, EntryIsOwn
<1>2. \A o \in Objs : refs[o] = References(o)
  BY KindAssumption DEF Init, Cache!Init, References
<1>. QED  BY <1>1, <1>2 DEF Init, PicInv, DrawsOwn

LEMMA PictureInvariant == Spec => [](TypeInv /\ ReqInv /\ PicInv)
<1>1. Init => TypeInv /\ ReqInv /\ PicInv
  BY InitialTypes, InitialRequests, InitialPictures
<1>2. TypeInv /\ ReqInv /\ PicInv /\ [Next]_vars => (TypeInv /\ ReqInv /\ PicInv)'
  BY StepKeepsTypes, StepKeepsRequests, StepKeepsPictures
<1>. QED  BY <1>1, <1>2, PTL DEF Spec

\* A row never shows another user's picture, whatever was fetched, stored,
\* evicted, removed and loaded before it is drawn.
THEOREM RowsShowOwnPictures == Spec => []OwnPicture
<1>1. PicInv => OwnPicture
  BY DEF PicInv, DrawsOwn, OwnPicture
<1>. QED  BY <1>1, PictureInvariant, PTL

\* A cached pixbuf is that of its user's file, unless the file has gone.
THEOREM CacheAgreesWithFiles == Spec => []CachedIsStored
<1>1. PicInv => CachedIsStored
  BY NamesHaveUsers DEF PicInv, EntryIsOwn, CachedIsStored
<1>. QED  BY <1>1, PictureInvariant, PTL

\* Drawing leaks no pixbuf and gives none up too often.
THEOREM DrawingBalances == Spec => []PixbufsBalanced
<1>1. PicInv => PixbufsBalanced
  BY DEF PicInv, References, PixbufsBalanced
<1>. QED  BY <1>1, PictureInvariant, PTL

-----------------------------------------------------------------------------
(* The supply of pictures *)

\* What is on display and what a row in the middle of its drawing has found
\* are in the stock.
LEMMA SupplyIsSecured == TypeInv /\ PicInv => Supply!Secured
<1>. SUFFICES ASSUME TypeInv, PicInv PROVE Supply!Secured
  OBVIOUS
<1>t. pix \in [Objs -> Pictures \cup {None}] /\ cell \in Objs \cup {None}
  BY DEF TypeInv, TypeOK
<1>1. Shown \in Stock \cup {None}
  <2>. SUFFICES ASSUME cell # None PROVE pix[cell] \in Stock
    BY DEF Shown
  <2>1. cell \in Objs /\ pix[cell] # None
    BY <1>t DEF PicInv
  <2>2. pix[cell] \in Pictures
    BY <1>t, <2>1
  <2>. QED  BY <2>1, <2>2 DEF Stock
<1>2. ASSUME Found # None PROVE Supply!OfUser(Found) # {}
  <2>1. /\ stage # "none" /\ Found = drawn
        /\ got \in Objs /\ drawn \in Users /\ pix[got] \in {drawn} \X URLs
    BY <1>2 DEF Found, TypeInv, PicInv, DrawsOwn
  <2>2. pix[got] \in Pictures
    BY <2>1, PicturesAreNotNone
  <2>3. pix[got] \in Stock
    BY <2>1, <2>2 DEF Stock
  <2>. QED  BY <2>1, <2>3 DEF Supply!OfUser
<1>. QED  BY <1>1, <1>2 DEF Supply!Secured

\* The stock shrinks when files and pixbufs only go.
LEMMA StockShrinks ==
  ASSUME \A n \in Names : file'[n] \in {file[n], None},
         \A o \in Objs : pix'[o] \in {pix[o], None}
  PROVE  Stock' \subseteq Stock
  BY PictureAssumption DEF Stock

LEMMA FinalizedOnlyGo ==
  ASSUME Finalized
  PROVE  \A o \in Objs : pix'[o] \in {pix[o], None}
  BY DEF Finalized

\* Nothing is asked for when no request is in flight.
LEMMA NoneAsked ==
  ASSUME flight' = [u \in Users |-> <<>>]
  PROVE  Asked' = [u \in Users |-> None]
  BY DEF Asked

\* Steps that neither draw a row nor have to do with requests lose pictures at
\* most.
LEMMA LosingSteps ==
  ASSUME Supply!Secured', Shown' = Shown, UNCHANGED <<flight, drawing>>,
         \A n \in Names : file'[n] \in {file[n], None},
         \A o \in Objs : pix'[o] \in {pix[o], None}
  PROVE  Supply!Lose
<1>1. Asked' = Asked /\ Found' = Found
  BY DEF Asked, Found, drawing
<1>2. Stock' \subseteq Stock
  BY StockShrinks
<1>. QED  BY <1>1, <1>2 DEF Supply!Lose, Supply!Shrink

\* A pixbuf on display that is not finalized shows what it did.
LEMMA DisplayStays ==
  ASSUME TypeInv, PicInv, Finalized, UNCHANGED <<refs, cell>>
  PROVE  Shown' = Shown
<1>1. CASE cell = None
  BY <1>1 DEF Shown
<1>2. CASE cell # None
  <2>1. cell \in Objs
    BY <1>2 DEF TypeInv, TypeOK
  <2>2. refs'[cell] # 0
    BY <2>1 DEF PicInv, References
  <2>3. pix'[cell] = pix[cell]
    BY <2>1, <2>2, OthersKeepPictures
  <2>. QED  BY <2>3 DEF Shown
<1>. QED  BY <1>1, <1>2

\* A row that gets the default picture, whether it asks for a picture or not.
LEMMA DefaultSteps ==
  ASSUME TypeInv, ReqInv, Supply!Secured', Show(None), stage = "none",
         UNCHANGED <<file, drawing>>,
         \/ UNCHANGED flight
         \/ \E u \in kept : StartFetch(u)
  PROVE  Supply!ShowDefault
<1>t. flight \in [Users -> Seq(URLs)] /\ kept \subseteq Users
  BY DEF TypeInv, TypeOK
<1>1. Found = None /\ Found' = Found /\ Shown' = None
  BY DEF Found, Shown, drawing, Show
<1>2. Stock' \subseteq Stock
  BY FinalizedOnlyGo, StockShrinks DEF Show
<1>3. \/ Asked' = Asked
      \/ \E u \in Users, l \in URLs :
           Asked[u] = None /\ Asked' = [Asked EXCEPT ![u] = l]
  <2>1. CASE UNCHANGED flight
    BY <2>1 DEF Asked
  <2>2. ASSUME NEW u \in kept, StartFetch(u), CanStart(u)
        PROVE  /\ u \in Users /\ url[u] \in URLs
               /\ Asked[u] = None /\ Asked' = [Asked EXCEPT ![u] = url[u]]
    <3>1. u \in Users /\ url[u] \in URLs /\ ~msg[u]
      BY <1>t, <2>2 DEF CanStart, Startable
    <3>2. flight[u] \in Seq(URLs) /\ Len(flight[u]) = 0
      BY <1>t, <3>1 DEF ReqInv
    <3>3. flight[u] = <<>>
      BY <3>2
    <3>4. flight' = [flight EXCEPT ![u] = Append(<<>>, url[u])]
      BY <2>2, <3>3 DEF StartFetch
    <3>5. Append(<<>>, url[u]) # <<>> /\ Head(Append(<<>>, url[u])) = url[u]
      OBVIOUS
    <3>. QED  BY <1>t, <3>1, <3>3, <3>4, <3>5 DEF Asked
  <2>3. ASSUME NEW u \in kept, StartFetch(u), ~CanStart(u) PROVE Asked' = Asked
    BY <2>3 DEF StartFetch, requests, Asked
  <2>. QED  BY <2>1, <2>2, <2>3
<1>. QED  BY <1>1, <1>2, <1>3 DEF Supply!ShowDefault, Supply!Shrink

\* Only the picture that was asked for may come in with an answer, and only for
\* who asked.
LEMMA AnswerSteps ==
  ASSUME TypeInv, ReqInv, Supply!Secured', NEW u \in Users,
         Refused(u) \/ Stored(u) \/ StoredGarbage(u) \/ NotStored(u)
  PROVE  Supply!Answer(u)
<1>t. /\ flight \in [Users -> Seq(URLs)]
      /\ file \in [Names -> Pictures \cup {Garbage, None}]
  BY DEF TypeInv, TypeOK
<1>1. Answered(u) /\ UNCHANGED <<pix, cell, drawing>>
  BY DEF Refused, Stored, StoredGarbage, NotStored, Arrived
<1>2. /\ flight[u] # <<>> /\ Asked[u] = Head(flight[u]) /\ Head(flight[u]) \in URLs
      /\ flight' = [flight EXCEPT ![u] = Tail(flight[u])]
      /\ flight'[u] \in Seq(URLs) /\ Len(flight'[u]) = 0
  BY <1>1, AnswersAreTyped, AnswersAreAwaited DEF Answered, Asked
<1>3. flight' = [flight EXCEPT ![u] = <<>>]
  <2>1. flight'[u] = Tail(flight[u])
    BY <1>t, <1>2
  <2>2. Tail(flight[u]) = <<>>
    BY <1>2, <2>1
  <2>. QED  BY <1>2, <2>2
<1>4. Asked[u] # None /\ Asked' = [Asked EXCEPT ![u] = None]
  BY <1>t, <1>2, <1>3, KindAssumption DEF Asked
<1>5. Found = None /\ Found' = Found /\ Shown' = Shown
  BY <1>1 DEF Answered, Idle, Found, Shown, drawing
<1>6. \A n \in Names : file'[n] \in {file[n], Garbage, <<u, Asked[u]>>}
  BY <1>t, <1>2 DEF Refused, Stored, StoredGarbage, NotStored, Arrived
<1>7. Stock' \subseteq Stock \cup {<<u, Asked[u]>>}
  BY <1>1, <1>6, PictureAssumption DEF Stock
<1>. QED  BY <1>4, <1>5, <1>7 DEF Supply!Answer

\* A picture that is found was in the stock before it was loaded.
LEMMA FindingSteps ==
  ASSUME TypeInv, PicInv, Supply!Secured', NEW u \in Users,
         DrawCached(u) \/ \E o \in Objs : Load(u, o)
  PROVE  Supply!Find(u)
<1>t. /\ img \in [Users -> Names \cup {None}] /\ None \notin Users
      /\ entry \in [Names -> Objs \cup {None}]
      /\ file \in [Names -> Pictures \cup {Garbage, None}]
      /\ pix \in [Objs -> Pictures \cup {None}]
  BY KindAssumption DEF TypeInv, TypeOK
<1>1. /\ Idle /\ img[u] \in Names /\ img[u][1] = u
      /\ stage' = "put" \/ stage' = "retain"
      /\ drawn' = u /\ UNCHANGED <<flight, file, cell>>
  BY <1>t DEF DrawCached, Load, Drawable, requests, PicInv
<1>2. Found = None /\ Found' = u /\ Asked' = Asked
  BY <1>1 DEF Idle, Found, Asked
<1>3. CASE DrawCached(u)
  <2>1. entry[img[u]] \in Objs /\ pix[entry[img[u]]] \in {u} \X URLs /\ pix' = pix
    BY <1>t, <1>1, <1>3 DEF DrawCached, PicInv, EntryIsOwn
  <2>2. pix[entry[img[u]]] \in Stock
    BY <2>1, PicturesAreNotNone DEF Stock
  <2>3. Stock' = Stock /\ Shown' = Shown
    BY <1>1, <2>1 DEF Stock, Shown
  <2>. QED
    BY <1>2, <2>1, <2>2, <2>3 DEF Supply!Find, Supply!OfUser, Supply!Shrink
<1>4. ASSUME NEW o \in Objs, Load(u, o) PROVE Supply!Find(u)
  <2>1. /\ file[img[u]] \in Pictures /\ pix[o] = None
        /\ pix' = [pix EXCEPT ![o] = file[img[u]]]
    BY <1>4 DEF Load
  <2>2. file[img[u]] \in {u} \X URLs
    BY <1>1, <2>1, PictureAssumption DEF PicInv, FileIsOwn
  <2>3. file[img[u]] \in Stock
    BY <1>1, <2>1 DEF Stock
  <2>4. \A p \in Objs : pix'[p] \in {pix[p], file[img[u]]}
    BY <1>t, <2>1
  <2>5. Stock' \subseteq Stock
    BY <1>1, <2>3, <2>4 DEF Stock
  <2>6. Shown' = Shown
    BY <1>t, <1>1, <2>1 DEF Shown, PicInv
  <2>. QED
    BY <1>2, <2>2, <2>3, <2>5, <2>6 DEF Supply!Find, Supply!OfUser, Supply!Shrink
<1>. QED  BY <1>3, <1>4

\* The pixbuf in hand is shown, and is not finalized with the one shown before.
LEMMA ShowingSteps ==
  ASSUME TypeInv, PicInv, Supply!Secured', SetCell
  PROVE  Supply!Show
<1>t. got \in Objs /\ drawn \in Users /\ None \notin Users \cup Objs
  BY KindAssumption DEF TypeInv, SetCell
<1>1. /\ stage = "set" /\ stage' = "none" /\ Show(got) /\ cell' = got
      /\ Finalized /\ UNCHANGED <<flight, file>>
  BY DEF SetCell, Show, requests
<1>2. Found = drawn /\ Found' = None /\ Asked' = Asked
  BY <1>1 DEF Found, Asked
<1>3. pix[got] \in {drawn} \X URLs
  BY <1>1 DEF PicInv, DrawsOwn
<1>4. pix[got] \in Stock
  BY <1>t, <1>3, PicturesAreNotNone DEF Stock
<1>5. Stock' \subseteq Stock
  BY <1>1, FinalizedOnlyGo, StockShrinks
<1>6. Shown' = pix[got]
  <2>1. Shown' = pix'[got]
    BY <1>t, <1>1 DEF Shown
  <2>2. refs'[got] # 0
    <3>1. refs \in [Objs -> Nat] /\ cell \in Objs \cup {None}
      BY DEF TypeInv, TypeOK
    <3>2. refs[got] = (IF got = cell THEN 1 ELSE 0) + 1
      BY <1>t, <1>1 DEF PicInv, References
    <3>3. CASE cell = None
      BY <1>1, <1>t, <3>2, <3>3 DEF Show, cache
    <3>4. CASE cell # None
      <4>1. refs' = [refs EXCEPT ![cell] = refs[cell] - 1]
        BY <1>1, <3>4 DEF Show, Cache!Release
      <4>. QED  BY <1>t, <3>1, <3>2, <4>1
    <3>. QED  BY <3>3, <3>4
  <2>3. pix'[got] = pix[got]
    BY <1>t, <1>1, <2>2, OthersKeepPictures
  <2>. QED  BY <2>1, <2>3
<1>. QED
  BY <1>t, <1>2, <1>3, <1>4, <1>5, <1>6 DEF Supply!Show, Supply!OfUser, Supply!Shrink

\* Every step is one of the supply, or none.
LEMMA SupplyStep ==
  TypeInv /\ ReqInv /\ PicInv /\ Supply!Secured' /\ [Next]_vars
    => [Supply!Next]_(Supply!vars)
<1>. SUFFICES ASSUME TypeInv, ReqInv, PicInv, Supply!Secured', [Next]_vars
              PROVE  [Supply!Next]_(Supply!vars)
  OBVIOUS
<1>t. /\ file \in [Names -> Pictures \cup {Garbage, None}]
      /\ pix \in [Objs -> Pictures \cup {None}]
      /\ img \in [Users -> Names \cup {None}] /\ kept \subseteq Users
  BY DEF TypeInv, TypeOK
<1>1. CASE UNCHANGED <<flight, file, pix, cell, Found>>
  BY <1>1 DEF Supply!vars, Asked, Stock, Shown
<1>2. ASSUME NEW n \in Names, RemoveFile(n) PROVE Supply!Lose
  <2>1. \A k \in Names : file'[k] \in {file[k], None}
    BY <1>t, <1>2 DEF RemoveFile
  <2>2. UNCHANGED <<flight, drawing, pix, cell>>
    BY <1>2 DEF RemoveFile, requests
  <2>. QED  BY <2>1, <2>2, LosingSteps DEF Shown
<1>3. ASSUME Finalized, UNCHANGED <<refs, cell, flight, drawing, file>> PROVE Supply!Lose
  <2>1. Shown' = Shown
    BY <1>3, DisplayStays
  <2>. QED  BY <1>3, <2>1, FinalizedOnlyGo, LosingSteps
<1>4. ASSUME NEW S \in SUBSET Users, Dispose(S) PROVE Finalized /\ UNCHANGED refs
  BY <1>4 DEF Dispose, Cache!Close, cache
<1>5. ASSUME FreeModel PROVE Supply!ShowDefault
  BY <1>5, DefaultSteps DEF FreeModel, Idle, requests
<1>6. CASE Restart
  <2>1. /\ Asked' = [u \in Users |-> None] /\ Found' = None /\ Shown' = None
    BY <1>6, NoneAsked DEF Restart, Found, Shown
  <2>2. Stock' \subseteq Stock
    <3>1. /\ \A n \in Names : file'[n] \in {file[n], None}
          /\ \A o \in Objs : pix'[o] \in {pix[o], None}
      BY <1>6 DEF Restart
    <3>. QED  BY <3>1, StockShrinks
  <2>. QED  BY <2>1, <2>2 DEF Supply!Next, Supply!Stop, Supply!Shrink
<1>7. CASE EndSession
  <2>1. Asked' = [u \in Users |-> None]
    BY <1>7, NoneAsked DEF EndSession
  <2>2. Found' = None /\ Shown' = Shown /\ Stock' = Stock
    BY <1>7, NoneDrawnAtEnd DEF EndSession, Found, Shown, Stock, drawing
  <2>. QED  BY <2>1, <2>2 DEF Supply!Next, Supply!Stop, Supply!Shrink
<1>8. ASSUME NEW u \in Users, DrawTrimmed(u) \/ DrawUnreadable(u) \/ DrawNone(u) \/ DrawGone(u)
      PROVE  Supply!ShowDefault
  <2>1. /\ Show(None) /\ stage = "none" /\ UNCHANGED <<file, drawing>>
        /\ \/ UNCHANGED flight
           \/ u \in kept /\ StartFetch(u)
    BY <1>8 DEF DrawTrimmed, DrawUnreadable, DrawNone, DrawGone, Drawable, Idle, requests
  <2>. QED  BY <2>1, DefaultSteps
<1>9. ASSUME NEW S \in SUBSET Names, MakeRoom(S) PROVE Supply!Lose
  BY <1>3, <1>9 DEF MakeRoom, Cache!Replace, requests
<1>10. ASSUME NEW u \in Users, Evict(u) PROVE Supply!Lose
  <2>1. Dispose({u}) /\ {u} \in SUBSET Users
    BY <1>10 DEF Evict
  <2>. QED  BY <1>3, <1>4, <1>10, <2>1 DEF Evict, requests
<1>11. CASE CloseUserCache
  <2>1. Dispose(Alive \ kept) /\ Alive \ kept \in SUBSET Users
    BY <1>11 DEF CloseUserCache, Alive
  <2>. QED  BY <1>3, <1>4, <1>11, <2>1 DEF CloseUserCache, requests, Supply!Next
<1>12. ASSUME \/ \E u \in Users :
                   \/ \E j \in URLsOf[u] \cup {NoURL, Trimmed} : Deliver(u, j)
                   \/ Insert(u) \/ Crash(u)
              \/ BeginPut
       PROVE  UNCHANGED <<flight, file, pix, cell, Found>>
  BY <1>12 DEF Deliver, Insert, Crash, BeginPut, requests, drawing, Found
<1>13. ASSUME Retain \/ StorePut PROVE UNCHANGED <<flight, file, pix, cell, Found>>
  BY <1>13 DEF Retain, StorePut, requests, Found
<1>14. ASSUME UNCHANGED vars PROVE UNCHANGED <<flight, file, pix, cell, Found>>
  BY <1>14 DEF vars, requests, drawing, Found
<1>. QED
  BY <1>1, <1>2, <1>5, <1>6, <1>7, <1>8, <1>9, <1>10, <1>11, <1>12, <1>13, <1>14,
     DefaultSteps, AnswerSteps, FindingSteps, ShowingSteps
  DEF Next, Disturbed, Draw, DrawStep, Ending, Supply!Next

LEMMA SupplyInit == Init => Supply!Init
<1>. SUFFICES ASSUME Init PROVE Supply!Init
  OBVIOUS
<1>1. Asked = [u \in Users |-> None] /\ Found = None /\ Shown = None
  BY DEF Init, Asked, Found, Shown
<1>2. Stock = {}
  BY PictureAssumption DEF Init, Stock
<1>. QED  BY <1>1, <1>2 DEF Supply!Init

\* Fetching, storing, caching and drawing come to a plain supply of pictures.
THEOREM PicturesAreSupplied == Spec => SuppliesPictures
<1>1. TypeInv /\ ReqInv /\ PicInv /\ (TypeInv /\ ReqInv /\ PicInv)' /\ [Next]_vars
        => [Supply!Next]_(Supply!vars)
  <2>1. (TypeInv /\ PicInv => Supply!Secured)'
    BY SupplyIsSecured, PTL
  <2>. QED  BY <2>1, SupplyStep
<1>. QED
  BY <1>1, SupplyInit, PictureInvariant, PTL DEF Spec, SuppliesPictures, Supply!Spec
=============================================================================
