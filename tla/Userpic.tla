------------------------------- MODULE Userpic -------------------------------
(***************************************************************************)
(* pt-user-info.c: the picture of a user is fetched when a row of the      *)
(* timeline is drawn that wants it, stored in a file, and from there       *)
(* loaded into a replacing cache of pixbufs, which all users share and the *)
(* last one takes along.  With the drawing of rows (model.c) and the end   *)
(* of the program (main.c), where requests may still be in flight.         *)
(*                                                                         *)
(* The cache of pixbufs is taken at its contract (ReplacingCache); each    *)
(* of its actions is a step of the drawing of one row.                     *)
(***************************************************************************)
EXTENDS Naturals, Sequences

CONSTANTS
  Users,      \* user ids
  URLs,       \* values of profile_image_url
  URLsOf,     \* URLsOf[u]: those that u ever has
  Ext,        \* Ext[l]: what follows the last dot of URL l, or "dat"
  Objs,       \* pixbufs (one that died may be made again)
  None,
  NoURL,      \* profile_image_url == NULL, in a record with a screen name
  Trimmed,    \* a record, or JSON, that has nothing but an id
  Garbage     \* a file that can be read but is not a picture

ASSUME URLAssumption == URLsOf \in [Users -> SUBSET URLs]
ASSUME KindAssumption ==
  /\ NoURL # Trimmed /\ None \notin {NoURL, Trimmed, Garbage} \cup Objs \cup Users
  /\ {None, NoURL, Trimmed} \cap URLs = {}

Names == UNION {{<<u, Ext[l]>> : l \in URLsOf[u]} : u \in Users}

\* What the service shows at URL l of user u.
Pictures == Users \X URLs

ASSUME PictureAssumption ==
  {None, Garbage} \cap (Pictures \cup Names) = {}

VARIABLES
  entry, refs, borrowed, unsaved, putting, closed,   \* of ReplacingCache
  url,        \* url[u]: u's profile_image_url, None if u has no record
  img,        \* img[u]: its cached_img_name, None for NULL
  msg,        \* msg[u]: its img_fetch_msg is not NULL
  flight,     \* flight[u]: URLs of u that the session has requests for
  kept,       \* users whose records are referred to by updates
  file,       \* file[n]: what is stored under the name n, None if nothing is
  pix,        \* pix[o]: the picture in the pixbuf o, None once it is finalized
  stage,      \* where the drawing of a row is, "none" if none is drawn
  drawn,      \* the user it is about
  got,        \* the pixbuf it has a reference to
  cell,       \* the pixbuf of the cell renderer, None for the default picture
  pc          \* "running", or how far the program is with ending

cache == <<entry, refs, borrowed, unsaved, putting, closed>>
records == <<url, img>>
requests == <<msg, flight>>
drawing == <<stage, drawn, got>>
vars == <<cache, records, requests, kept, file, pix, drawing, cell, pc>>

Cache == INSTANCE ReplacingCache WITH Keys <- Names

Idle == pc = "running" /\ stage = "none"

Alive == {u \in Users : url[u] # None}

-----------------------------------------------------------------------------
(* Records *)

\* format_from_json(): a member that is missing leaves the field alone.
FromJson(old, j) == IF j = Trimmed /\ old # None THEN old ELSE j

\* A new picture's URL does not make the old picture go away.
ImgForgotten(u, j) == [img EXCEPT ![u] = None]
ImgAfterJson(u, j) == img

\* A user is delivered as the author of an update: get_user_info_from_json().
\* The first record makes the cache of pixbufs.
Deliver(u, j) ==
  /\ Idle
  /\ url' = [url EXCEPT ![u] = FromJson(@, j)]
  /\ img' = ImgAfterJson(u, j)
  /\ closed' = FALSE
  /\ UNCHANGED <<entry, refs, borrowed, unsaved, putting, requests, kept, file,
                 pix, drawing, cell, pc>>

\* A row is inserted for an update of u.  Its update is referred to once too
\* often, and its user for ever with it.
Insert(u) ==
  /\ Idle /\ url[u] # None
  /\ kept' = kept \cup {u}
  /\ UNCHANGED <<cache, records, requests, file, pix, drawing, cell, pc>>

\* Pixbufs nobody refers to are finalized.
Finalized ==
  pix' = [o \in Objs |->
            IF refs'[o] = 0 /\ \A n \in Names : entry'[n] # o
            THEN None ELSE pix[o]]

\* pt_user_info_dispose() and _finalize() of the users S.  A request in flight
\* stays there: its callback will run with a pointer to what was a record.
Dispose(S) ==
  /\ url' = [u \in Users |-> IF u \in S THEN None ELSE url[u]]
  /\ img' = [u \in Users |-> IF u \in S THEN None ELSE img[u]]
  /\ IF Alive \subseteq S /\ ~closed THEN Cache!Close ELSE UNCHANGED cache
  /\ Finalized

\* The user cache drops a record.
Evict(u) ==
  /\ Idle /\ url[u] # None /\ u \notin kept
  /\ Dispose({u})
  /\ UNCHANGED <<requests, kept, file, drawing, cell, pc>>

-----------------------------------------------------------------------------
(* Requests *)

\* The picture's file: cached_userpic_name().
NameWithoutId(u) == <<CHOOSE v \in Users : TRUE, Ext[url[u]]>>
Name(u) == <<u, Ext[url[u]]>>

\* One request is enough, and there is none without a URL: soup_message_new()
\* yields NULL then.
StartableWithoutURL(u) == TRUE
Startable(u) == url[u] \in URLs
CanStartAgain(u) == Startable(u)
CanStart(u) == ~msg[u] /\ Startable(u)

StartFetch(u) ==
  IF CanStart(u)
  THEN /\ msg' = [msg EXCEPT ![u] = TRUE]
       /\ flight' = [flight EXCEPT ![u] = Append(@, url[u])]
  ELSE UNCHANGED requests

\* img_fetch_callback(), with or without status 200.  Which message it is about
\* is checked, but there is never more than one (RequestsAccounted).  Nobody
\* has connected to "notify::userpic".
Answered(u) ==
  /\ Idle /\ flight[u] # <<>>
  /\ flight' = [flight EXCEPT ![u] = Tail(@)]

\* The field is cleared whatever came.
MsgLeft(u) == msg
MsgCleared(u) == [msg EXCEPT ![u] = FALSE]

Refused(u) ==
  /\ Answered(u)
  /\ msg' = MsgCleared(u)
  /\ UNCHANGED <<cache, records, kept, file, pix, drawing, cell, pc>>

\* The file gets its name from the URL of now, not from the one asked for.
\* That it cannot be written makes no difference, nor that it cannot be
\* renamed: -1 is not 1.
Arrived(u, stored) ==
  /\ Answered(u) /\ url[u] \in URLs
  /\ file' = stored
  /\ img' = [img EXCEPT ![u] = Name(u)]
  /\ msg' = MsgCleared(u)
  /\ UNCHANGED <<cache, url, kept, pix, drawing, cell, pc>>

Stored(u) ==
  Arrived(u, [file EXCEPT ![Name(u)] = <<u, Head(flight[u])>>])
StoredGarbage(u) == Arrived(u, [file EXCEPT ![Name(u)] = Garbage])
NotStored(u) == Arrived(u, file)

\* strrchr(NULL, '.'), if the URL has been taken away in the meantime
Crash(u) ==
  /\ Idle /\ flight[u] # <<>> /\ url[u] = NoURL
  /\ pc' = "crashed"
  /\ UNCHANGED <<cache, records, requests, kept, file, pix, drawing, cell>>

\* Somebody cleans up the cache directory.
RemoveFile(n) ==
  /\ Idle /\ file[n] # None
  /\ file' = [file EXCEPT ![n] = None]
  /\ UNCHANGED <<cache, records, requests, kept, pix, drawing, cell, pc>>

-----------------------------------------------------------------------------
(* Drawing a row: set_display_pic_column_from_pt_update() and               *)
(* pt_user_info_get_userpic()                                               *)

\* The renderer takes over a reference to the pixbuf o, or shows the default
\* picture, and gives up its reference to what it showed before.
Show(o) ==
  /\ cell' = o
  /\ IF cell = None THEN UNCHANGED cache ELSE Cache!Release(cell)
  /\ Finalized

\* An author who is known by id only has the default picture.
DrawTrimmed(u) ==
  /\ Idle /\ u \in kept /\ url[u] = Trimmed
  /\ Show(None)
  /\ UNCHANGED <<records, requests, kept, file, drawing, pc>>

Drawable(u) == Idle /\ u \in kept /\ url[u] # Trimmed

\* There is no picture yet: it is fetched.
DrawNone(u) ==
  /\ Drawable(u) /\ img[u] = None
  /\ StartFetch(u)
  /\ Show(None)
  /\ UNCHANGED <<records, kept, file, drawing, pc>>

\* The file has gone: its name is forgotten, and it is fetched again.
DrawGone(u) ==
  /\ Drawable(u) /\ img[u] # None /\ entry[img[u]] = None
  /\ file[img[u]] = None
  /\ img' = [img EXCEPT ![u] = None]
  /\ StartFetch(u)
  /\ Show(None)
  /\ UNCHANGED <<url, kept, file, drawing, pc>>

\* The file is not a picture, or it cannot be read for another reason than that
\* it has gone: a warning, and the default.
DrawUnreadable(u) ==
  /\ Drawable(u) /\ img[u] # None /\ entry[img[u]] = None
  /\ file[img[u]] # None
  /\ Show(None)
  /\ UNCHANGED <<records, requests, kept, file, drawing, pc>>

\* The picture is in the cache of pixbufs.
DrawCached(u) ==
  /\ Drawable(u) /\ img[u] # None /\ entry[img[u]] # None
  /\ Cache!Lookup(img[u])
  /\ stage' = "retain" /\ drawn' = u /\ got' = entry[img[u]]
  /\ UNCHANGED <<records, requests, kept, file, pix, cell, pc>>

NotRetained(o) == UNCHANGED cache
Retained(o) == Cache!Acquire(o)

Retain ==
  /\ stage = "retain"
  /\ Retained(got)
  /\ stage' = "set"
  /\ UNCHANGED <<records, requests, kept, file, pix, drawn, got, cell, pc>>

\* It is loaded from its file, and put into the cache.  Which pixbuf is made of
\* those that are not makes no difference.
Allocated == CHOOSE o \in Objs : pix[o] = None

Load(u, o) ==
  /\ Drawable(u) /\ img[u] # None /\ entry[img[u]] = None
  /\ file[img[u]] \in Pictures
  /\ pix[o] = None /\ o = Allocated
  /\ Cache!Acquire(o)
  /\ pix' = [pix EXCEPT ![o] = file[img[u]]]
  /\ stage' = "put" /\ drawn' = u /\ got' = o
  /\ UNCHANGED <<records, requests, kept, file, cell, pc>>

BeginPut ==
  /\ stage = "put"
  /\ Cache!BeginPut
  /\ UNCHANGED <<records, requests, kept, file, pix, drawing, cell, pc>>

MakeRoom(S) ==
  /\ stage = "put" /\ S # {}
  /\ Cache!Replace(S)
  /\ Finalized
  /\ UNCHANGED <<records, requests, kept, file, drawing, cell, pc>>

StorePut ==
  /\ stage = "put"
  /\ Cache!Store(img[drawn], got)
  /\ stage' = "set"
  /\ UNCHANGED <<records, requests, kept, file, pix, drawn, got, cell, pc>>

SetCell ==
  /\ stage = "set"
  /\ Show(got)
  /\ stage' = "none" /\ drawn' = None /\ got' = None
  /\ UNCHANGED <<records, requests, kept, file, pc>>

DrawStep == Retain \/ BeginPut \/ StorePut \/ SetCell

Draw(u) ==
  \/ DrawTrimmed(u)
  \/ DrawNone(u)
  \/ DrawGone(u)
  \/ DrawUnreadable(u)
  \/ DrawCached(u)
  \/ \E o \in Objs : Load(u, o)

-----------------------------------------------------------------------------
(* The end of the program *)

\* update_model_free(): renderer and rows go.  The rows give up their own
\* references to the updates, one each is left.
NoneLeft == {}
LeftOver == kept

FreeModel ==
  /\ Idle
  /\ pc' = "model freed"
  /\ kept' = LeftOver
  /\ Show(None)
  /\ UNCHANGED <<records, requests, file, drawing>>

\* user_cache_close()
CloseUserCache ==
  /\ pc = "model freed"
  /\ pc' = "users freed"
  /\ Dispose(Alive \ kept)
  /\ UNCHANGED <<requests, kept, file, drawing, cell>>

\* The session is unreferenced for the last time; it cancels what is in flight
\* and calls the callbacks from within.
EndSession ==
  /\ pc = "users freed"
  /\ pc' = "ended"
  /\ flight' = [u \in Users |-> <<>>]
  /\ msg' = [u \in Users |-> FALSE]
  /\ UNCHANGED <<cache, records, kept, file, pix, drawing, cell>>

Ending == CloseUserCache \/ EndSession

\* The program is started again, having ended, crashed or been killed.  Of all
\* this only the files are left.
Restart ==
  /\ entry' = [n \in Names |-> None] /\ refs' = [o \in Objs |-> 0]
  /\ borrowed' = {} /\ unsaved' = {} /\ putting' = FALSE /\ closed' = FALSE
  /\ url' = [u \in Users |-> None] /\ img' = [u \in Users |-> None]
  /\ msg' = [u \in Users |-> FALSE] /\ flight' = [u \in Users |-> <<>>]
  /\ kept' = {} /\ pix' = [o \in Objs |-> None]
  /\ stage' = "none" /\ drawn' = None /\ got' = None /\ cell' = None
  /\ pc' = "running"
  /\ UNCHANGED file

Init ==
  /\ Cache!Init
  /\ url = [u \in Users |-> None] /\ img = [u \in Users |-> None]
  /\ msg = [u \in Users |-> FALSE] /\ flight = [u \in Users |-> <<>>]
  /\ kept = {} /\ file = [n \in Names |-> None]
  /\ pix = [o \in Objs |-> None]
  /\ stage = "none" /\ drawn = None /\ got = None /\ cell = None
  /\ pc = "running"

Disturbed ==
  \/ \E u \in Users : \E j \in URLsOf[u] \cup {NoURL, Trimmed} : Deliver(u, j)
  \/ \E n \in Names : RemoveFile(n)
  \/ FreeModel
  \/ Restart

Next ==
  \/ Disturbed
  \/ \E u \in Users :
       \/ Insert(u)
       \/ Evict(u)
       \/ Refused(u)
       \/ Stored(u)
       \/ StoredGarbage(u)
       \/ NotStored(u)
       \/ Crash(u)
       \/ Draw(u)
  \/ DrawStep
  \/ \E S \in SUBSET Names : MakeRoom(S)
  \/ Ending

Spec == Init /\ [][Next]_vars

\* A call that has begun goes on.
FairSpec == Spec /\ WF_vars(DrawStep) /\ WF_vars(Ending)

-----------------------------------------------------------------------------
(* Properties *)

TypeOK ==
  /\ entry \in [Names -> Objs \cup {None}] /\ refs \in [Objs -> Nat]
  /\ borrowed \subseteq Objs /\ unsaved = {}
  /\ putting \in BOOLEAN /\ closed \in BOOLEAN
  /\ url \in [Users -> URLs \cup {NoURL, Trimmed, None}]
  /\ img \in [Users -> Names \cup {None}]
  /\ msg \in [Users -> BOOLEAN] /\ flight \in [Users -> Seq(URLs)]
  /\ kept \subseteq Users
  /\ file \in [Names -> Pictures \cup {Garbage, None}]
  /\ pix \in [Objs -> Pictures \cup {None}]
  /\ stage \in {"none", "retain", "put", "set"}
  /\ drawn \in Users \cup {None} /\ got \in Objs \cup {None}
  /\ cell \in Objs \cup {None}
  /\ pc \in {"running", "crashed", "model freed", "users freed", "ended"}

\* A row shows its own author's picture or none, whatever other pictures were
\* fetched, stored, evicted and loaded between asking for it and drawing it.
OwnPicture == stage = "set" => pix[got] \in {drawn} \X URLs

\* A request is made once and accounted for: img_fetch_msg is set as long as
\* exactly one is in flight, so that the callback's check passes and no user is
\* left without a picture because of a request that is not there any more.
RequestsAccounted ==
  \A u \in Alive : Len(flight[u]) = IF msg[u] THEN 1 ELSE 0

\* When the callback is called, be it from within the session's last
\* g_object_unref(), the record it gets is still there.
CallbackMeetsUser == \A u \in Users : flight[u] # <<>> => url[u] # None

\* What the cache has for a user is what is in the user's file, unless the file
\* has gone: the cache is never asked to notice that a picture was replaced.
CachedIsStored ==
  \A n \in Names : entry[n] # None =>
    /\ \E u \in Users : img[u] = n
    /\ file[n] \in {None, pix[entry[n]]}

\* Drawing leaks no pixbuf and gives none up too often: between draws there is
\* one reference to the pixbuf on display, besides the cache's, and none to any
\* other.
PixbufsBalanced ==
  stage = "none" => \A o \in Objs : refs[o] = IF o = cell THEN 1 ELSE 0

\* A row that is redrawn again and again comes to show its picture: a refused
\* request, a picture that could not be stored, a file that went away and one
\* that could not be read for once only delay it.  It needs a service that
\* delivers in the end, a disk that can be read in the end, and that the service
\* never delivered what is not a picture: that is kept for good.
Shows(u) == stage = "set" /\ drawn = u
Spoilt(u) == img[u] # None /\ file[img[u]] = Garbage
PictureComes ==
  /\ <>[][~Disturbed]_vars
  /\ \A u \in Users : /\ SF_vars(Draw(u)) /\ SF_vars(Stored(u))
                      /\ SF_vars(\E o \in Objs : Load(u, o))
  => \A u \in Users :
       pc = "running" /\ u \in kept /\ url[u] \in URLs
       ~> Shows(u) \/ Spoilt(u) \/ pc # "running" \/ url[u] \notin URLs

-----------------------------------------------------------------------------
(* What it comes to *)

Asked == [u \in Users |-> IF flight[u] = <<>> THEN None ELSE Head(flight[u])]
Stock == ({file[n] : n \in Names} \cup {pix[o] : o \in Objs}) \cap Pictures
Found == IF stage = "none" THEN None ELSE drawn
Shown == IF cell = None THEN None ELSE pix[cell]

Supply == INSTANCE PictureSupply WITH
  asked <- Asked, stock <- Stock, next <- Found, shown <- Shown

\* Behind records, names, files and pixbufs, all of which come and go, there is
\* a plain supply: a user's picture is asked for once at a time, nothing is had
\* that was not delivered for that user, and neither eviction nor the end of a
\* record or of a file takes away what is shown or about to be.
SuppliesPictures == Supply!Spec
=============================================================================
