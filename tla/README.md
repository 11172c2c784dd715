# piiptyyt: models, checks and proofs

piiptyyt is a small GTK+ client for a microblogging service, written in C: one
process, one thread, one GLib main loop. This directory holds TLA+ models of
its state-changing code, the TLC configurations that check them on small
instances, and proofs, checked by TLAPS, of what matters most for every
instance. Every definition is translated from the source; `PROJECT.json` names,
for each, the lines it stands for.

## 1. The system

| Component | Source | State it keeps | Operations |
|---|---|---|---|
| **PtCache** | `pt-cache.[ch]` | hash table, active and inactive list, `repl_hand`, `count`, `active_count`, ages, watermarks, a GObject toggle reference per entry | get, put, toggle notification, sweep, flush, set watermarks, dispose |
| **User cache** | `usercache.c`, `format.c`, `sql/10_caches.sql` | a PtCache of user records, an SQLite connection and table | open, look up (by id, from JSON), flush, close |
| **Timeline table** | `model.c` | `current_ids` (sorted), rows of a GtkListStore | `add_updates_to_model()`, drawing of cells |
| **Session** | `main.c`, `login.c`, `state.c` | the login in memory, the state file, the window | start, login, fetch, main loop, end |
| **Updates** | `pt-update.[ch]` | an update's fields, a reference to its user's record | from JSON, markup, dispose |
| **Users and userpics** | `pt-user-info.[ch]` | a record's fields, name of its picture's file, fetch in flight, a PtCache of pixbufs | get picture, fetch callback, dispose |
| **OAuth** | `oauth.c` | a request's parameters, nonce, timestamp, signature | collect, sign, send, parse |
| **Field conversion** | `format.c` | none | JSON to struct, struct to and from SQLite |

How they interact. `main()` reads the state file, opens the user cache, shows
the window, logs in if it has no token, fetches the home timeline once and runs
the main loop. An answer is parsed into `PtUpdate`s; each takes its user's
record from the user cache (`get_user_info_from_json()`) and refers to it while
it lives. The updates become rows. Drawing a row asks its user for a userpic,
which may start a fetch whose callback comes from the main loop. PtCache calls
back into its owner: GObject tells it when the last reference outside the cache
goes and when one comes back, and it calls a flush function before it lets
entries go, which for the user cache writes the table.

What is hard here:

* *borrowed references* - lookups return pointers that only the cache owns, and
  a toggle in between may evict;
* *a hand into a list that changes* - `repl_hand` and the counters must survive
  every way on and off the two lists;
* *keys that live in the objects they name*;
* *statements, writes and requests that fail or are cut off half way*;
* *nested main loops* - login and fetch run the main loop while `main()` has not
  reached its own;
* *order* - ids are sorted one way, rows inserted another;
* *answers that come late* - a userpic arrives when its user's record has
  changed, or when the program is already ending;
* *two gatherings of one request* - what is signed and what is sent.

`PROJECT.json` lists each under "hazards", at its line, with the properties
that would catch it going wrong.

What makes each component correct, in a sentence: PtCache neither loses, leaks
nor frees anything under its borrowers' hands, and says so to its flush
function; the user cache has one record per user, and a commit writes one record
and nothing that was undone; the timeline shows every update once, newest first;
a session never fetches with no token at all, never loses a login it has read,
and only sends what it has signed; a row shows its own author's picture or the
default one, and in the end its picture.

## 2. Modules

| Module | Models | Built on |
|---|---|---|
| `ReplacingCache` | the contract of `pt-cache.h`, without lists, ages or watermarks | |
| `PtCache` | `pt-cache.c` | shown to implement `ReplacingCache` |
| `UserStore` | `usercache.c`, `store_to_sqlite()` and `format_from_json()` of `format.c`, the table's constraints | composes an instance of `ReplacingCache` |
| `UpdateModel` | `model.c` | |
| `OAuthRequest` | `oauth.c`: a request as a record, and operators on it | |
| `Session` | `main.c`, `login.c`, `state.c` | makes its messages with `OAuthRequest` |
| `Userpic` | `pt-user-info.c`, the drawing of pictures and the end of the model in `model.c`, the end of `main()` | composes an instance of `ReplacingCache`, shown to implement `PictureSupply` |
| `PictureSupply` | what fetching, storing, caching and drawing pictures comes to | |
| `MC...` | instances for TLC | |
| `...Proofs` | theorems of the module they are named after; `SweepProofs` those about the sweeps of `PtCache`, on top of `PtCacheProofs` | |
| `OrderLemmas` | least elements of sets of numbers, and what follows from them: induction, multiples, the least numbered element of a set | |

**PtCache.** `item[k]` is the hash table, `active` and `inactive` are the lists.
The order of the active list is never looked at; that of the inactive list is
`ahead[k]`, the set of keys in front of `k`, which makes "unlink" a set
difference and "add at the tail" an assignment. `rc[o]` is the object's
reference count; `holds[o]` says how much of it belongs to clients. `Ref` and
`Unref` are `g_object_ref()` and `g_object_unref()` by a client together with
the notification they cause (`Awaken`, `Retire`, `EvictOnLastRef`). One call is
one action, since the program has one thread, but a put that makes room is taken
apart at every sweep (`PutNew`, then `Sweep` repeated, then `StoreNew`): each
sweep is a single action computed from the order of the list (`Reached`,
`Victims`, `HandAfterSweep`). The constants `KeyKind`, `Overwrites` and
`RawPointers` say what clients do; the code has three kinds of key and clients
of two habits, and they matter.

**ReplacingCache** has six variables. Entries nobody refers to may vanish inside
a put or with their last reference, only after a flush, and not while borrowed.
What was just put counts as borrowed: `pt-cache.h` does not say so, but
`get_user_info()` needs it "de facto" (`usercache.c:278`). The refinement maps
`entry` to `item`, `refs` to `holds` and `putting` to `stage # "idle"`.

**UserStore** takes the cache at its contract, so that what is shown of the user
cache rests on nothing else. A call (`Hit`, `Miss`, `BeginPut`, `MakeRoom`,
`StorePut`, `Unref`, `FillIn`) is interrupted where the cache calls
`user_info_flush()`, and this at each SQL statement. `work` is the table as the
connection sees it, `saved` as it is on disk; `Commit` and `Rollback` (`Undone`)
make them one again, and a program that is killed leaves `saved`. Changed
records that were still in the cache then are lost, as the code has it. The
faults of the SQL code are in the model as they are in the code: `FetchedName`
(the id is bound to parameter 0), `Selected` (the WHERE clause compares with
NULL), `changes` (the counter is the connection's).

**UpdateModel** has the ids and the rows as sequences, `RowPositions` and
`InsertRows` as the code computes them. Sorting and selecting are one operator,
`Arranged`: it is given, for each index, the set of those that come ahead, and
puts the elements where the sizes of these sets say. `qsort()` is that with
`AheadByLess` or `AheadByGreater` (elements that compare as equal are equal
here, so it does not matter that `qsort()` is not stable), and leaving out the
updates that are shown is that with the order of the indices (`Where`). The last
loop of `add_updates_to_model()` is a function on `0..Len(new)`. Both forms can
be reasoned about; a library operator that sorts, selects or folds cannot.

**OAuthRequest** has no variables. A request is a record (`NewRequest`,
`SetToken`, `SetVerifier`, `SetExtraParams`); `gather_params()` is taken apart
into what it changes in the request (`Prepared`) and the table it returns
(`Params`), because the code calls it twice: from `oa_sign_request()` and, with
another time of day and other random bytes, from `oa_request_params()`.
`Message` puts the two together as the callers do, `Verifies` is what the
service does with the result. A base string is represented by what it is made
of, since percent encoding and sorting are injective.

**Session** tells six kinds of contents of the state file apart: a token,
missing, blank, an empty token, half a login, and not parsable. `Truncated` and
`Overwritten` say what a cut-off or partial rewriting can leave, byte order
preserved: the same bytes over themselves change nothing. `CloseWindow` may come
whenever a main loop runs, the nested ones of login and fetch included. `sent`
is the last message to the service; an answer with status 200 may hold a token
and its secret, a token alone, an empty token, or neither (`Answer`). A message
that the assertion in `oa_sig_base()` forbids is not sent: the program aborts
instead (`CanSend`). That assertion, like `fetch_more_updates()`, looks for NULL
only, whereas `main.c:361` also takes the empty string for no token: after an
answer with `oauth_token=` the program signs and fetches with an empty token,
enters `gtk_main()` and saves it. The next start asks for a login again
(`NextWithToken`). Half a login, on the other hand, is taken for a login by
every part of the code, for as long as the file has it.

**Userpic** has the users' records (`url`, `img`, `msg` for `profile_image_url`,
`cached_img_name`, `img_fetch_msg`), the session's requests (`flight`), the
files (`file`), the pixbufs (`pix`, the picture in each) and their cache, and
the cell renderer, which holds on to what it shows (`cell`). Drawing a row is a
step when it ends with the default picture: for want of a name (`DrawNone`), of
the file (`DrawGone`), or because the file is no picture or cannot be read for
once (`DrawUnreadable`). Otherwise it is taken apart at each call of the cache
(`DrawCached`, `Retain`; `Load`, `BeginPut`, `MakeRoom`, `StorePut`) and ends
with `SetCell`. The callback is `Refused`, `Stored`, `StoredGarbage`,
`NotStored` or, when the URL has become NULL, `Crash`. Records come, change
(`Deliver`) and are evicted as the user cache does it; `Insert` makes rows.
`main()` fetches once today; deliveries at any time are what
`on_update_interval()` is meant for ("would fetch more tweates here"), and
without them no picture would ever move. At the end the model, the user cache
and the session go in the order of `main.c:398-400`, and the last calls back for
all that is in flight.

**PictureSupply** is written from what a reader of the timeline may count on, and
knows neither records nor names, files, pixbufs or references. It has a `stock`
of pictures, what is `asked` for, whose picture comes `next` and which is
`shown`. The stock grows by answers only, each by the picture that was asked for
and only for who asked; it may lose anything at any time but what is shown or
about to be (`Secured`). The refinement maps `stock` to the pictures in files and
pixbufs together (`Stock`), `asked` to the head of `flight`, `next` to the user
in the middle of whose drawing the program is, and `shown` to the picture in the
renderer's pixbuf. Putting a file's picture into a pixbuf, or a pixbuf into the
cache, is no step of the supply; evicting, removing, freeing a user and
replacing an old picture in a file are losses (`Lose`, or part of `Answer`);
redrawing without a picture is `ShowDefault`, which asks or does not.

## 3. Runs

Twelve runs: six that pass and six that exhibit a place where the code does
not do what a comment, header or assertion of the repository says.

| Run | Question | Instance |
|---|---|---|
| `cache_clients` | Does the cache keep its books, its order and its contract with clients that overwrite idle keys and take raw pointers? | 4 keys, 4 objects, low 2 or 3, high 3 or raised to 4, buffer 2, ages to 2 (144 509 states up to symmetry) |
| `cache_embedded` | Are keys inside objects safe as the user cache uses them, does replacement stop at the low watermark, and does every put return? | 4 keys, 4 objects, one for each key, low 1, high 2, buffer 1 (867 278 states, no symmetry) |
| `timeline_rows` | Do ids and rows agree whatever answers overlap or repeat? | 4 ids, answers of up to 3 |
| `user_store` | One live record per user, findable while used, a commit writes its own record only, calls return | 2 users, 3 records, 2 names (192 303 states) |
| `session` | No fetch with no token, with an empty one only after the answer it was in, every message verifies, no loaded login lost, every start comes through | 2 tokens (2 623 states) |
| `userpic` | Own pictures only, requests and references balance, callbacks meet their users, pictures come in the end; all of it implements `PictureSupply` | 2 users, 3 URLs, 3 pixbufs (111 460 states) |

Why the bounds suffice. `MAX_REPLACE` is 128 in the code and 2 in the instances,
so that a sweep fills the buffer, flushes it in the middle and goes on; with
four keys and a low mark of 2 a sweep can stop because of the mark, because of
the number of items, or with the buffer half full. The watermarks are moved one
at a time to values that cross, so that the high one has to be raised above the
low one, at the making of the cache and later. `cache_embedded` checks the bound
of `OvershootWithinBuffer` where it is exact: with a buffer of one the sweep
never goes below the low mark. With a buffer of two, four keys are too few to
tell a buffer that is flushed when full from one that never is. Ages saturate at
2 instead of 2^32-1: 0 (victim), 1 (second chance) and saturation all occur. A
client's second reference to an object causes no notification, so one
(`MaxHolds`) is enough for TLC; the proofs are for any number. Three records of
two users let one be evicted while another is being put. Four ids and answers of
three give every interleaving of a head, an inner and a tail insertion with
repeats. Of the two users of `userpic` one has URLs with two extensions, so that
its picture moves from one file to another, and one keeps its URL; three pixbufs
let one be on display, one cached and one be loaded while room is made. Which of
the free pixbufs is loaded into makes no difference, so one is chosen
(`Allocated`). `Repeats`, `MaxHolds`, `MaxRefs` and `MaxBatch` are the bounds on
the environment; none bounds the code. Symmetry is used in `cache_clients` only,
whose properties are safety properties (`KeepsContract` refines a specification
without fairness). Deadlock is not checked in the runs of PtCache, where nothing
needs to happen once it is disposed of, nor in `userpic`, whose program may have
ended.

Fairness. Only steps of the program itself are fair. PtCache: the next step of a
put that has begun, since it waits for nothing. UserStore: the next step of a
call or flush; a statement may fail, but it returns. Session: the steps of
`state_write()` and of `main()` but those that wait for a server. Userpic: the
drawing of a row that has begun, and the end of the program. Nobody else has to
do anything: servers need not answer (no timeout is ever set on a request, and
`pt-user-info.c:118` says so), rows need not be redrawn, users need neither
enter a PIN nor close the window. Where a liveness property needs such help it
says so in its antecedent: `StartsComeThrough` is about servers that answer and
a program that is not killed and started again for ever; `PictureComes` about a
row that is redrawn again and again, a service that delivers again and again, a
file that can be read in the end if it is tried again and again, and URLs and
files that are left in peace from some point on.

What the failing runs show (details in "findings" of `PROJECT.json`):

| Run | Violated | The repository says | The code does |
|---|---|---|---|
| `cache_overwrite_in_use` | `CountsExact` | assertion `pt-cache.c:109`, `pt-cache.h:91` | an active item that is overwritten is counted twice |
| `cache_overwritten_key` | `NoStrayRead` | `pt-cache.h:95` | the table keeps a pointer to the copied key that was freed |
| `cache_stops_early` | `ReplacementReachesLow` | comment `pt-cache.c:157` | a sweep that only halves ages ends replacement |
| `timeline_row_order` | `RowsFollowIds` | comment `model.c:108` | rows get positions in the opposite order |
| `user_store_flushed` | `FlushedIsSaved` | comment `format.c:240` | after one INSERT nothing is inserted any more |
| `session_login_error` | `LoginErrorIsFilledIn` | `defs.h:128` | no error is set when the service refuses |

Beside each, a passing property says what is true instead: overwriting idle keys
is safe for static keys (`CountsExact` in `cache_clients`), replacement stops
early only after a sweep of the whole inactive list that took some age from
every item (`EarlyStopAgesAll`; not every item need have been used since the
sweep before, for an age of 2 outlasts one sweep), the first answer comes out in
order (`InOrderWhenAlone`), what does get on disk is the record being flushed,
however many flushes failed before (`FlushWritesItsRecord`), and a login that
was read survives (`LoadedLoginIsKept`).

What `userpic` shows besides. A fetch that fails is not notified, and nothing
is connected to `notify::userpic` in any case (`model.c:186`): a picture is only
seen at the next redraw, and this also starts the next attempt, so that
`PictureComes` cannot be had without redraws. A file that is no picture is kept
until the program is started again (`Spoilt`). An answer for an old URL is
stored under the name of the new one (`Name`), which mixes up pictures of one
user, never of two (`OwnPicture`). And `CallbackMeetsUser` holds only because of
a leak: were the users of rows freed with the rows, as `LeftOver` replaced by
`NoneLeft` has it, the session would call back with freed users at the end of
the program.

One limit of `pt-cache.h`'s promise should be known. The header's borrowing rule
covers what was just looked up. A client that takes a reference through an older
pointer (`RawPointers`) is beyond it: the model lets it do so only while the
object is cached. `img_fetch_callback()` is such a client; the users it is
called for are kept alive by their rows (`model.c:123`; `CallbackMeetsUser`).

## 4. Proofs

All theorems are checked by `tlapm` with the SMT, Zenon and LS4 backends; no
step is left unproved.

**PtCacheProofs**, for any sets of keys and objects (keys finite), any buffer
size and age limit of at least 1 and any watermarks of at least 1. `IInv`
(in `PtCache.tla`) is the inductive invariant, in named parts:

* `ListInv`: the lists partition the entries, only inactive items are ahead of
  anything and nothing is ahead of itself, the hand is on the inactive list.
  `HandOnInactiveList` alone is not inductive, since the hand moves to a
  successor that must be known to be inactive.
* `RefInv`: reference accounting, no object under two keys, active if and only
  if referenced, floating objects neither cached nor held. The notifications
  depend on `rc` being 1 or 2; accounting turns that into a statement about
  clients.
* `CountsExact`: the counters are cardinalities. It needs `ListInv`.
* `CallInv`: a put in progress has an absent key, a living object, and nothing
  borrowed.
* `UseInv`: what is borrowed is cached under a key with an age, hence not
  evicted by a toggle; what is unsaved is cached.

`NextKeeps` rests on a lemma per action, and these on lemmas about `Awaken`, `Retire`,
`Drop` and `Enlist`. From it follow the named invariants, and
`CacheKeepsContract`: every step is a step of `ReplacingCache` or a stutter.
The premise of all is `Overwrites # "any"`, which the run
`cache_overwrite_in_use` shows to be needed; `EmbeddedKeysAreSafe` (that is,
`UsedItemsHaveAge` and `NoStrayRead`) in addition assumes the user cache's
habits (`Overwrites = "never"`, no raw pointers).

**SweepProofs**, under the same premises, is about the order of the inactive
list. `OrderInv` (in `PtCache.tla`) says that `ahead` is a strict total order on
the inactive items: with `IInv` it is inductive, since items only ever leave the
list or join it at its tail (`InactiveListIsOrdered`). It makes the number of
items ahead of a key a position, so that a sweep can be reasoned about by its
last victim: all of the victims but that one stand ahead of it, and it was
reached because the buffers that were full before it did not free enough. From
that follow `VictimsInOrder`, `EarlyStopMeansAged` (a sweep that drops nothing
above the low mark found no old item, so it flushed nothing on its way, reached
every item, and halved an age that was not 0) and `OvershootBounded`.
`RepeatedSweepsShrink` is the variant behind the liveness property
`PutReturns`: a sweep is only repeated after it dropped something.

**UpdateModelProofs**, for any ids and for batches of any size, with or without
repeated updates. `IInv` says that the ids are sorted as a whole, not only
neighbour by neighbour, and that every id has as many rows as entries. Neither
half can be had alone: that the majority case may put a batch in front without
sorting (the assertion in `add_to_current_ids()`) rests on the head being the
largest of the sorted ids, and that the two tables agree rests on the batch
being new there, although the ids are taken from the batch itself and the rows
from what is left of it by the search for repeats (`AllNewerMeansNew`). The lemmas
underneath say what the operators do for sequences of every length:

* `RanksDiffer`, `Numbering` and `ArrangedAs`: under a total order the sizes of
  the sets of those ahead are `0, 1, 2...`, without gaps or repeats (an
  injection into a set of the same size reaches all of it), so an arrangement
  loses and doubles nothing, and any increasing list of the indices is that
  arrangement. Hence `AscendingFacts`, `DescendingFacts`, `SortedStays`,
  `WhereAs`, `DedupFacts`.
* `LoopRuns`: the loop's function exists, by induction on its length;
  `InsertRowsFacts`: each row inserted adds one occurrence, and the rows that
  were shown stay an increasing list of indices (`KeepsRows`), again by
  induction.
* `InsertedAtTop` and `OneGoesInPlace`: inserting a batch at the top reverses it
  as `add_to_current_ids()` does, and a single new id goes behind exactly those
  that are larger, which is where `bsearch()` then finds it.

Hence `TableTyped`, `IdsStaySorted`, `RowsMatchIds`, `RowsStay` and
`AloneInOrder`. That the rows are in the order of the ids after two new updates
in an older place cannot be proved, since it is false (`timeline_row_order`).

Induction. The library's induction theorems take the property as an operator,
which the backends cannot instantiate. `OrderLemmas` takes it as a set instead:
that a set of naturals which is not empty has a least element follows from the
well-foundedness of `<`, and `NaturalsBySuccessor` from that. The sets are
those of the numbers for which the property holds.

**UserStoreProofs**, for any users, records and names. `RecInv`: a live record
is cached under its own id, or the object of a put in progress, or on its way
out, where nobody refers to it while the cache is open; what is borrowed is
cached. Hence `RecordsAreUnique`, `UsedRecordsStayFindable` and
`ReachedRecordsAlive`. `TypeInv` adds the other types, with it
`UserStoreTypeCorrect`: that a new record starts without references rests on
`RecInv`. `RowInv` says where `work` and `saved` may differ: nowhere but in the
row of the record being flushed, between its INSERT and the end of the
transaction. It rests on the other two, by which no call goes on and no record
changes in the middle of a flush, and `FlushesWriteOneRecord` rests on it. These
use only the contract, which `CacheKeepsContract` says `pt-cache.c` keeps.

**OAuthRequestProofs**, for any request whose extra parameters do not use
reserved names: gathering twice changes nothing the second time
(`GatheringIsStable`), taking the signature out of what is sent leaves what was
signed (`SignatureComesOff`), hence `SentIsSigned`.

**SessionProofs**, for any set of tokens: types (`StateTypes` and
`RequestTypes`, each inductive), `TokenComesFirst` (whatever goes out was
signable, so it had a token, if only an empty one; and who goes on with an empty
one was answered with it, for a request token that was not missing),
`SentIsVerified`, which applies
`SentIsSigned` to each message and needs that the credentials a message was
signed with are still those of the session, and `LoadedLoginSurvives`, a
property of steps.

**UserpicProofs**, for any users, URLs, extensions and pixbufs. Three layers:

* `TypeInv`: types, and that a user's URL is one of its own.
* `ReqInv`: who has a picture has no request in flight; both are only had by
  users of rows, and those are never freed. Hence `RequestsBalance` and
  `CallbacksMeetUsers`. `RequestsAccounted` alone is not inductive: that an
  answer finds its message rests on no request being started for a user who has
  a picture.
* `PicInv`: each file holds its own user's picture or none, each cached pixbuf
  is what its user's name leads to and what the file holds, each pixbuf has as
  many references as the renderer and the row being drawn own, and a row in the
  middle of its drawing has its own user's picture in hand. Hence
  `RowsShowOwnPictures`, `CacheAgreesWithFiles` and `DrawingBalances`. It uses
  the contract of the cache only; storing an answer needs `ReqInv`, by which
  nothing is cached for a user whose answer comes.

On these three rests `PicturesAreSupplied`: each step of `Userpic` is a step of
`PictureSupply` or none of its business. `SupplyIsSecured` says that what the
supply must not lose is there in every state of the invariant, so in the next
one too; then there is one lemma per kind of step. That `asked` is the head of
`flight` and nothing is behind it needs `ReqInv` (a second request would make an
answer clear nothing); that the picture in the renderer stays what it is while
entries go, and that the one in hand survives the release of the one shown
before, needs the counting of references in `PicInv`.

Only model-checked: the liveness properties (`PutReturns`, `CallsReturn`,
`StartsComeThrough`, `PictureComes`), which are beyond the provers. Every
invariant and every property of steps that a passing run checks is also a
theorem.

## 5. Not modelled

* Hashing, string formatting, percent encoding, base64, HMAC-SHA1, markup, XML of
  an update's source, dates, layout of widgets: no property here is about them.
* `oa_auth_header()`, which the program does not use; the "userpic" property,
  which nobody reads.
* SQLite and GLib are taken as they are documented (`Create`, `Dead`,
  `InsertRow`, `Finalized`, `EndSession` are marked external): a transaction is atomic, reference counts
  are right, toggles come when they should.
* Sharing the user cache with `g_object_ref()` (`usercache.c:265`): the program
  never does it. A table that is missing: the program tells its user to load a
  schema by hand and stops.
* A user record that cannot be converted from JSON: only `id` may not be null,
  and `get_user_info_from_json()` returns before if it is 0.
* Reference counts of updates one by one: `model.c:123` takes one more than the
  store needs, so that the users of rows are kept for ever (`Userpic!LeftOver`).
* What happens to rows after an assertion or a NULL pointer has stopped the
  program: `pt-update.c:135` reads the source of an update that could not be
  converted (`Fetch` ends "aborted" then).
* Columns of a record but its screen name; the flag `dirty`, which is set and
  never read.

## 6. Plan

Done: the cache, its contract and refinement; the user cache; the timeline
table; requests and the session; userpics and the supply they implement; and theorems
on each.

Next:

1. `Timeline`: the composition of parsing an answer (`parse_update_array()`,
   `pt_update_new_from_json()`), `UserStore` and `UpdateModel`: all or nothing of
   an answer, references of updates one by one.
