----------------------------- MODULE UpdateModel -----------------------------
(***************************************************************************)
(* model.c: the timeline's table.  current_ids is the sorted array of the  *)
(* ids that are shown, rows is the GtkListStore the tree view displays.    *)
(* add_updates_to_model() extends both with a batch of updates.            *)
(***************************************************************************)
EXTENDS Integers, SequencesExt

CONSTANTS
  Ids,        \* update ids, numbers
  MaxBatch,   \* bound: updates in one answer of the service
  Repeats     \* whether an answer may hold the same update twice

ASSUME IdAssumption == Ids \subseteq Nat \ {0}
ASSUME BatchAssumption == MaxBatch \in Nat /\ Repeats \in BOOLEAN

VARIABLES
  ids,        \* current_ids[0 .. count - 1]
  rows        \* ids of the updates in the rows of the store, top row first

vars == <<ids, rows>>

\* What fetch_more_updates() hands over: the updates of one answer, in whatever
\* order; of an answer that cannot be parsed, none of them.
Batches ==
  {b \in UNION {[1..n -> Ids] : n \in 0..MaxBatch} : Repeats \/ IsInjective(b)}

\* The elements of s at the indices DOMAIN before, in the order in which
\* before[i] are the indices whose elements come ahead of that of i.
Arranged(s, before) ==
  [p \in 1..Cardinality(DOMAIN before) |->
     s[CHOOSE i \in DOMAIN before : Cardinality(before[i]) = p - 1]]

\* qsort(); updates of one id cannot be told apart.
AheadByLess(s) ==
  [i \in DOMAIN s |-> {j \in DOMAIN s : s[j] < s[i] \/ (s[j] = s[i] /\ j < i)}]
AheadByGreater(s) ==
  [i \in DOMAIN s |-> {j \in DOMAIN s : s[j] > s[i] \/ (s[j] = s[i] /\ j < i)}]
Ascending(s) == Arranged(s, AheadByLess(s))
Descending(s) == Arranged(s, AheadByGreater(s))

\* The elements of s at the indices K, in the order they have in s.
Where(s, K) == Arranged(s, [i \in K |-> {j \in K : j < i}])

\* id_in_model()
Shown(u) == \E i \in DOMAIN ids : ids[i] = u

DedupNothing(upd) == upd
Dedup(upd) == Where(upd, {i \in DOMAIN upd : ~Shown(upd[i])})

\* The majority case: all of the batch is newer than what is shown.
AllNewerLax(upd) == ids # <<>> => upd[1] >= ids[1]
AllNewer(upd) == ids # <<>> => upd[1] > ids[1]

\* add_to_current_ids(): the batch goes in front, newest first; the whole is
\* sorted again unless the caller knows that it is.
JamInOffByOne(upd) == <<0>> \o Tail(Reverse(upd)) \o ids
JamIn(upd) == Reverse(upd) \o ids
JamInUnsorted(upd) == Reverse(upd) \o ids
JamInSorted(upd) == Descending(Reverse(upd) \o ids)

\* The rows that are recorded for the updates `new', given in ascending order,
\* where `all' is the new current_ids: an update above the old head goes to
\* its index in the batch, but only while no older one has come before it; any
\* other goes where bsearch() finds its id.
RowPositions(new, all) ==
  LET atHead(k) == \A j \in 1..k : new[j] > ids[1]
      found(u) == {q \in 0..(Len(all) - 1) : all[q + 1] = u}
      choices(k) == IF atHead(k) THEN {k - 1} ELSE found(new[k]) IN
  {p \in [DOMAIN new -> UNION {choices(k) : k \in DOMAIN new}] :
     \A k \in DOMAIN new : p[k] \in choices(k)}

\* gtk_list_store_insert_with_values(): a position beyond the end appends.
InsertBelowRow(s, at, u) ==
  InsertAt(s, (IF at > Len(s) - 1 THEN Len(s) ELSE at + 1) + 1, u)
ReplaceRow(s, at, u) ==
  IF at < Len(s) THEN ReplaceAt(s, at + 1, u) ELSE Append(s, u)
InsertRow(s, at, u) ==
  InsertAt(s, (IF at > Len(s) THEN Len(s) ELSE at) + 1, u)

InsertRows(new, pos) ==
  LET r[k \in 0..Len(new)] ==
        IF k = 0 THEN rows ELSE InsertRow(r[k - 1], pos[k], new[k]) IN
  r[Len(new)]

\* add_updates_to_model()
AddUpdates(batch) ==
  /\ batch # <<>>
  /\ LET upd == Ascending(batch)
         new == Dedup(upd) IN
     \/ /\ AllNewer(upd)
        /\ ids' = JamIn(upd)
        /\ rows' = InsertRows(new, [k \in DOMAIN new |-> 0])
     \/ /\ ~AllNewer(upd)
        /\ ids' = JamInSorted(new)
        /\ \E pos \in RowPositions(new, ids') : rows' = InsertRows(new, pos)

\* update_model_new(), with the store cleared by main()
Init == ids = <<>> /\ rows = <<>>

Next == \E batch \in Batches : AddUpdates(batch)

Spec == Init /\ [][Next]_vars

-----------------------------------------------------------------------------
(* Properties *)

TypeOK == ids \in Seq(Ids) /\ rows \in Seq(Ids)

\* defs.h:70: current_ids is always sorted, largest first.  bsearch() depends
\* on it, and with it every later answer to whether an update is shown.
IdsSorted == \A i \in 1..(Len(ids) - 1) : ids[i] >= ids[i + 1]

Occurrences(s, u) == {i \in DOMAIN s : s[i] = u}

\* What current_ids says is shown is what is shown: each id has as many rows
\* as it has entries.
RowsAreTheIds ==
  \A u \in Ids :
    Cardinality(Occurrences(ids, u)) = Cardinality(Occurrences(rows, u))

\* Rows that are shown keep their order, none disappears, and none is shown a
\* second time, however answers overlap.
ShownRowsStay ==
  [][Where(rows', {i \in DOMAIN rows' : Shown(rows'[i])}) = rows]_vars

\* The rows come out in the order of current_ids for the first batch, which is
\* the only one main() ever fetches, and for batches with one new update.
InOrderWhenAlone ==
  [][rows = ids /\ (ids = <<>> \/ Len(ids') <= Len(ids) + 1) => rows' = ids']_vars

\* model.c:108 means to record the position of each new update in current_ids,
\* so that rows are in the order of ids.
RowsFollowIds == rows = ids
=============================================================================
