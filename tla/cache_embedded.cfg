\* The user cache: keys inside the objects, no key put twice, references only
\* taken through pointers just looked up; a buffer of one, so that every victim
\* is flushed before the sweep looks further.  No symmetry: PutReturns is temporal.
SPECIFICATION FairSpec
CONSTANTS
  Keys = {k1, k2, k3, k4}
  Objs = {o1, o2, o3, o4}
  None = None
  MaxReplace = 1
  AgeCap = 2
  MaxHolds = 1
  LowMarks = {1}
  HighMarks = {2}
  KeyKind = "embedded"
  KeysOf <- OwnKey
  Overwrites = "never"
  RawPointers = FALSE
INVARIANTS
  NoStrayRead
  UsedItemsHaveAge
PROPERTIES
  OvershootWithinBuffer
  PutReturns
\* Once the cache is disposed of nothing has to happen any more.
CHECK_DEADLOCK FALSE
