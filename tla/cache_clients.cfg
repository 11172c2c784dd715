\* Clients that keep their keys in static memory, put idle keys again, and take
\* references through raw pointers.
SPECIFICATION Spec
CONSTANTS
  Keys = {k1, k2, k3, k4}
  Objs = {o1, o2, o3, o4}
  None = None
  MaxReplace = 2
  AgeCap = 2
  MaxHolds = 1
  LowMarks = {2, 3}
  HighMarks = {3}
  KeyKind = "static"
  KeysOf <- AnyKey
  Overwrites = "idle"
  RawPointers = TRUE
SYMMETRY Symmetric
INVARIANTS
  TypeOK
  RefAccounting
  ActiveIffReferenced
  CountsExact
  HandOnInactiveList
  BorrowedStaysCached
  NothingDroppedUnflushed
PROPERTIES
  EarlyStopAgesAll
  OldestGoFirst
  KeepsContract
\* Once the cache is disposed of nothing has to happen any more.
CHECK_DEADLOCK FALSE
