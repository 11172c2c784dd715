\* Keys the cache has copied, and clients that put idle keys again.
SPECIFICATION Spec
CONSTANTS
  Keys = {k1, k2}
  Objs = {o1, o2}
  None = None
  MaxReplace = 2
  AgeCap = 2
  MaxHolds = 1
  LowMarks = {1}
  HighMarks = {2}
  KeyKind = "copied"
  KeysOf <- AnyKey
  Overwrites = "idle"
  RawPointers = FALSE
INVARIANT NoStrayRead
CHECK_DEADLOCK FALSE
