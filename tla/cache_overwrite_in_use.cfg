\* A client puts a key again while the old object is still in use.
SPECIFICATION Spec
CONSTANTS
  Keys = {k1, k2}
  Objs = {o1, o2}
  None = None
  MaxReplace = 2
  AgeCap = 2
  MaxHolds = 1
  LowMarks = {1}
  HighMarks = {2}
  KeyKind = "static"
  KeysOf <- AnyKey
  Overwrites = "any"
  RawPointers = FALSE
INVARIANT CountsExact
CHECK_DEADLOCK FALSE
