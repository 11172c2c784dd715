\* Does replacement go on until the low watermark is reached?
SPECIFICATION Spec
CONSTANTS
  Keys = {k1, k2, k3}
  Objs = {o1, o2, o3}
  None = None
  MaxReplace = 2
  AgeCap = 2
  MaxHolds = 1
  LowMarks = {1}
  HighMarks = {2}
  KeyKind = "embedded"
  KeysOf <- OwnKey
  Overwrites = "never"
  RawPointers = FALSE
PROPERTY ReplacementReachesLow
CHECK_DEADLOCK FALSE
