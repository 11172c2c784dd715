\* Does a failed login leave an error to print?
SPECIFICATION Spec
CONSTANTS
  Null = Null
  Tokens = {t1, t2}
  Permit = Permit
  Missing = Missing
  Blank = Blank
  Empty = Empty
  Half = Half
  Torn = Torn
INVARIANT LoginErrorIsFilledIn
