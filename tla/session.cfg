\* Sessions one after the other over one file, any call failing, killed anywhere.
SPECIFICATION FairSpec
CONSTANTS
  Null = Null
  Tokens = {t1, t2}
  Permit = Permit
  Missing = Missing
  Blank = Blank
  Empty = Empty
  Half = Half
  Torn = Torn
INVARIANTS
  TypeOK
  FetchesHaveToken
  RequestsVerify
PROPERTIES
  LoadedLoginIsKept
  StartsComeThrough
