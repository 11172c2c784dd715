\* Is what was flushed without a warning on disk?
SPECIFICATION Spec
CONSTANTS
  Users = {u1, u2}
  Objs = {o1, o2}
  Names = {n1, n2}
  None = None
  Bare = Bare
  Trimmed = Trimmed
  MaxRefs = 1
PROPERTY FlushedIsSaved
