\* Three records of two users, with statements failing and restarts anywhere.
SPECIFICATION FairSpec
CONSTANTS
  Users = {u1, u2}
  Objs = {o1, o2, o3}
  Names = {n1, n2}
  None = None
  Bare = Bare
  Trimmed = Trimmed
  MaxRefs = 1
INVARIANTS
  TypeOK
  OneRecordPerUser
  UsedRecordsAreFound
  ReachableRecordsLive
PROPERTIES
  FlushWritesItsRecord
  CallsReturn
