CONSTANTS
  Users = {u1, u2}
  Shards = {s1, s2}
  Old = s1
  New = s2
  InitMembers = {u1}
  MaxEvents = 2
  MaxChangesPerUser = 1
  StoreMutuals = TRUE
  KeysMayExpire = FALSE
  MemberUpdates = FALSE
  ChunkCount = 0
  None = none
  Windows <- SharedWindows
SPECIFICATION Spec
INVARIANT MemberCountTracksMembership
CHECK_DEADLOCK FALSE
