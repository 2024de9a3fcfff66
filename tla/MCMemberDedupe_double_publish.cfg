CONSTANTS
  Users = {u1, u2}
  Shards = {s1, s2}
  Old = s1
  New = s2
  InitMembers = {u1}
  MaxEvents = 3
  MaxChangesPerUser = 2
  StoreMutuals = TRUE
  KeysMayExpire = FALSE
  MemberUpdates = FALSE
  ChunkCount = 1
  None = none
  Windows <- SharedWindows
SPECIFICATION Spec
INVARIANT EventPublishedExactlyOnce
CHECK_DEADLOCK FALSE
