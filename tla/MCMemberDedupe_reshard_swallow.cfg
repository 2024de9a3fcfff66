CONSTANTS
  Users = {u1, u2}
  Shards = {s1, s2}
  Old = s1
  New = s2
  InitMembers = {u1}
  MaxEvents = 3
  MaxChangesPerUser = 3
  StoreMutuals = TRUE
  KeysMayExpire = FALSE
  MemberUpdates = FALSE
  ChunkCount = 0
  None = none
  Windows <- RollingWindows
SPECIFICATION Spec
INVARIANT EveryReadEventPublished
CHECK_DEADLOCK FALSE
