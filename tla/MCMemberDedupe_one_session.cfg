CONSTANTS
  Users = {u1, u2}
  Shards = {s1}
  Old = s1
  New = s2
  InitMembers = {u1}
  MaxEvents = 5
  MaxChangesPerUser = 3
  StoreMutuals = TRUE
  KeysMayExpire = TRUE
  MemberUpdates = TRUE
  ChunkCount = 2
  None = none
  Windows <- SharedWindows
SPECIFICATION Spec
INVARIANT TypeOK
INVARIANT MutualsTrackMembership
INVARIANT MemberCountTracksMembership
INVARIANT MembersTrackMembership
INVARIANT EveryReadEventPublished
CHECK_DEADLOCK FALSE
