CONSTANTS
  Users = {u1, u2}
  Shards = {s1}
  InitMembers = {u1}
  Roles = {r1, r2}
  InitRoles = {r1}
  MaxEvents = 4
  None = none
SPECIFICATION Spec
INVARIANT TypeOK
INVARIANT GuildTracksDiscord
INVARIANT MemberCountTracksMembership
INVARIANT JoinedAtKept
CHECK_DEADLOCK FALSE
INVARIANT RolesTrackDiscord
