CONSTANTS
  Users = {u1, u2}
  Shards = {s1, s2}
  InitMembers = {u1}
  Roles = {r1, r2}
  InitRoles = {r1}
  MaxEvents = 3
  None = none
SPECIFICATION Spec
CHECK_DEADLOCK FALSE
INVARIANT JoinedAtKept
