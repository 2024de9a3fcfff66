CONSTANTS
  Ids = {"m1", "m2"}
  Blacklists = {"b1", "b2"}
  Users = {"u1", "u2"}
  HTTPEnabled = TRUE
  Clients = {c1, c2}
  InitConf <- MCInitConf
  MaxRequests = 3
  None = none
SPECIFICATION Spec
CHECK_DEADLOCK FALSE
INVARIANT ShardGroupsOwned
