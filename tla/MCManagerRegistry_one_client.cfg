CONSTANTS
  Ids = {"m1", "m2"}
  Blacklists = {"b1", none}
  Users = {"u1", "u2"}
  HTTPEnabled = TRUE
  Clients = {c1}
  InitConf <- MCInitConf
  MaxRequests = 5
  None = none
SPECIFICATION Spec
CHECK_DEADLOCK FALSE
INVARIANT ManagersTrackConfig
INVARIANT SavedConfigCurrent
INVARIANT ShardGroupsOwned
