CONSTANTS
  Users = {u1, u2}
  Channels = {c1, c2}
  Shards = {s1, s2}
  MaxEvents = 3
  InitChannels = {c1}
  ChannelEvents = {"update", "create", "delete", "pins"}
  NoChannel = none
SPECIFICATION Spec
CHECK_DEADLOCK FALSE
INVARIANT CachedChannelsTrackDiscord
