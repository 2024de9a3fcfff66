CONSTANTS
  Users = {u1, u2}
  Channels = {c1, c2}
  Shards = {s1}
  MaxEvents = 4
  InitChannels = {c1}
  ChannelEvents = {"update", "create", "delete", "pins"}
  NoChannel = none
SPECIFICATION Spec
INVARIANT TypeOK
INVARIANT VoiceTracksDiscord
CHECK_DEADLOCK FALSE
INVARIANT CachedChannelsTrackDiscord
INVARIANT ChannelTracksDiscord
