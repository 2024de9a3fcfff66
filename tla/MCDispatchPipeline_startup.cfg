CONSTANTS
  s1 = s1
  s2 = s2
  g1 = g1
  g2 = g2
  g3 = g3
  Shards = {s1, s2}
  Guilds = {g1, g2, g3}
  Home <- MCHome
  InitGuilds = {g1, g2}
  InitOutage = {g2}
  MaxEvents = 4
  EventBlacklist = {"PRESENCE_UPDATE"}
  ProduceBlacklist = {"MESSAGE_CREATE"}
  NoGuild = none
SPECIFICATION Spec
INVARIANT TypeOK
INVARIANT ShardGuildsTrackDiscord
PROPERTY ImplementsPublishGate
CHECK_DEADLOCK FALSE
