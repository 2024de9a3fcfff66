# TLA+ models of the Sandwich daemon's event handling and state cache

This directory holds TLA+ models of the Go code under `src/`: the state
handlers in `src/internal/events_dispatch.go`, the cache operations they
call in `src/internal/state.go`, and the admin HTTP handlers of
`src/internal/rest.go` that create, update and delete Managers. They are
checked with TLC. `PROJECT.json`
lists:

- the components, modelled or not;
- every run and what it checks;
- the mutants that show each property can fail;
- the map from every TLA+ definition to the Go lines it translates;
- the findings;
- the hazards of the code.

## The system

A Sandwich process multiplexes Discord gateway sessions:

- A **Manager** is one bot token. It owns ShardGroups.
- A **ShardGroup** is a cohort of shards that share a ready barrier and a
  `floodgate`.
- A **Shard** is one websocket session.

Every shard runs its own read loop, a goroutine. Each dispatch frame goes
through `Shard.OnDispatch` (`events.go`):

1. the event blacklist;
2. the state handler of the event type (`StateDispatch`), which updates the
   shared `SandwichState`;
3. the publish gate: the floodgate, `continuable` and the produce
   blacklist;
4. the producer's `Publish`.

All shards of all Managers share one `SandwichState`: a set of
`concurrent-swiss-map` maps (guilds, members, channels, roles, emojis, voice
states, users, DM channels, mutual guilds). Each map call is atomic, but a
handler that reads an entry, changes a copy and writes it back does so in
several calls. Handlers of different shards interleave between those calls.

Several shards receive the same guild's events in two cases:

- two bots (Managers) are in the same guild;
- during a rolling reshard, the old and the new ShardGroup overlap.

`GUILD_MEMBER_ADD/REMOVE` therefore use a short-TTL dedupe set.

## Inventory

| Component | Code | Module | Status |
|---|---|---|---|
| Member dedupe, MemberCount, member cache, mutuals, member updates and chunks | `OnGuildMemberAdd` / `OnGuildMemberRemove` / `OnGuildMemberUpdate` / `OnGuildMembersChunk`, `SetGuildMember`, `RemoveGuildMember`, `Add/RemoveUserMutualGuild` | `MemberDedupe` | modelled |
| Guild entry and roles | `GetGuild` and its `GetAll*` readers, `OnGuildUpdate`, `OnGuildEmojisUpdate`, `OnGuildStickersUpdate`, `OnGuildRole*`, `SetGuildEmojis`, `RemoveAllGuildEmojis`, `SetGuildRole`, `RemoveGuildRole` | `GuildCache` | partly |
| Voice states, voice channel counts, guild channels | `OnVoiceStateUpdate`, `GetVoiceState`, `UpdateVoiceState`, `CountMembersForVoiceChannel`, `OnChannelCreate/Update/Delete/PinsUpdate`, `Get/Set/RemoveGuildChannel` | `VoiceState` | partly (no `RemoveVoiceState`, no DM branches) |
| Dispatch pipeline, READY lazy loop, guild sets | `OnEvent`, `OnDispatch`, `StateDispatch`, `OnReady`, `OnGuildCreate`, `OnGuildDelete`, `OnMessageCreate`, `SetGuild`, `NewSandwichState` | `DispatchPipeline` | partly (no `OnResumed`, no chunking at the end of READY) |
| Threads, DM channels | `OnThreadUpdate`, DM branches of `OnChannel*` | none | not modelled: `OnThreadUpdate` writes nothing, and the DM functions are not in `src/` |
| Routing-only handlers | message, invite, reaction, presence, typing, entitlement handlers, `WildcardEvent` | only `OnMessageCreate`, in `DispatchPipeline` | no state changes |
| Shard connection, heartbeat, identify bucket, ShardGroup, Manager | not in `src/` | none | not modelled |
| ShardGroup publish promise | spec §4.3 | `PublishGate` (abstract) | refined by `DispatchPipeline` |
| Admin API: manager and ShardGroup lifecycle | `SandwichUpdateEndpoint`, `ManagerCreate/Initialize/Update/DeleteEndpoint`, `ShardGroupCreate/StopEndpoint` | `ManagerRegistry` | partly (ids and UserAccess only; no blacklist goroutines) |
| REST state and gateway endpoints, OAuth, JetStream producer, webhooks | `rest.go`, `msg_jetstream.go`, `webhook.go` | none | I/O |

## Modelling conventions

The modules share these conventions:

- **Discord.** Discord is modelled by "true" variables (`trueMembers`,
  `tName`, `tVoice`, ...). Every change Discord makes appends an event to
  `history`.
- **Shards.** `inbox[s]` is the sequence of events shard `s` has received
  and not yet handled. A shard's read loop handles them one at a time, in
  order, as the code does.
- **Handlers.** A handler is split into one action per shared-map call
  whose interleaving matters: a `Load`, a `Store`, an `Update`, a
  `SetIfPresent`, a count. `pc[s]` records where in the handler shard `s`
  is. Local variables of the handler are per-shard variables, for example
  `loaded[s]`, `copy[s]` and `counted[s]`.
- **State.** What the handler writes to the cache is primed. What it leaves
  alone is `UNCHANGED`.
- **Data.** Ids, names and payloads are model values or small integer
  versions. A property compares only what it needs.
- **Quiescence.** Most properties are stated at quiescence: no handler
  running and no event waiting. While events are in flight, the cache
  legitimately lags Discord. Once the read loops have caught up, it must
  not.

### `MemberDedupe`

| Code | Model |
|---|---|
| `CheckAndAddDedupe` | returns whether the key is present, and inserts it otherwise. The dedupe set is outside `src/` and is modelled from spec §4.5. |
| `RemoveDedupe` | its own action |
| Guild `MemberCount` (`Guilds.Update`, or `Load` then `SetIfPresent`) | `memberCount` |
| Member cache (`SetGuildMember`, an upsert; `RemoveGuildMember`) | `members` |
| Mutual guilds (`AddUserMutualGuild` only with `StoreMutuals`; `RemoveUserMutualGuild`) | `mutuals` |
| `OnGuildMemberUpdate` | one action: upsert the payload's member, publish. It has no dedupe and no membership check. |
| `OnGuildMembersChunk` | one action: upsert the chunk's members, count the chunk, mark the guild complete on the last one, publish. The chunk goes only to the session that requested it. |
| `KeysMayExpire` | lets the TTL lapse at any time |
| `Windows` | says which events each session receives: all of them (`SharedWindows`, two bots), or an old session up to some event and a new one from some event on (`RollingWindows`, a rolling reshard) |

Each session publishes the events it did not drop. `published[i]` counts the
publications of event `i`. `MemberUpdates` and `ChunkCount` switch the
update and chunk events on for a configuration.

`MutualsTrackMembership` says that at quiescence, with `StoreMutuals`, the
users listed as having the guild as a mutual guild are exactly its members.
The mutuals are changed only by an ADD or a REMOVE that passes
`CheckAndAddDedupe`. So the property fails if a duplicate delivery, an
expired key or a chunk leaves a former member listed, or a member unlisted.
Chunks and member updates never touch the mutuals.

### `GuildCache`

| Code | Model |
|---|---|
| The guild entry | `guild` (count, name, stickers, joined) |
| The emoji sub-map | `emojis`, which can be absent |
| The role sub-map | `roles[r]`, a version or `Absent` |
| `GetGuild` | reassembles them through `GetAllGuildRoles`, `GetAllGuildEmojis` and `GetAllGuildMembers`, with `ok = FALSE` when the emoji sub-map is absent |

The emoji sub-map is the only sub-map a handler removes. `OnGuildEmojisUpdate`
calls `RemoveAllGuildEmojis` and then `SetGuildEmojis`.

`OnGuildUpdate` takes the before-guild from `GetGuild` and keeps its count,
joined and large fields. It writes the result with `SetGuild`, which stores
the guild and writes the sub-collections back to the sub-maps. For roles
that write is an upsert (`SetGuildRole` per role); it never deletes a role.
`OnGuildStickersUpdate` writes the whole `GetGuild` snapshot back the same
way. `OnGuildRoleCreate/Update` store the payload's role and
`OnGuildRoleDelete` removes it.

### `VoiceState`

| Code | Model |
|---|---|
| Voice states | `voice[u]` (a channel or `NoChannel`); `GetVoiceState` reads it |
| Channel entries | `cached` (the channel ids present) and `chan[c]` (MemberCount, name version, pin version) |
| `UpdateVoiceState` | the store or delete, then for the old channel and then the new one a `GetGuildChannel` (skipped when the channel is absent), a `CountMembersForVoiceChannel` and a `SetGuildChannel` |
| `OnChannelCreate` / `OnChannelUpdate` | store the payload with `SetGuildChannel`; its MemberCount is 0 |
| `OnChannelDelete` | `RemoveGuildChannel` |
| `OnChannelPinsUpdate` | `UpdateGuildChannel` of the pin time, when the channel is cached |

`UpdateGuildChannel` is not defined in `src/`. It is modelled from the
spec as an in-place update of a cached channel. `ChannelEvents` selects
which channel events Discord may send in a configuration. Discord
disconnects a channel's users before it deletes the channel.

### `DispatchPipeline`

One ShardGroup with two shards. Each session starts with READY in its
socket. Discord may then send:

- the lazy GUILD_CREATEs of READY's guilds;
- joins and kicks;
- outages and recoveries;
- messages;
- at any time the shard has read everything, a background frame: a
  presence or a heartbeat ack.

The read loop has three steps:

- `ReadLoopReady` is OnReady's start. It sets IsReady and seeds Lazy and
  Guilds.
- `ReadLoopDispatch` is `OnEvent`, then `OnDispatch`.
- The lazy loop of `OnReady` has three steps of its own:
  - `OnReadyContinue` and `OnReadyTimeout` look at the ticker at the top of
    the loop.
  - `OnReadyRead` is `readMessage`. It resets the ticker on GUILD_CREATE,
    then runs `OnDispatch`.

`ReadyTimeoutFires` is the ticker firing. `OnDispatch` models, in order:

1. the event blacklist;
2. `StateDispatch`;
3. the floodgate read;
4. the produce blacklist;
5. the published packet. `OnDispatch` builds the packet's `Extra` as an
   empty map, sized by the handler's extras but never filled
   (`events.go:198-207`). So GUILD_CREATE's `lazy` and `unavailable`
   extras, and every `before`, never reach the producer, although spec §4.5
   says the payload carries the handler's extras. The model's packet has
   no extras. The Lazy and Unavailable sets are still kept, because
   `OnGuildCreate` and `OnGuildDelete` write them.

`OnGuildCreate` calls `SetGuild`, which adds the guild to
ShardGroup.Guilds, State.Guilds and Shard.Guilds, and reads and clears Lazy
and Unavailable. `OnGuildDelete` either marks the guild unavailable or
removes it from the two Guilds sets.

`StateDispatch` sends MESSAGE_CREATE to `OnMessageCreate`, which writes
nothing. The cache starts empty (`NewSandwichState`).

The ShardGroup's floodgate opening (`OpenFloodgate`) is not in this tree.
It follows spec §4.3.

### `PublishGate` and the refinement

`PublishGate` is the abstract specification of what a ShardGroup promises:

- every event Discord sends is handled once;
- the gate opens only after every shard signals ready, and then stays open;
- an event handled while the gate is shut is dropped;
- an event handled while the gate is open is published, unless its type is
  blacklisted;
- nothing else is published;
- every shard gets ready, the gate opens, and every sent event is handled.

`DispatchPipeline` instantiates it as `Gate` with this mapping:

| Abstract variable | Detailed state |
|---|---|
| `ready` | the shards that have signalled |
| `open` | `floodgate` |
| `sent` | the ids in Discord's log |
| `mute` | the ids whose type is in either blacklist |
| `done` | the sent ids no inbox still holds |
| `out` | the ids of the published packets |

`ImplementsPublishGate == Gate!GateSpec` is checked as a property, which
includes the abstract liveness.

### `ManagerRegistry`

These are the admin handlers of `rest.go`. fasthttp runs each request on
its own goroutine, so a handler is cut at each access to shared state:

- each call on `sg.Managers` (`Load`, `Store`, `Delete`);
- each region under `sg.configurationMu`;
- each call outside `src/`: `Initialize`, `Close`, `Scale`+`Open`, and
  `SaveConfiguration`. These are modelled from the spec.

The state is:

- `managers`: the map from ids to manager instances. An instance is
  `<<id, request>>`, so a re-created manager is a new object.
- `config`: `sg.Configuration`. It holds its list of ManagerConfigurations,
  each reduced to its id and its event and produce blacklists (one
  value, `None` for nil), and `HTTP.UserAccess`, the users allowed to use
  the admin API.
- `blist`: each manager instance's `eventBlacklist` and `produceBlacklist`,
  the ones `OnDispatch` filters with.
- `copies`: the blacklist-copy goroutines still to run, one per
  configuration entry, each with the manager it has loaded, if any.
- `session`: the Discord user stored in each client's session, or none.
- `file`: the configuration last saved.
- `running`: the instances with an open ShardGroup.
- `producer`: the instances with a connected Producer.

`Initialize` and `Open` may fail, and each handler takes its error return.

Every request starts with `Authenticate`, which is `HandleRequest`:
`authenticateValue` reads the session's user and looks it up in
`UserAccess` under the read lock (`IsLoggedIn`, `IsAuthenticated`), and
`requireDiscordAuthentication` (`Allowed`) answers 401 or 403 before the
handler, or lets the router start it. A failing session store is a 500.
`Callback` (`CallbackEndpoint`) stores a user in the session and `Logout`
(`LogoutEndpoint`) flushes it. The check is made once, at the start of the
request: a `SandwichUpdateEndpoint` that removes a user from `UserAccess`
does not stop that user's request already in flight.

`ManagerUpdateEndpoint` and `SandwichUpdateEndpoint` end by starting a
goroutine that copies blacklists to the stored managers. `Spawn` adds one
copy per entry: the posted entry, or every entry of the sandwich update's
snapshot. `CopyLoad` and `CopySkip` are its `sg.Managers.Load`, and
`CopyStore` is the write under the manager's blacklist locks, skipped for a
nil blacklist. Nothing orders these goroutines with each other or with
later requests. `BlacklistsApplied` says that once everything has run, each
stored manager filters with the blacklist `sg.Configuration` lists for it.

## Runs

| Run | Result | What it shows |
|---|---|---|
| `member_one_session` | pass | With one session, keys that may lapse, member updates and two chunks, no genuine change is dropped. MemberCount, the member cache and the mutual guilds follow Discord. |
| `member_double_publish` | violation | Two bots in one guild receive a member's leave and then rejoin. One session's REMOVE deletes the add key (`RemoveDedupe`, line 710) after the other session's ADD inserted it, so both ADDs pass the dedupe. The join is published twice and counted twice (`EventPublishedExactlyOnce`). Spec §4.5 and §8 say a duplicate is dropped. |
| `member_count_race` | violation | `OnGuildMemberRemove`'s `Load`/`SetIfPresent` loses a concurrent ADD's increment. |
| `member_reshard_swallow` | violation | In a rolling reshard, a genuine REMOVE is dropped as a duplicate. |
| `guild_one_session` | pass | In one session the merge, the sticker write-back, the emoji replace and the role handlers keep the guild and its roles equal to Discord's, and never lose JoinedAt. |
| `guild_emoji_window` | violation | A GUILD_UPDATE in another session's emoji window zeroes JoinedAt, Large and MemberCount. |
| `voice_one_session` | pass | In one session, with channel creates, updates, pin updates and deletes, the voice states, the set of cached channels, and each channel's name and pin time stay equal to Discord's. |
| `voice_two_sessions` | pass | With two sessions, the set of cached channels still converges: a recount that re-stores a channel just deleted is undone by the DELETE still queued on that session. |
| `dispatch_startup` | pass | The pipeline implements `PublishGate`. READY's lazy loop ends even while other frames keep coming (only GUILD_CREATE resets the ticker), so the floodgate opens. Each shard's Guilds set ends equal to the bot's guilds on it, through joins, kicks and outages. |
| `registry_one_client` | pass | Admin requests of one logged-in session, each authenticated against `UserAccess` and served one at a time, with `Initialize`, `Open` and the session store failing at will, keep `sg.Managers`, `sg.Configuration` and the saved file in step. No ShardGroup is left running on a deleted manager. |
| `registry_orphan_group` | violation | Two admins: a `ShardGroupCreateEndpoint` that loaded a manager before a concurrent `ManagerDeleteEndpoint` closed and removed it still opens a ShardGroup on it, which no endpoint can stop (`ShardGroupsOwned`). |
| `registry_blacklist_order` | violation | One admin, a sandwich update and then a manager update: the sandwich update's copy goroutine loads the manager first and stores last, so the manager keeps the old blacklist while `sg.Configuration` and the file list the new one (`BlacklistsApplied`). Spec §9 says blacklists are reloaded atomically. |

Each violation is a finding in `PROJECT.json`.

More violations are recorded as hazards in `PROJECT.json` rather than as
runs:

- `OnGuildMemberRemove`'s `RemoveGuildMember` after a rejoin's
  `SetGuildMember`. This is the lost-update pattern of
  `member_count_race` at another site.
- The REMOVE's write-back of the guild over a GUILD_UPDATE. Same pattern.
- The voice recount's write-back of a channel copy over a newer
  CHANNEL_UPDATE or CHANNEL_PINS_UPDATE.
  - TLC finds it with `ChannelTracksDiscord` under the `voice_two_sessions`
    configuration.
  - The lagging session re-applies the older update.
  - The leading session's recount copies that older channel.
  - The lagging session applies the newer update.
  - The recount's copy is written back.
  - No session has anything left that rewrites the field.
- Lazy GUILD_CREATEs are handled while the floodgate is shut and are never
  published. Spec §4.3 says so; §8 scenario 1 expects them published.
- With two bots, the lagging session's GUILD_MEMBER_UPDATE re-adds a
  member the other session has removed. Its own REMOVE is then dropped as
  a duplicate, so the former member stays cached. TLC finds
  `MembersTrackMembership` violated under the `member_double_publish`
  configuration with `MemberUpdates = TRUE` (10 steps).
- A manager update that omits the blacklist saves a nil one while the
  manager keeps its old one (`BlacklistsApplied`, once `None` is posted).
- Concurrent admin requests. TLC finds each of these with
  `Clients = {c1, c2}` in the `registry_one_client` configuration:
  - An update and a delete of one manager: the update's save lists the
    deleted manager again (`ManagersTrackConfig`).
  - Two creates of one id: both pass the duplicate check
    (`ManagersTrackConfig`).
  - A sandwich update's save, made without the lock, overwrites a newer one
    (`SavedConfigCurrent`).
  - A ShardGroup opens on a manager a concurrent delete has just closed
    (`ShardGroupsOwned`); this one is the run `registry_orphan_group`.
- A CHANNEL_UPDATE stores the payload's MemberCount (0) over the count of
  an occupied voice channel (`events_dispatch.go:271`). So no voice
  channel count invariant holds, even in one session. The voice runs
  include CHANNEL_UPDATE and check no count. The count race of
  `UpdateVoiceState` (`state.go:829`) goes unchecked for the same reason.

Other hazards have no property yet:

- `GetGuildRole` loads the role map by the role id (`state.go:343`).
- `OnThreadUpdate` never upserts the thread, while the spec says it does.
- The REST state endpoint writes the same cache maps with client data.
- `CacheMembers` and `StoreMutuals` are per manager, but the dedupe set is
  shared. With two managers that differ in these flags, the manager that
  wins the dedupe decides whether the member and the mutuals are cached.
  `MutualsTrackMembership` covers one flag for the whole model.
- The JetStream producer dials a new NATS connection on every `Connect`,
  and `Close` only sets `isClosed`, so the connections leak. A `Connect`
  that fails after `nats.Connect` leaves that connection open too.
  `isClosed` is a plain bool, read and written without synchronization.
- `PublishWebhook` reads `sg.Configuration.Webhooks` without the
  configuration lock, while `SandwichUpdateEndpoint` replaces it.

Every property of a passing run has a mutant in `PROJECT.json`. A mutant
is a plausible bug in the mapped definition, for example:

- a missing decrement;
- a missing delete;
- a missing recount of the old channel;
- a CHANNEL_CREATE handled like an update of a cached channel only;
- a role update that stores the before-role;
- a pins update taken down the DM branch.

TLC finds each mutant's property violated.

## Bounds

| Module | Bounds | Why they are enough |
|---|---|---|
| `MemberDedupe` | two or three users; two to five events; one to three changes per user; up to two chunks | A lost update needs two handlers on two users. A dedupe error needs one user changing twice. A resurrection needs a remove and an update of one user. |
| `GuildCache` | two users; two roles, one of them initial; one or two shards; three or four events | The emoji window needs one emoji update and one guild update on two shards. Two roles give a create next to an existing role. |
| `VoiceState` | two users; two channels, one of them initial; three or four events | A move between channels needs two channels. A stale count needs two users. A create, join and delete of the second channel fit in the bound. |
| `ManagerRegistry` | one client; ids `m1` (configured, blacklist `b1`) and `m2`; users `u1` (in `UserAccess`) and `u2`; posted blacklists `b1` and nil; five requests (two and `b1`, `b2` for `registry_blacklist_order`) | Five requests fit a sandwich update that changes `UserAccess`, a create, an open, an update and a delete of one id, with copy goroutines still pending across later requests. Six requests take 9 million states, and 20 minutes with two blacklists. Login and logout are not requests counted by the bound. One client checks each handler's own logic, including its error paths; two clients break all three properties (see Runs). |
| `DispatchPipeline` | two shards; three guilds (one of them unavailable at READY, one not yet joined); four events | Enough for a load, an outage, a kick and a join on two shards, and for the ticker to fire before, between and after them. |

Every violation above appears within these bounds. Together, the passing
runs fire every action of every module.

## Fairness and deadlock

Each read loop is weakly fair (`WF_vars(ShardStep(s))`). The code runs
every handler to completion on its goroutine, with no blocking call inside
the modelled steps. Discord is given no fairness: it may stop sending at any
time. A read loop with nothing to read blocks, so a state with every event
sent and handled is a legitimate stop. The configurations therefore say
`CHECK_DEADLOCK FALSE`.

`DispatchPipeline` checks `ImplementsPublishGate`, which includes the
abstract liveness (every shard gets ready, the gate opens, every event is
handled). It adds three more fairness conditions:

- The ticker (`ReadyTimeoutFires`) is weakly fair. Time passes.
- A socket with nothing to read eventually gets a frame
  (`DiscordBackground`). The heartbeat goroutine keeps sending heartbeats
  and Discord acknowledges them; at the least, a read deadline ends the
  read.
- The ShardGroup's reaction to its shards (`OpenFloodgate`) is weakly fair.
  It follows spec §4.3.

`ManagerRegistry` makes each started request weakly fair: fasthttp runs a
handler to its response. The blacklist-copy goroutines are weakly fair as
well: the Go scheduler runs every goroutine started. Clients are given no
fairness, and the model stops
once `MaxRequests` requests have been served, so it also runs with
`CHECK_DEADLOCK FALSE`.

## What is not modelled, and why

- **Connection-level code.** The shard connection, heartbeat, identify
  bucket, ShardGroup and Manager are not in `src/`. Only the floodgate
  opening is modelled, from the spec, and marked as such.
- **`OnResumed`.** It depends on the reconnect logic, which is not in
  `src/`.
- **Threads and DM channels.** `OnThreadUpdate` writes nothing. The DM
  channel functions the DM branches call are not defined in `src/`.
- **`RemoveVoiceState`.** `OnVoiceStateUpdate` calls it only without a guild
  id, with guild 0, which has no voice-state map.
- **I/O.** The REST state and gateway endpoints, the OAuth exchange (a
  `Callback` stores any user), the JetStream
  producer and the webhooks are HTTP, OAuth or JSON work. The REST state
  endpoint is one more writer of the cache maps. The producer's
  `Connect` and `Close` are called only from `Manager.Initialize` and the
  shard publish path, which are not in `src/`. Spec line 11 treats the
  producer and the webhooks as external collaborators. Their hazards (the
  connection leak, the `isClosed` race and the unlocked `Webhooks` read)
  are listed in `PROJECT.json` without a property.
- **In `ManagerRegistry`.** A manager's configuration is reduced to its id
  and blacklists, and `manager.Configuration` itself is not kept. So a
  half-applied update after a failed `Initialize` is not visible. The copy
  goroutine's metadata and presence updates are left out: the presence
  loop only prints. Request decoding errors change nothing and are left out.
  `SaveConfiguration` never fails and writes in one step.
- **The ready signal.** `OnReady`'s non-blocking send on `ctx.ready` is
  taken as delivered; the receiver is not in `src/`.
- **Routing-only handlers.** Message, reaction, typing, invite, presence and
  entitlement handlers change no state. `OnMessageCreate` stands for them
  in `DispatchPipeline`.
- **Data types.** Decoding, `makeExtra` and logging are left out.

## Plan

1. **`DispatchPipeline` additions.** Chunking at the end of READY.
2. **Rolling reshard.** Two ShardGroups overlapping during a reshard,
   checked against `PublishGate` for each group.
3. **`ManagerRegistry`.** `manager.Configuration` versions, to show the
   half-applied update after a failed `Initialize`.
