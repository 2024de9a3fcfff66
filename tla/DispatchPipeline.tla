-------------------------- MODULE DispatchPipeline --------------------------
(***************************************************************************)
(* The dispatch pipeline of one ShardGroup: every shard's read loop runs   *)
(* Shard.OnDispatch (events.go) on each frame: event blacklist, state      *)
(* handler, floodgate, produce blacklist, Publish.  READY's handler        *)
(* (OnReady) seeds the shard's Lazy and Guilds sets and then reads frames  *)
(* itself until its ticker has fired with no GUILD_CREATE since; the       *)
(* ticker is looked at only between two frames.  GUILD_CREATE (SetGuild)   *)
(* and GUILD_DELETE keep the Lazy, Unavailable and Guilds sets.  The       *)
(* ShardGroup opens its floodgate once every shard signalled ready: that   *)
(* code is not in this tree and follows spec section 4.3.                  *)
(***************************************************************************)
EXTENDS Naturals, FiniteSets, Sequences

CONSTANTS
    Shards,           \* the shards of the group
    Guilds,           \* guild ids
    Home,             \* Home[g]: the shard whose session carries guild g
    InitGuilds,       \* the guilds the bot is in when the sessions start
    InitOutage,       \* those of them unavailable at that time
    MaxEvents,        \* bound on the guild and message events Discord sends
    EventBlacklist,   \* Manager.eventBlacklist
    ProduceBlacklist, \* Manager.produceBlacklist
    NoGuild

ASSUME /\ Home \in [Guilds -> Shards]
       /\ InitOutage \subseteq InitGuilds /\ InitGuilds \subseteq Guilds
       /\ MaxEvents \in Nat
       /\ "READY" \notin EventBlacklist

VARIABLES
    botIn,        \* Discord: the guilds the bot is in
    available,    \* Discord: the guilds not in an outage
    pending,      \* Discord: guilds of READY whose first GUILD_CREATE is unsent
    log,          \* Discord: the guild and message events sent, in order
    inbox,        \* inbox[s]: frames received by shard s, not yet read
    pc,           \* where shard s's read loop is
    expired,      \* readyTimeout has fired since its last Reset
    isReady,      \* Shard.IsReady
    signalled,    \* the ready signal was sent and the status set to Ready
    lazy,         \* Shard.Lazy
    unavail,      \* Shard.Unavailable
    shardGuilds,  \* Shard.Guilds
    groupGuilds,  \* ShardGroup.Guilds
    cached,       \* the ids in State.Guilds
    floodgate,    \* ShardGroup.floodgate
    published     \* the packets handed to the producer

vars == <<botIn, available, pending, log, inbox, pc, expired, isReady,
          signalled, lazy, unavail, shardGuilds, groupGuilds, cached,
          floodgate, published>>
discordVars == <<botIn, available, pending, log>>
stateVars == <<lazy, unavail, shardGuilds, groupGuilds, cached>>
shardVars == <<pc, expired, isReady, signalled, stateVars, floodgate,
               published>>

\* A frame: its type, guild, the unavailable flag of GUILD_DELETE, what
\* Discord meant by it and its number (0 for READY and background frames).
Causes == {"ready", "load", "join", "recover", "kick", "outage", "chat",
           "background"}
Frame == [kind : {"READY", "GUILD_CREATE", "GUILD_DELETE", "MESSAGE_CREATE",
                  "PRESENCE_UPDATE"},
          guild : Guilds \cup {NoGuild}, unavailable : BOOLEAN,
          cause : Causes, id : 0..MaxEvents]
Ready == [kind |-> "READY", guild |-> NoGuild, unavailable |-> FALSE,
          cause |-> "ready", id |-> 0]

\* A published packet.  OnDispatch builds its Extra as an empty map (only
\* sized by the handler's extras), so no extra reaches the producer.
Packet == [id : 1..MaxEvents, kind : {"GUILD_CREATE", "GUILD_DELETE",
                                      "MESSAGE_CREATE"} \ ProduceBlacklist,
           guild : Guilds, cause : Causes]

PCs == {"loop", "lazyCheck", "lazyRead"}

\* The guilds READY names to shard s, all of them unavailable.
ReadyGuilds(s) == {g \in InitGuilds : Home[g] = s}

TypeOK ==
    /\ botIn \subseteq Guilds /\ available \subseteq Guilds
    /\ pending \subseteq InitGuilds /\ log \in Seq(Frame)
    /\ Len(log) <= MaxEvents
    /\ inbox \in [Shards -> Seq(Frame)]
    /\ pc \in [Shards -> PCs]
    /\ expired \in [Shards -> BOOLEAN]
    /\ isReady \in [Shards -> BOOLEAN] /\ signalled \in [Shards -> BOOLEAN]
    /\ lazy \in [Shards -> SUBSET Guilds]
    /\ unavail \in [Shards -> SUBSET Guilds]
    /\ shardGuilds \in [Shards -> SUBSET Guilds]
    /\ groupGuilds \subseteq Guilds /\ cached \subseteq Guilds
    /\ floodgate \in BOOLEAN
    /\ published \subseteq Packet

\* Each session starts with READY in its socket.
\* NewSandwichState creates every cache map empty, State.Guilds among them.
NewSandwichState == cached = {}

Init ==
    /\ botIn = InitGuilds
    /\ available = Guilds \ InitOutage
    /\ pending = InitGuilds
    /\ log = <<>>
    /\ inbox = [s \in Shards |-> <<Ready>>]
    /\ pc = [s \in Shards |-> "loop"]
    /\ expired = [s \in Shards |-> FALSE]
    /\ isReady = [s \in Shards |-> FALSE]
    /\ signalled = [s \in Shards |-> FALSE]
    /\ lazy = [s \in Shards |-> {}]
    /\ unavail = [s \in Shards |-> {}]
    /\ shardGuilds = [s \in Shards |-> {}]
    /\ groupGuilds = {}
    /\ NewSandwichState
    /\ floodgate = FALSE
    /\ published = {}

-----------------------------------------------------------------------------
(* Discord *)

\* Discord sends a numbered event about guild g to g's shard.
Send(kind, g, unav, cause) ==
    LET f == [kind |-> kind, guild |-> g, unavailable |-> unav,
              cause |-> cause, id |-> Len(log) + 1]
    IN /\ Len(log) < MaxEvents
       /\ log' = Append(log, f)
       /\ inbox' = [inbox EXCEPT ![Home[g]] = Append(@, f)]
       /\ UNCHANGED shardVars

\* The GUILD_CREATE of a guild named in READY, once it is available.
DiscordLoad(g) ==
    /\ g \in pending \cap available \cap botIn
    /\ Send("GUILD_CREATE", g, FALSE, "load")
    /\ pending' = pending \ {g}
    /\ UNCHANGED <<botIn, available>>

DiscordJoin(g) ==
    /\ g \notin botIn
    /\ Send("GUILD_CREATE", g, FALSE, "join")
    /\ botIn' = botIn \cup {g}
    /\ available' = available \cup {g}
    /\ UNCHANGED pending

\* The bot is removed from g, whether or not g was loaded or available.
DiscordKick(g) ==
    /\ g \in botIn
    /\ Send("GUILD_DELETE", g, FALSE, "kick")
    /\ botIn' = botIn \ {g}
    /\ pending' = pending \ {g}
    /\ UNCHANGED available

DiscordOutage(g) ==
    /\ g \in botIn \cap available
    /\ g \notin pending
    /\ Send("GUILD_DELETE", g, TRUE, "outage")
    /\ available' = available \ {g}
    /\ UNCHANGED <<botIn, pending>>

DiscordRecover(g) ==
    /\ g \in botIn \ available
    /\ g \notin pending
    /\ Send("GUILD_CREATE", g, FALSE, "recover")
    /\ available' = available \cup {g}
    /\ UNCHANGED <<botIn, pending>>

DiscordMessage(g) ==
    /\ g \in botIn \cap available
    /\ g \notin pending
    /\ Send("MESSAGE_CREATE", g, FALSE, "chat")
    /\ UNCHANGED <<botIn, available, pending>>

\* Frames that keep arriving on a live socket (presences, heartbeat acks):
\* one whenever the shard has read everything, not counted in MaxEvents.
DiscordBackground(s) ==
    /\ inbox[s] = <<>>
    /\ inbox' = [inbox EXCEPT ![s] = <<[kind |-> "PRESENCE_UPDATE",
                   guild |-> NoGuild, unavailable |-> FALSE,
                   cause |-> "background", id |-> 0]>>]
    /\ UNCHANGED <<discordVars, shardVars>>

DiscordStep ==
    \/ \E g \in Guilds :
          \/ DiscordLoad(g) \/ DiscordJoin(g) \/ DiscordKick(g)
          \/ DiscordOutage(g) \/ DiscordRecover(g) \/ DiscordMessage(g)

-----------------------------------------------------------------------------
(* The state handlers and OnDispatch *)

\* SetGuild adds the guild to ShardGroup.Guilds, State.Guilds and
\* Shard.Guilds; its sub-collections go to the maps other modules model.
SetGuild(s, g) ==
    /\ groupGuilds' = groupGuilds \cup {g}
    /\ cached' = cached \cup {g}
    /\ shardGuilds' = [shardGuilds EXCEPT ![s] = @ \cup {g}]

\* OnGuildCreate: SetGuild, then the extras are read from Lazy and
\* Unavailable, which drop the guild.
OnGuildCreate(s, g) ==
    /\ SetGuild(s, g)
    /\ lazy' = [lazy EXCEPT ![s] = @ \ {g}]
    /\ unavail' = [unavail EXCEPT ![s] = @ \ {g}]

\* Mutation: an outage is handled as the bot leaving the guild.
OnGuildDeleteIgnoreUnavailable(s, g, unav) ==
    /\ groupGuilds' = groupGuilds \ {g}
    /\ shardGuilds' = [shardGuilds EXCEPT ![s] = @ \ {g}]
    /\ UNCHANGED <<lazy, unavail, cached>>

\* OnGuildDelete: an outage marks the guild unavailable; otherwise the
\* guild leaves ShardGroup.Guilds and Shard.Guilds, the cache entry stays.
OnGuildDelete(s, g, unav) ==
    /\ IF unav
          THEN /\ unavail' = [unavail EXCEPT ![s] = @ \cup {g}]
               /\ UNCHANGED <<groupGuilds, shardGuilds>>
          ELSE /\ groupGuilds' = groupGuilds \ {g}
               /\ shardGuilds' = [shardGuilds EXCEPT ![s] = @ \ {g}]
               /\ UNCHANGED unavail
    /\ UNCHANGED <<lazy, cached>>

\* OnMessageCreate decodes the message and routes it by its guild id; it
\* writes nothing to the cache.
OnMessageCreate(s) == UNCHANGED stateVars

\* StateDispatch: the handler of the frame's type.  PRESENCE_UPDATE is in
\* EventBlacklist and never reaches it.
StateDispatch(s, f) ==
    CASE f.kind = "GUILD_CREATE" -> OnGuildCreate(s, f.guild)
      [] f.kind = "GUILD_DELETE" -> OnGuildDelete(s, f.guild, f.unavailable)
      [] f.kind = "MESSAGE_CREATE" -> OnMessageCreate(s)

\* The packet OnDispatch hands to the producer: the frame's data, with an
\* empty Extra whatever the handler returned.
PacketOf(s, f) ==
    [id |-> f.id, kind |-> f.kind, guild |-> f.guild, cause |-> f.cause]

\* Mutation: the produce blacklist is not consulted.
OnDispatchNoProduceBlacklist(s, f) ==
    IF f.kind \in EventBlacklist
       THEN UNCHANGED <<stateVars, published>>
       ELSE /\ StateDispatch(s, f)
            /\ published' = IF floodgate /\ f.id > 0
                               THEN published \cup {PacketOf(s, f)}
                               ELSE published

\* Shard.OnDispatch for every frame but READY.  Background frames are
\* handled as the rest and left out of the published set.
OnDispatch(s, f) ==
    IF f.kind \in EventBlacklist
       THEN UNCHANGED <<stateVars, published>>
       ELSE /\ StateDispatch(s, f)
            /\ published' =
                  IF floodgate /\ f.kind \notin ProduceBlacklist /\ f.id > 0
                     THEN published \cup {PacketOf(s, f)}
                     ELSE published
-----------------------------------------------------------------------------
(* The read loop of shard s *)

\* The read loop reads READY: OnReady marks the shard ready, seeds Lazy and
\* Guilds with READY's guilds, starts readyTimeout and enters its loop.
ReadLoopReady(s) ==
    /\ pc[s] = "loop"
    /\ inbox[s] # <<>> /\ Head(inbox[s]).kind = "READY"
    /\ inbox' = [inbox EXCEPT ![s] = Tail(@)]
    /\ isReady' = [isReady EXCEPT ![s] = TRUE]
    /\ lazy' = [lazy EXCEPT ![s] = @ \cup ReadyGuilds(s)]
    /\ shardGuilds' = [shardGuilds EXCEPT ![s] = @ \cup ReadyGuilds(s)]
    /\ expired' = [expired EXCEPT ![s] = FALSE]
    /\ pc' = [pc EXCEPT ![s] = "lazyCheck"]
    /\ UNCHANGED <<discordVars, signalled, unavail, groupGuilds, cached,
                   floodgate, published>>

\* The read loop reads any other frame and runs OnDispatch on it.
ReadLoopDispatch(s) ==
    /\ pc[s] = "loop"
    /\ inbox[s] # <<>> /\ Head(inbox[s]).kind # "READY"
    /\ inbox' = [inbox EXCEPT ![s] = Tail(@)]
    /\ OnDispatch(s, Head(inbox[s]))
    /\ UNCHANGED <<discordVars, pc, expired, isReady, signalled, floodgate>>

\* Top of the ready loop, readyTimeout fired: leave the loop, send the
\* ready signal and set the status to Ready; READY is not continuable.
OnReadyTimeout(s) ==
    /\ pc[s] = "lazyCheck" /\ expired[s]
    /\ signalled' = [signalled EXCEPT ![s] = TRUE]
    /\ pc' = [pc EXCEPT ![s] = "loop"]
    /\ UNCHANGED <<discordVars, inbox, expired, isReady, stateVars,
                   floodgate, published>>

\* Top of the ready loop, readyTimeout not fired: go on to readMessage.
OnReadyContinue(s) ==
    /\ pc[s] = "lazyCheck" /\ ~expired[s]
    /\ pc' = [pc EXCEPT ![s] = "lazyRead"]
    /\ UNCHANGED <<discordVars, inbox, expired, isReady, signalled,
                   stateVars, floodgate, published>>

\* Mutation: every frame read resets readyTimeout.
OnReadyReadResetAlways(s) ==
    /\ pc[s] = "lazyRead" /\ inbox[s] # <<>>
    /\ expired' = [expired EXCEPT ![s] = FALSE]
    /\ OnDispatch(s, Head(inbox[s]))
    /\ inbox' = [inbox EXCEPT ![s] = Tail(@)]
    /\ pc' = [pc EXCEPT ![s] = "lazyCheck"]
    /\ UNCHANGED <<discordVars, isReady, signalled, floodgate>>

\* readMessage returns a frame: a GUILD_CREATE resets readyTimeout, and
\* the frame goes through OnDispatch.
OnReadyRead(s) ==
    /\ pc[s] = "lazyRead" /\ inbox[s] # <<>>
    /\ LET f == Head(inbox[s])
       IN /\ expired' = [expired EXCEPT ![s] =
                           IF f.kind = "GUILD_CREATE" THEN FALSE ELSE @]
          /\ OnDispatch(s, f)
    /\ inbox' = [inbox EXCEPT ![s] = Tail(@)]
    /\ pc' = [pc EXCEPT ![s] = "lazyCheck"]
    /\ UNCHANGED <<discordVars, isReady, signalled, floodgate>>

\* readyTimeout fires ReadyTimeout after its last Reset.
ReadyTimeoutFires(s) ==
    /\ pc[s] \in {"lazyCheck", "lazyRead"} /\ ~expired[s]
    /\ expired' = [expired EXCEPT ![s] = TRUE]
    /\ UNCHANGED <<discordVars, inbox, pc, isReady, signalled, stateVars,
                   floodgate, published>>

ShardStep(s) ==
    \/ ReadLoopReady(s) \/ ReadLoopDispatch(s)
    \/ OnReadyTimeout(s) \/ OnReadyContinue(s) \/ OnReadyRead(s)

\* The ShardGroup opens its floodgate once every shard signalled ready.
OpenFloodgate ==
    /\ ~floodgate
    /\ \A s \in Shards : signalled[s]
    /\ floodgate' = TRUE
    /\ UNCHANGED <<discordVars, inbox, pc, expired, isReady, signalled,
                   stateVars, published>>

Next ==
    \/ DiscordStep
    \/ \E s \in Shards : DiscordBackground(s) \/ ReadyTimeoutFires(s)
                          \/ ShardStep(s)
    \/ OpenFloodgate

\* Read loops run, time passes, a live socket keeps delivering frames
\* (heartbeat acks at least) and the ShardGroup reacts to its shards.
Spec ==
    /\ Init /\ [][Next]_vars
    /\ \A s \in Shards : /\ WF_vars(ShardStep(s))
                         /\ WF_vars(ReadyTimeoutFires(s))
                         /\ WF_vars(DiscordBackground(s))
    /\ WF_vars(OpenFloodgate)

-----------------------------------------------------------------------------
(* Properties *)

\* Every read loop is back in its main loop and has read every frame.
Quiescent ==
    \A s \in Shards : pc[s] = "loop" /\ inbox[s] = <<>>

\* The refinement mapping onto PublishGate: a shard is ready once it sent
\* its ready signal, the gate is the floodgate, an event is sent once it is
\* in the log, muted when its type is blacklisted, handled once no inbox
\* holds it any more, and published when a packet carries its id.
InFlight == UNION {{inbox[s][k].id : k \in DOMAIN inbox[s]} : s \in Shards}

Gate == INSTANCE PublishGate WITH
            Ids <- 1..MaxEvents,
            ready <- {s \in Shards : signalled[s]},
            open <- floodgate,
            sent <- {log[i].id : i \in DOMAIN log},
            mute <- {log[i].id : i \in {j \in DOMAIN log :
                        log[j].kind \in ProduceBlacklist \cup EventBlacklist}},
            done <- {log[i].id : i \in DOMAIN log} \ InFlight,
            out <- {p.id : p \in published}

\* The read loops, OnReady and OnDispatch implement the group's publishing
\* promise: only events Discord sent are published, each handled once, and
\* only through the open floodgate, which opens once every shard left
\* READY's lazy loop (even while frames other than GUILD_CREATE keep
\* arriving, since only GUILD_CREATE resets readyTimeout); every event is
\* eventually handled, and one handled with the floodgate open is
\* published unless its type is blacklisted.
ImplementsPublishGate == Gate!GateSpec

\* Once every frame is read, each shard's Guilds set is the set of guilds
\* the bot is in on that shard: READY seeds it, SetGuild adds to it and a
\* GUILD_DELETE that is not an outage removes from it.
ShardGuildsTrackDiscord ==
    Quiescent => \A s \in Shards :
                    shardGuilds[s] = {g \in botIn : Home[g] = s}
====
