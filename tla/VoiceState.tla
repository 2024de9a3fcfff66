----------------------------- MODULE VoiceState -----------------------------
(***************************************************************************)
(* Voice states of one guild, its guild channels and the MemberCount kept  *)
(* on its voice channels.                                                  *)
(*                                                                         *)
(* Source: src/internal/events_dispatch.go OnVoiceStateUpdate (1108-1145), *)
(* OnChannelCreate (229-253), OnChannelUpdate (255-296), OnChannelDelete   *)
(* (298-336), OnChannelPinsUpdate (338-366); src/internal/state.go         *)
(* UpdateVoiceState (785-834), GetVoiceState (764-782), GetGuildChannel    *)
(* (522-557), SetGuildChannel (561-591), RemoveGuildChannel (594-613),     *)
(* CountMembersForVoiceChannel (864-881).  UpdateGuildChannel, which       *)
(* OnChannelPinsUpdate calls, is not in the source tree and is modelled    *)
(* from the spec: an in-place update of a cached channel.                  *)
(*                                                                         *)
(* UpdateVoiceState stores or deletes the user's voice state, then for the *)
(* channel the user was in before and the one they are in now it reads the *)
(* channel (GetGuildChannel returns a copy), counts the voice states in    *)
(* it, and stores the copy back with the new MemberCount.  Each of these   *)
(* map calls is one step.  A channel is abstracted to its MemberCount, a   *)
(* version number for the fields CHANNEL_UPDATE carries and one for its    *)
(* LastPinTimestamp; a voice channel object from Discord has no            *)
(* member_count, so the decoded payload has 0.  The member object a voice  *)
(* state carries (SetGuildMember) is left to MemberDedupe.  Channel ids    *)
(* are snowflakes: a deleted channel is never created again.               *)
(***************************************************************************)
EXTENDS Integers, Sequences, FiniteSets

CONSTANTS
    Users,           \* users that may join, move between or leave channels
    Channels,        \* the guild's voice channels
    Shards,          \* read loops that receive the guild's events
    MaxEvents,       \* bound on the events Discord emits
    InitChannels,    \* channels that exist when GUILD_CREATE is cached
    ChannelEvents,   \* which of CHANNEL_UPDATE, _CREATE, _DELETE, _PINS_UPDATE
                     \* Discord sends
    NoChannel        \* channel_id 0: not in a voice channel

ASSUME /\ Shards # {}
       /\ MaxEvents \in Nat
       /\ InitChannels \subseteq Channels
       /\ ChannelEvents \subseteq {"update", "create", "delete", "pins"}
       /\ NoChannel \notin Channels

VARIABLES
    tVoice,    \* tVoice[u]: the channel Discord has user u in
    tName,     \* tName[c]: latest version of channel c's fields
    tPin,      \* tPin[c]: latest version of its LastPinTimestamp
    tChan,     \* the channels Discord has
    history,   \* events Discord emitted, in order
    inbox,     \* inbox[s]: indices into history not yet read by shard s
    voice,     \* GuildVoiceStates[g]: voice[u], NoChannel when no entry
    cached,    \* the keys of GuildChannels[g].Channels
    chan,      \* chan[c] = [count, name, pin], meaningful for c \in cached
    pc,        \* pc[s]: where shard s is inside a handler
    cur,       \* cur[s]: the event shard s is handling
    before,    \* before[s]: channel of the voice state GetVoiceState found
    copy,      \* copy[s]: the channel GetGuildChannel returned
    copyOk,    \* copyOk[s]: its ok result
    counted    \* counted[s]: what CountMembersForVoiceChannel returned

vars == <<tVoice, tName, tPin, tChan, history, inbox, voice, cached, chan, pc,
          cur, before, copy, copyOk, counted>>

DiscordVars == <<tVoice, tName, tPin, tChan, history>>

Idle == "idle"
Slot == Channels \cup {NoChannel}
Version == 0..MaxEvents
Channel == [count : 0..Cardinality(Users), name : Version, pin : Version]
ZeroChannel == [count |-> 0, name |-> 0, pin |-> 0]
Event == [kind : {"voice", "update", "create", "delete", "pins"},
          user : Users \cup {NoChannel}, channel : Slot, name : Version,
          pin : Version]
\* the recount of the channel the user left, then of the one they joined
Phases == {"Before", "After"}
PCs == {Idle, "vsStore"} \cup
       {p \o q : p \in {"vsGet", "vsCount", "vsSet"}, q \in Phases}

Ev(s) == history[cur[s]]

\* The channel a recount phase is about: before, or the payload's channel.
Target(s, phase) == IF phase = "Before" THEN before[s] ELSE Ev(s).channel

TypeOK ==
    /\ tVoice \in [Users -> Slot]
    /\ tChan \subseteq Channels /\ cached \subseteq Channels
    /\ history \in Seq(Event) /\ Len(history) <= MaxEvents
    /\ inbox \in [Shards -> Seq(1..MaxEvents)]
    /\ voice \in [Users -> Slot]
    /\ chan \in [Channels -> Channel]
    /\ pc \in [Shards -> PCs]
    /\ cur \in [Shards -> 0..MaxEvents]
    /\ before \in [Shards -> Slot]
    /\ copy \in [Shards -> Channel]
    /\ copyOk \in [Shards -> BOOLEAN]
    /\ counted \in [Shards -> 0..Cardinality(Users)]

Init ==
    /\ tVoice = [u \in Users |-> NoChannel]
    /\ tName = [c \in Channels |-> 0]
    /\ tPin = [c \in Channels |-> 0]
    /\ tChan = InitChannels
    /\ cached = InitChannels
    /\ history = <<>>
    /\ inbox = [s \in Shards |-> <<>>]
    /\ voice = [u \in Users |-> NoChannel]
    /\ chan = [c \in Channels |-> ZeroChannel]
    /\ pc = [s \in Shards |-> Idle]
    /\ cur = [s \in Shards |-> 0]
    /\ before = [s \in Shards |-> NoChannel]
    /\ copy = [s \in Shards |-> ZeroChannel]
    /\ copyOk = [s \in Shards |-> FALSE]
    /\ counted = [s \in Shards |-> 0]

(***************************************************************************)
(* Discord: a user joins, moves or leaves (channel NoChannel), or a        *)
(* channel is created, changed or deleted.  Every session receives every   *)
(* event.  Discord disconnects the users of a channel before deleting it.  *)
(***************************************************************************)
Emit(e) ==
    LET i == Len(history) + 1
    IN /\ i <= MaxEvents
       /\ history' = Append(history, e)
       /\ inbox' = [s \in Shards |-> Append(inbox[s], i)]

NewVersion == Len(history) + 1

\* A channel event carries the channel object: its fields and last pin.
ChannelEvent(kind, c, name, pin) ==
    [kind |-> kind, user |-> NoChannel, channel |-> c, name |-> name, pin |-> pin]

DiscordVoice(u, c) ==
    /\ tVoice[u] # NoChannel \/ c # NoChannel
    /\ c \in tChan \cup {NoChannel}
    /\ Emit([kind |-> "voice", user |-> u, channel |-> c, name |-> 0, pin |-> 0])
    /\ tVoice' = [tVoice EXCEPT ![u] = c]
    /\ UNCHANGED <<tName, tPin, tChan>>

DiscordChannelUpdate(c) ==
    /\ "update" \in ChannelEvents /\ c \in tChan
    /\ Emit(ChannelEvent("update", c, NewVersion, tPin[c]))
    /\ tName' = [tName EXCEPT ![c] = NewVersion]
    /\ UNCHANGED <<tVoice, tPin, tChan>>

DiscordChannelCreate(c) ==
    /\ "create" \in ChannelEvents
    /\ c \notin InitChannels
    /\ \A i \in DOMAIN history : history[i].channel # c
    /\ Emit(ChannelEvent("create", c, NewVersion, tPin[c]))
    /\ tName' = [tName EXCEPT ![c] = NewVersion]
    /\ tChan' = tChan \cup {c}
    /\ UNCHANGED <<tVoice, tPin>>

DiscordChannelDelete(c) ==
    /\ "delete" \in ChannelEvents /\ c \in tChan
    /\ \A u \in Users : tVoice[u] # c
    /\ Emit(ChannelEvent("delete", c, tName[c], tPin[c]))
    /\ tChan' = tChan \ {c}
    /\ UNCHANGED <<tVoice, tName, tPin>>

\* A message of channel c is pinned or unpinned.
DiscordChannelPinsUpdate(c) ==
    /\ "pins" \in ChannelEvents /\ c \in tChan
    /\ Emit(ChannelEvent("pins", c, tName[c], NewVersion))
    /\ tPin' = [tPin EXCEPT ![c] = NewVersion]
    /\ UNCHANGED <<tVoice, tName, tChan>>

DiscordStep ==
    /\ UNCHANGED <<voice, cached, chan, pc, cur, before, copy, copyOk, counted>>
    /\ \/ \E u \in Users, c \in Slot : DiscordVoice(u, c)
       \/ \E c \in Channels : \/ DiscordChannelUpdate(c)
                             \/ DiscordChannelCreate(c)
                             \/ DiscordChannelDelete(c)
                             \/ DiscordChannelPinsUpdate(c)

\* The read loop of shard s takes its next event, of the given kind.
Take(s, kind) ==
    /\ pc[s] = Idle
    /\ inbox[s] # <<>>
    /\ history[Head(inbox[s])].kind = kind
    /\ inbox' = [inbox EXCEPT ![s] = Tail(inbox[s])]
    /\ cur' = [cur EXCEPT ![s] = Head(inbox[s])]

\* CountMembersForVoiceChannel: voice states whose channel is c.
CountMembersForVoiceChannel(c) == Cardinality({u \in Users : voice[u] = c})

\* GetVoiceState: VoiceStates.Load(u); a missing entry is the zero voice
\* state, whose channel id 0 is NoChannel.
GetVoiceState(u) == voice[u]

(***************************************************************************)
(* OnVoiceStateUpdate with a guild id calls UpdateVoiceState, whose        *)
(* GetVoiceState reads the user's current voice state (the "before").      *)
(***************************************************************************)
OnVoiceStateUpdateGetBefore(s) ==
    LET e == history[Head(inbox[s])]
    IN /\ Take(s, "voice")
       /\ before' = [before EXCEPT ![s] = GetVoiceState(e.user)]
       /\ pc' = [pc EXCEPT ![s] = "vsStore"]
       /\ UNCHANGED DiscordVars
       /\ UNCHANGED <<voice, cached, chan, copy, copyOk, counted>>

\* The recount that follows the store, if any: the old channel first.
NextAfterStore(s) ==
    IF before[s] # NoChannel THEN "vsGetBefore"
    ELSE IF Ev(s).channel # NoChannel THEN "vsGetAfter"
    ELSE Idle

\* After the recount of a phase: the new channel's, or the handler returns.
NextAfterRecount(s, phase) ==
    IF phase = "Before" /\ Ev(s).channel # NoChannel THEN "vsGetAfter" ELSE Idle

\* Mutation: leaving (channel_id 0) does not delete the voice state.
UpdateVoiceStateStoreNoDelete(s) ==
    /\ pc[s] = "vsStore"
    /\ voice' = IF Ev(s).channel = NoChannel THEN voice
                ELSE [voice EXCEPT ![Ev(s).user] = Ev(s).channel]
    /\ pc' = [pc EXCEPT ![s] = NextAfterStore(s)]
    /\ UNCHANGED DiscordVars
    /\ UNCHANGED <<inbox, cached, chan, cur, before, copy, copyOk, counted>>

\* VoiceStates.Delete(user) when channel_id is 0, VoiceStates.Store otherwise.
UpdateVoiceStateStore(s) ==
    /\ pc[s] = "vsStore"
    /\ voice' = [voice EXCEPT ![Ev(s).user] = Ev(s).channel]
    /\ pc' = [pc EXCEPT ![s] = NextAfterStore(s)]
    /\ UNCHANGED DiscordVars
    /\ UNCHANGED <<inbox, cached, chan, cur, before, copy, copyOk, counted>>

\* GetGuildChannel: the cached channel and ok, or the zero channel.
GetGuildChannel(c) ==
    IF c \in cached THEN chan[c] ELSE ZeroChannel

\* voiceChannel, ok := GetGuildChannel(g, channel); if !ok the phase is over.
UpdateVoiceStateGetChannel(s, phase) ==
    LET c == Target(s, phase)
    IN /\ pc[s] = "vsGet" \o phase
       /\ copy' = [copy EXCEPT ![s] = GetGuildChannel(c)]
       /\ copyOk' = [copyOk EXCEPT ![s] = c \in cached]
       /\ pc' = [pc EXCEPT ![s] = IF c \in cached THEN "vsCount" \o phase
                                  ELSE NextAfterRecount(s, phase)]
       /\ UNCHANGED DiscordVars
       /\ UNCHANGED <<inbox, voice, cached, chan, cur, before, counted>>

\* voiceChannel.MemberCount = CountMembersForVoiceChannel(g, channel)
UpdateVoiceStateCount(s, phase) ==
    /\ pc[s] = "vsCount" \o phase
    /\ counted' = [counted EXCEPT ![s] =
                      CountMembersForVoiceChannel(Target(s, phase))]
    /\ pc' = [pc EXCEPT ![s] = "vsSet" \o phase]
    /\ UNCHANGED DiscordVars
    /\ UNCHANGED <<inbox, voice, cached, chan, cur, before, copy, copyOk>>

\* SetGuildChannel stores channel c, creating the key if it is not there.
SetGuildChannel(c, ch) ==
    /\ chan' = [chan EXCEPT ![c] = ch]
    /\ cached' = cached \cup {c}

\* The channel object of a CHANNEL_* payload: no member_count.
Payload(e) == [count |-> 0, name |-> e.name, pin |-> e.pin]

\* RemoveGuildChannel: Delete of the key, if the guild has a channel map.
RemoveGuildChannel(c) == cached' = cached \ {c}

\* Mutation: the count is bumped on the copy instead of recounted.
UpdateVoiceStateSetChannelIncrement(s, phase) ==
    /\ pc[s] = "vsSet" \o phase
    /\ SetGuildChannel(Target(s, phase), [copy[s] EXCEPT !.count = @ + 1])
    /\ pc' = [pc EXCEPT ![s] = NextAfterRecount(s, phase)]
    /\ UNCHANGED DiscordVars
    /\ UNCHANGED <<inbox, voice, cur, before, copy, copyOk, counted>>

\* SetGuildChannel(g, voiceChannel): the copy with the new count.
UpdateVoiceStateSetChannel(s, phase) ==
    /\ pc[s] = "vsSet" \o phase
    /\ SetGuildChannel(Target(s, phase), [copy[s] EXCEPT !.count = counted[s]])
    /\ pc' = [pc EXCEPT ![s] = NextAfterRecount(s, phase)]
    /\ UNCHANGED DiscordVars
    /\ UNCHANGED <<inbox, voice, cur, before, copy, copyOk, counted>>

\* Mutation: the create is applied only to a channel already cached, as an
\* update-in-place would.
OnChannelCreateUpdateOnly(s) ==
    LET e == history[Head(inbox[s])]
    IN /\ Take(s, "create")
       /\ IF e.channel \in cached
             THEN SetGuildChannel(e.channel, Payload(e))
             ELSE UNCHANGED <<cached, chan>>
       /\ pc' = [pc EXCEPT ![s] = Idle]
       /\ UNCHANGED DiscordVars
       /\ UNCHANGED <<voice, before, copy, copyOk, counted>>

\* OnChannelCreate of a guild channel: SetGuildChannel(g, payload).
OnChannelCreate(s) ==
    LET e == history[Head(inbox[s])]
    IN /\ Take(s, "create")
       /\ SetGuildChannel(e.channel, Payload(e))
       /\ pc' = [pc EXCEPT ![s] = Idle]
       /\ UNCHANGED DiscordVars
       /\ UNCHANGED <<voice, before, copy, copyOk, counted>>

\* OnChannelUpdate of a guild channel: GetGuildChannel (the "before"
\* extra), then SetGuildChannel(g, payload).
OnChannelUpdate(s) ==
    LET e == history[Head(inbox[s])]
    IN /\ Take(s, "update")
       /\ SetGuildChannel(e.channel, Payload(e))
       /\ pc' = [pc EXCEPT ![s] = Idle]
       /\ UNCHANGED DiscordVars
       /\ UNCHANGED <<voice, before, copy, copyOk, counted>>

\* OnChannelDelete of a guild channel: GetGuildChannel (the "before"
\* extra), then RemoveGuildChannel, a Delete of the key.
OnChannelDelete(s) ==
    LET e == history[Head(inbox[s])]
    IN /\ Take(s, "delete")
       /\ RemoveGuildChannel(e.channel)
       /\ pc' = [pc EXCEPT ![s] = Idle]
       /\ UNCHANGED DiscordVars
       /\ UNCHANGED <<voice, chan, before, copy, copyOk, counted>>

\* UpdateGuildChannel(g, c, f): f applied to the cached channel in place,
\* nothing when c is not cached.
UpdateGuildChannel(c, pin) ==
    /\ chan' = IF c \in cached THEN [chan EXCEPT ![c].pin = pin] ELSE chan
    /\ UNCHANGED cached

\* Mutation: the guild branch is taken for DM pins and vice versa.
OnChannelPinsUpdateDMBranch(s) ==
    /\ Take(s, "pins")
    /\ pc' = [pc EXCEPT ![s] = Idle]
    /\ UNCHANGED DiscordVars
    /\ UNCHANGED <<voice, cached, chan, before, copy, copyOk, counted>>

\* OnChannelPinsUpdate with a guild id: UpdateGuildChannel setting
\* LastPinTimestamp.
OnChannelPinsUpdate(s) ==
    LET e == history[Head(inbox[s])]
    IN /\ Take(s, "pins")
       /\ UpdateGuildChannel(e.channel, e.pin)
       /\ pc' = [pc EXCEPT ![s] = Idle]
       /\ UNCHANGED DiscordVars
       /\ UNCHANGED <<voice, before, copy, copyOk, counted>>

ShardStep(s) ==
    \/ OnVoiceStateUpdateGetBefore(s)
    \/ UpdateVoiceStateStore(s)
    \/ \E phase \in Phases :
          \/ UpdateVoiceStateGetChannel(s, phase)
          \/ UpdateVoiceStateCount(s, phase)
          \/ UpdateVoiceStateSetChannel(s, phase)
    \/ OnChannelCreate(s)
    \/ OnChannelUpdate(s)
    \/ OnChannelDelete(s)
    \/ OnChannelPinsUpdate(s)

Next == DiscordStep \/ \E s \in Shards : ShardStep(s)

\* Every read loop keeps handling what its socket delivered.
Spec == Init /\ [][Next]_vars /\ \A s \in Shards : WF_vars(ShardStep(s))

-----------------------------------------------------------------------------
(* Properties *)

\* No handler is running and no event is waiting.
Quiescent ==
    \A s \in Shards : pc[s] = Idle /\ inbox[s] = <<>>

\* Once every handler is done, the cached voice states are Discord's.
VoiceTracksDiscord ==
    Quiescent => voice = tVoice

\* Once every handler is done, the cached channels are the ones Discord has:
\* a recount whose SetGuildChannel lands after another session's
\* RemoveGuildChannel puts a deleted channel back, and only the DELETE this
\* session has still to read takes it out again.
CachedChannelsTrackDiscord ==
    Quiescent => cached = tChan

\* Once every handler is done, each cached channel has the fields and the
\* LastPinTimestamp Discord last sent: a recount that stores back its copy
\* over a newer CHANNEL_UPDATE or pin update of another session loses it
\* until this session's own copy of that event is handled.
ChannelTracksDiscord ==
    Quiescent => \A c \in cached : chan[c].name = tName[c] /\ chan[c].pin = tPin[c]

=============================================================================
