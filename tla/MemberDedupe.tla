---------------------------- MODULE MemberDedupe ----------------------------
(***************************************************************************)
(* GUILD_MEMBER_ADD / GUILD_MEMBER_REMOVE handling for one guild, with the *)
(* process-wide dedupe store and the shared member count, and the other    *)
(* writers of the member map, GUILD_MEMBER_UPDATE and GUILD_MEMBERS_CHUNK. *)
(*                                                                         *)
(* Source: src/internal/events_dispatch.go OnGuildMemberAdd (655-696),     *)
(* OnGuildMemberRemove (698-748), OnGuildMemberUpdate (750-780) and        *)
(* OnGuildMembersChunk (157-227); SetGuildMember (279-303),                *)
(* RemoveGuildMember (306-314), AddUserMutualGuild (716-735) and           *)
(* RemoveUserMutualGuild (737-745) of src/internal/state.go.  Every shard  *)
(* runs its own read loop, so the handlers of different shards interleave  *)
(* at the granularity of one concurrent-map call.  Several shards receive  *)
(* the same guild's events when two Managers (bots) share the guild, or    *)
(* while an old and a new ShardGroup overlap during a reshard: that is     *)
(* what the dedupe is for.                                                 *)
(*                                                                         *)
(* The guild is assumed cached (GUILD_CREATE processed) and its group's    *)
(* floodgate open, so a continuable result is published.  Distinct guilds  *)
(* use distinct dedupe keys and counters, so one guild is modelled.        *)
(* Members are cached (CacheMembers, which a chunk forces on).  A chunk    *)
(* answers the one member request ChunkAllGuilds made for the guild, in    *)
(* ChunkCount chunks, to the requesting session; its GuildChunks entry     *)
(* has no ChunkingChannel (partial mode).                                  *)
(***************************************************************************)
EXTENDS Integers, Sequences, FiniteSets

CONSTANTS
    Users,          \* user ids that may join or leave the guild
    Shards,         \* read loops that receive this guild's events
    InitMembers,    \* the guild's members when it was cached
    MaxEvents,      \* bound on membership changes made by Discord
    MaxChangesPerUser, \* bound on the changes of one user's membership
    StoreMutuals,   \* Configuration.Caching.StoreMutuals
    KeysMayExpire,  \* TRUE: a dedupe key may lapse before a late duplicate
    Windows,        \* possible assignments shard -> indices it receives
    MemberUpdates,  \* TRUE: Discord may send GUILD_MEMBER_UPDATE
    ChunkCount,     \* chunks answering the guild's member request, 0: none
    None            \* no user: the user field of a chunk

ASSUME /\ InitMembers \subseteq Users
       /\ Shards # {}
       /\ MaxEvents \in Nat
       /\ MaxChangesPerUser \in Nat \ {0}
       /\ StoreMutuals \in BOOLEAN
       /\ KeysMayExpire \in BOOLEAN
       /\ MemberUpdates \in BOOLEAN
       /\ ChunkCount \in Nat
       /\ None \notin Users
       /\ Windows \subseteq [Shards -> SUBSET (1..MaxEvents)]
       \* every event reaches at least one session
       /\ \A w \in Windows, i \in 1..MaxEvents : \E s \in Shards : i \in w[s]

VARIABLES
    trueMembers,  \* membership as Discord knows it
    history,      \* every membership event Discord emitted, in order
    inbox,        \* inbox[s]: indices into history not yet read by shard s
    dedupe,       \* Sandwich dedupe store: set of <<kind, user>> keys
    memberCount,  \* State.Guilds[g].MemberCount
    members,      \* State.GuildMembers[g]: ids with a cached member
    mutuals,      \* users u with g in State.Mutuals[u]
    pc,           \* pc[s]: where shard s is inside a handler
    cur,          \* cur[s]: index of the event shard s is handling
    loaded,       \* loaded[s]: MemberCount read by Guilds.Load in REMOVE
    published,    \* published[i]: how many times event i reached Publish
    read,         \* indices of events some read loop has taken
    window,       \* window[s]: indices of the events session s receives
    chunkRecv,    \* GuildChunks[g].ChunkCount: chunks counted
    complete      \* GuildChunks[g].Complete

vars == <<trueMembers, history, inbox, dedupe, memberCount, members,
          mutuals, pc, cur, loaded, published, read, window, chunkRecv,
          complete>>

\* the membership changes, which the dedupe store guards
Kinds == {"add", "remove"}
Event == [kind : Kinds \cup {"update", "chunk"}, user : Users \cup {None},
          members : SUBSET Users]
DedupeKey == Kinds \X Users
Idle == "idle"
PCs == {Idle, "addRemoveDedupe", "addUpdateCount", "addSetMember",
        "rmRemoveDedupe", "rmLoadGuild", "rmStoreCount", "rmRemoveMember"}

\* createDedupeMemberAddKey / createDedupeMemberRemoveKey
AddKey(u) == <<"add", u>>
RemoveKey(u) == <<"remove", u>>

Ev(s) == history[cur[s]]

TypeOK ==
    /\ trueMembers \subseteq Users
    /\ history \in Seq(Event) /\ Len(history) <= MaxEvents
    /\ inbox \in [Shards -> Seq(1..MaxEvents)]
    /\ dedupe \subseteq DedupeKey
    /\ memberCount \in 0..Cardinality(Users)
    /\ members \subseteq Users
    /\ mutuals \subseteq Users
    /\ pc \in [Shards -> PCs]
    /\ cur \in [Shards -> 0..MaxEvents]
    /\ loaded \in [Shards -> Int]
    /\ published \in [1..Len(history) -> Nat]
    /\ read \subseteq 1..Len(history)
    /\ window \in Windows
    /\ chunkRecv \in 0..ChunkCount
    /\ complete \in BOOLEAN

Init ==
    /\ trueMembers = InitMembers
    /\ history = <<>>
    /\ inbox = [s \in Shards |-> <<>>]
    /\ dedupe = {}
    /\ memberCount = Cardinality(InitMembers)
    /\ members = InitMembers
    /\ mutuals = IF StoreMutuals THEN InitMembers ELSE {}
    /\ pc = [s \in Shards |-> Idle]
    /\ cur = [s \in Shards |-> 0]
    /\ loaded = [s \in Shards |-> 0]
    /\ published = <<>>
    /\ read = {}
    /\ window \in Windows
    /\ chunkRecv = 0
    /\ complete = FALSE

(***************************************************************************)
(* Discord: a user joins or leaves, and the gateway delivers the event to  *)
(* every session that covers the guild at that moment, each in its order.  *)
(* Two bots in the guild both receive every event; in a rolling reshard    *)
(* the old session receives a prefix of the events and the new one a      *)
(* suffix, overlapping while both are connected.  The window variable     *)
(* fixes, per behaviour, which events each session receives.              *)
(***************************************************************************)
ChangesOf(u) == Cardinality({i \in 1..Len(history) : history[i].user = u})

\* Event e, the next index, goes to the sessions in to.
Deliver(e, to) ==
    LET i == Len(history) + 1
    IN /\ i <= MaxEvents
       /\ history' = Append(history, e)
       /\ published' = [j \in 1..i |-> IF j < i THEN published[j] ELSE 0]
       /\ inbox' = [s \in Shards |->
                       IF s \in to THEN Append(inbox[s], i) ELSE inbox[s]]

\* A guild event goes to every session whose window covers it.
Emit(e) ==
    /\ ChangesOf(e.user) < MaxChangesPerUser
    /\ Deliver(e, {s \in Shards : Len(history) + 1 \in window[s]})

DiscordJoin(u) ==
    /\ u \notin trueMembers
    /\ trueMembers' = trueMembers \cup {u}
    /\ Emit([kind |-> "add", user |-> u, members |-> {}])
    /\ UNCHANGED <<dedupe, memberCount, members, mutuals, pc, cur, loaded,
                   read, window, chunkRecv,
                   complete>>

DiscordLeave(u) ==
    /\ u \in trueMembers
    /\ trueMembers' = trueMembers \ {u}
    /\ Emit([kind |-> "remove", user |-> u, members |-> {}])
    /\ UNCHANGED <<dedupe, memberCount, members, mutuals, pc, cur, loaded,
                   read, window, chunkRecv,
                   complete>>

\* A member's nick or roles change.
DiscordMemberUpdate(u) ==
    /\ MemberUpdates
    /\ u \in trueMembers
    /\ Emit([kind |-> "update", user |-> u, members |-> {}])
    /\ UNCHANGED <<trueMembers, dedupe, memberCount, members, mutuals, pc, cur,
                   loaded, read, window, chunkRecv, complete>>

\* The next chunk of the member list, as Discord has it now, to the session
\* s that requested it.
DiscordMembersChunk(s, m) ==
    /\ Cardinality({i \in 1..Len(history) : history[i].kind = "chunk"})
           < ChunkCount
    /\ Len(history) + 1 \in window[s]
    /\ m \subseteq trueMembers
    /\ Deliver([kind |-> "chunk", user |-> None, members |-> m], {s})
    /\ UNCHANGED <<trueMembers, dedupe, memberCount, members, mutuals, pc, cur,
                   loaded, read, window, chunkRecv, complete>>

(***************************************************************************)
(* A shard's read loop takes the next event and enters the handler: the    *)
(* decode and CheckAndAddDedupe of its own key.  A key already present     *)
(* makes the handler return (result, false, nil): nothing is published.    *)
(***************************************************************************)
Take(s) ==
    /\ pc[s] = Idle
    /\ inbox[s] # <<>>
    /\ inbox' = [inbox EXCEPT ![s] = Tail(inbox[s])]
    /\ read' = read \cup {Head(inbox[s])}

CheckAndAddDedupe(k) == k \in dedupe

\* SetGuildMember for the members m: Members.Store(user id, member), an
\* upsert.
SetGuildMember(m) == members' = members \cup m

\* RemoveGuildMember: Members.Delete(user id).
RemoveGuildMember(u) == members' = members \ {u}

\* AddUserMutualGuild: returns at once unless StoreMutuals, then
\* Mutuals[u].Guilds.Store(g).
AddUserMutualGuild(u) ==
    mutuals' = IF StoreMutuals THEN mutuals \cup {u} ELSE mutuals

\* Mutation: the guild is not deleted from the user's mutual guilds.
RemoveUserMutualGuildSkipped(u) == UNCHANGED mutuals

\* RemoveUserMutualGuild: Mutuals[u].Guilds.Delete(g), whatever StoreMutuals.
RemoveUserMutualGuild(u) == mutuals' = mutuals \ {u}

OnGuildMemberAddCheck(s) ==
    LET i == Head(inbox[s])
        u == history[i].user
    IN /\ Take(s)
       /\ history[i].kind = "add"
       /\ cur' = [cur EXCEPT ![s] = i]
       /\ IF CheckAndAddDedupe(AddKey(u))
             THEN UNCHANGED <<dedupe, pc>>
             ELSE /\ dedupe' = dedupe \cup {AddKey(u)}
                  /\ pc' = [pc EXCEPT ![s] = "addRemoveDedupe"]
       /\ UNCHANGED <<trueMembers, history, memberCount, members, mutuals,
                      loaded, published, window, chunkRecv,
                   complete>>

\* Mutation: ADD leaves a pending remove key in place.
OnGuildMemberAddKeepRemoveKey(s) ==
    /\ pc[s] = "addRemoveDedupe"
    /\ pc' = [pc EXCEPT ![s] = "addUpdateCount"]
    /\ UNCHANGED <<trueMembers, history, inbox, dedupe, memberCount, members,
                   mutuals, cur, loaded, published, read, window, chunkRecv,
                   complete>>

\* ctx.Sandwich.RemoveDedupe(ddRemoveKey)
OnGuildMemberAddRemoveDedupe(s) ==
    /\ pc[s] = "addRemoveDedupe"
    /\ dedupe' = dedupe \ {RemoveKey(Ev(s).user)}
    /\ pc' = [pc EXCEPT ![s] = "addUpdateCount"]
    /\ UNCHANGED <<trueMembers, history, inbox, memberCount, members,
                   mutuals, cur, loaded, published, read, window, chunkRecv,
                   complete>>

\* State.Guilds.Update(g, MemberCount++): atomic under the map's lock
OnGuildMemberAddUpdateCount(s) ==
    /\ pc[s] = "addUpdateCount"
    /\ memberCount' = memberCount + 1
    /\ pc' = [pc EXCEPT ![s] = "addSetMember"]
    /\ UNCHANGED <<trueMembers, history, inbox, dedupe, members, mutuals,
                   cur, loaded, published, read, window, chunkRecv,
                   complete>>

\* SetGuildMember, AddUserMutualGuild when StoreMutuals, return continuable
\* and OnDispatch publishes.
OnGuildMemberAddSetMember(s) ==
    /\ pc[s] = "addSetMember"
    /\ SetGuildMember({Ev(s).user})
    /\ AddUserMutualGuild(Ev(s).user)
    /\ published' = [published EXCEPT ![cur[s]] = @ + 1]
    /\ pc' = [pc EXCEPT ![s] = Idle]
    /\ UNCHANGED <<trueMembers, history, inbox, dedupe, memberCount, cur,
                   loaded, read, window, chunkRecv,
                   complete>>

OnGuildMemberRemoveCheck(s) ==
    LET i == Head(inbox[s])
        u == history[i].user
    IN /\ Take(s)
       /\ history[i].kind = "remove"
       /\ cur' = [cur EXCEPT ![s] = i]
       /\ IF CheckAndAddDedupe(RemoveKey(u))
             THEN UNCHANGED <<dedupe, pc>>
             ELSE /\ dedupe' = dedupe \cup {RemoveKey(u)}
                  /\ pc' = [pc EXCEPT ![s] = "rmRemoveDedupe"]
       /\ UNCHANGED <<trueMembers, history, memberCount, members, mutuals,
                      loaded, published, window, chunkRecv,
                   complete>>

\* ctx.Sandwich.RemoveDedupe(ddAddKey)
OnGuildMemberRemoveRemoveDedupe(s) ==
    /\ pc[s] = "rmRemoveDedupe"
    /\ dedupe' = dedupe \ {AddKey(Ev(s).user)}
    /\ pc' = [pc EXCEPT ![s] = "rmLoadGuild"]
    /\ UNCHANGED <<trueMembers, history, inbox, memberCount, members,
                   mutuals, cur, loaded, published, read, window, chunkRecv,
                   complete>>

\* guild, ok := State.Guilds.Load(g): a copy of the guild, lock released
OnGuildMemberRemoveLoadGuild(s) ==
    /\ pc[s] = "rmLoadGuild"
    /\ loaded' = [loaded EXCEPT ![s] = memberCount]
    /\ pc' = [pc EXCEPT ![s] = "rmStoreCount"]
    /\ UNCHANGED <<trueMembers, history, inbox, dedupe, memberCount, members,
                   mutuals, cur, published, read, window, chunkRecv,
                   complete>>

\* Mutation: the loaded copy is stored back without the decrement.
OnGuildMemberRemoveStoreNoDecrement(s) ==
    /\ pc[s] = "rmStoreCount"
    /\ memberCount' = loaded[s]
    /\ pc' = [pc EXCEPT ![s] = "rmRemoveMember"]
    /\ UNCHANGED <<trueMembers, history, inbox, dedupe, members, mutuals,
                   cur, loaded, published, read, window, chunkRecv,
                   complete>>

\* guild.MemberCount--; State.Guilds.SetIfPresent(g, guild)
OnGuildMemberRemoveStoreCount(s) ==
    /\ pc[s] = "rmStoreCount"
    /\ memberCount' = loaded[s] - 1
    /\ pc' = [pc EXCEPT ![s] = "rmRemoveMember"]
    /\ UNCHANGED <<trueMembers, history, inbox, dedupe, members, mutuals,
                   cur, loaded, published, read, window, chunkRecv,
                   complete>>

\* Mutation: the member is left in the cache (RemoveGuildMember omitted).
OnGuildMemberRemoveKeepMember(s) ==
    /\ pc[s] = "rmRemoveMember"
    /\ RemoveUserMutualGuild(Ev(s).user)
    /\ published' = [published EXCEPT ![cur[s]] = @ + 1]
    /\ pc' = [pc EXCEPT ![s] = Idle]
    /\ UNCHANGED <<trueMembers, history, inbox, dedupe, memberCount, members,
                   cur, loaded, read, window, chunkRecv,
                   complete>>

\* GetGuildMember (the "before" extra), RemoveGuildMember,
\* RemoveUserMutualGuild, return continuable and OnDispatch publishes.
OnGuildMemberRemoveMember(s) ==
    /\ pc[s] = "rmRemoveMember"
    /\ RemoveGuildMember(Ev(s).user)
    /\ RemoveUserMutualGuild(Ev(s).user)
    /\ published' = [published EXCEPT ![cur[s]] = @ + 1]
    /\ pc' = [pc EXCEPT ![s] = Idle]
    /\ UNCHANGED <<trueMembers, history, inbox, dedupe, memberCount, cur,
                   loaded, read, window, chunkRecv,
                   complete>>

\* OnGuildMemberUpdate: GetGuildMember (the "before" extra), then
\* SetGuildMember(g, payload) whether or not the user is still a member;
\* there is no dedupe.  Continuable, so OnDispatch publishes it.
OnGuildMemberUpdate(s) ==
    LET i == Head(inbox[s])
    IN /\ Take(s)
       /\ history[i].kind = "update"
       /\ cur' = [cur EXCEPT ![s] = i]
       /\ SetGuildMember({history[i].user})
       /\ published' = [published EXCEPT ![i] = @ + 1]
       /\ UNCHANGED <<trueMembers, history, dedupe, memberCount, mutuals, pc,
                      loaded, window, chunkRecv, complete>>

\* OnGuildMembersChunk: SetGuildMember for every member of the chunk, then,
\* the guild having a GuildChunks entry without ChunkingChannel,
\* ChunkCount.Inc() and Complete once it reaches the chunk_count.
OnGuildMembersChunk(s) ==
    LET i == Head(inbox[s])
    IN /\ Take(s)
       /\ history[i].kind = "chunk"
       /\ cur' = [cur EXCEPT ![s] = i]
       /\ SetGuildMember(history[i].members)
       /\ chunkRecv' = chunkRecv + 1
       /\ complete' = (complete \/ chunkRecv + 1 >= ChunkCount)
       /\ published' = [published EXCEPT ![i] = @ + 1]
       /\ UNCHANGED <<trueMembers, history, dedupe, memberCount, mutuals, pc,
                      loaded, window>>

(***************************************************************************)
(* The dedupe store keeps a key for a few seconds.  With KeysMayExpire a   *)
(* key may lapse at any moment, i.e. a duplicate may be later than the TTL.*)
(***************************************************************************)
DedupeExpire(k) ==
    /\ KeysMayExpire
    /\ k \in dedupe
    /\ dedupe' = dedupe \ {k}
    /\ UNCHANGED <<trueMembers, history, inbox, memberCount, members,
                   mutuals, pc, cur, loaded, published, read, window, chunkRecv,
                   complete>>

ShardStep(s) ==
    \/ OnGuildMemberAddCheck(s)
    \/ OnGuildMemberAddRemoveDedupe(s)
    \/ OnGuildMemberAddUpdateCount(s)
    \/ OnGuildMemberAddSetMember(s)
    \/ OnGuildMemberRemoveCheck(s)
    \/ OnGuildMemberRemoveRemoveDedupe(s)
    \/ OnGuildMemberRemoveLoadGuild(s)
    \/ OnGuildMemberRemoveStoreCount(s)
    \/ OnGuildMemberRemoveMember(s)
    \/ OnGuildMemberUpdate(s)
    \/ OnGuildMembersChunk(s)

Next ==
    \/ \E u \in Users : DiscordJoin(u) \/ DiscordLeave(u) \/ DiscordMemberUpdate(u)
    \/ \E s \in Shards, m \in SUBSET Users : DiscordMembersChunk(s, m)
    \/ \E s \in Shards : ShardStep(s)
    \/ \E k \in DedupeKey : DedupeExpire(k)

\* Each read loop keeps reading while its socket delivers; Discord is not
\* obliged to emit anything.
Spec == Init /\ [][Next]_vars /\ \A s \in Shards : WF_vars(ShardStep(s))

-----------------------------------------------------------------------------
(* Properties *)

\* No read loop is inside a handler and none has an unread event.
Quiescent ==
    \A s \in Shards : pc[s] = Idle /\ inbox[s] = <<>>

\* Once every handler has finished, State.Guilds[g].MemberCount equals the
\* number of members Discord has: the ++ of OnGuildMemberAdd and the
\* Load / -- / SetIfPresent of OnGuildMemberRemove lose no update and the
\* dedupe keys never make a genuine change count twice or not at all.
MemberCountTracksMembership ==
    Quiescent => memberCount = Cardinality(trueMembers)

\* Once every handler has finished, the members cached by SetGuildMember /
\* RemoveGuildMember are exactly the guild's members.
MembersTrackMembership ==
    Quiescent => members = trueMembers

\* Once every handler has finished, with StoreMutuals the users whose
\* mutual guilds list the guild are exactly its members: AddUserMutualGuild
\* runs only for an ADD that passes CheckAndAddDedupe and
\* RemoveUserMutualGuild only for a REMOVE that passes it, so a duplicate
\* delivery, an expired key or a chunk never leaves a former member listed
\* or a member unlisted.
MutualsTrackMembership ==
    Quiescent /\ StoreMutuals => mutuals = trueMembers

\* Every membership event a read loop took was published by some handler:
\* the add/remove keys left by earlier events (RemoveDedupe of the
\* opposite key) never make CheckAndAddDedupe drop a genuine change.
EveryReadEventPublished ==
    Quiescent => \A i \in read : published[i] >= 1

\* Dedupe across sessions: a membership event delivered to every session is
\* published by exactly one of them once all have handled it.
EventPublishedExactlyOnce ==
    Quiescent => \A i \in 1..Len(history) :
                    history[i].kind \in Kinds => published[i] = 1

=============================================================================
