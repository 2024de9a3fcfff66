----------------------------- MODULE GuildCache -----------------------------
(***************************************************************************)
(* The guild entry of the shared State cache and the dispatch handlers     *)
(* that rewrite it: GUILD_UPDATE, GUILD_STICKERS_UPDATE,                  *)
(* GUILD_EMOJIS_UPDATE, GUILD_ROLE_CREATE/UPDATE/DELETE, and the          *)
(* MemberCount / member-map parts of GUILD_MEMBER_ADD / _REMOVE.           *)
(*                                                                         *)
(* Source: src/internal/events_dispatch.go OnGuildUpdate (420-478),        *)
(* OnGuildEmojisUpdate (567-596), OnGuildStickersUpdate (598-635),         *)
(* OnGuildMemberAdd (655-696), OnGuildMemberRemove (698-748),             *)
(* OnGuildRoleCreate/Update/Delete (781-851); src/internal/state.go        *)
(* GetGuild (98-163), SetGuild (168-226), SetGuildRole (359-373),          *)
(* RemoveGuildRole (376-384), GetAllGuildRoles (387-407), SetGuildEmojis   *)
(* (448-457), RemoveAllGuildEmojis (464-466).                              *)
(*                                                                         *)
(* One guild, already cached by GUILD_CREATE.  Its roles, channels, voice  *)
(* states and member map exist for good (no handler deletes them), so of   *)
(* the sub-maps GetGuild requires only the emoji list can be missing.      *)
(* A role is abstracted to a version number; SetGuild upserts every role   *)
(* of the guild it is given and deletes none.  Role ids are snowflakes: a  *)
(* deleted role is never created again.                                    *)
(* The guild entry is abstracted to the fields the handlers treat apart:   *)
(* MemberCount, the GUILD_UPDATE fields (one version number), the sticker  *)
(* list (a version number) and JoinedAt/Large (known or zeroed).  Every    *)
(* session in Shards receives the guild-wide events; a membership event is *)
(* handled by the one session that wins the dedupe (module MemberDedupe),  *)
(* so here it is delivered to one session.                                 *)
(***************************************************************************)
EXTENDS Integers, Sequences, FiniteSets

CONSTANTS
    Users,        \* user ids that may join or leave
    Shards,       \* read loops that receive the guild's events
    InitMembers,  \* members when GUILD_CREATE cached the guild
    Roles,        \* role ids that may exist
    InitRoles,    \* roles when GUILD_CREATE cached the guild
    MaxEvents,    \* bound on the events Discord emits
    None          \* no user: the user field of a guild-wide event

ASSUME /\ InitMembers \subseteq Users
       /\ Shards # {}
       /\ MaxEvents \in Nat
       /\ None \notin Users \cup Roles
       /\ InitRoles \subseteq Roles

VARIABLES
    tName, tStickers, tEmojis, tMembers, tRoles, \* the guild at Discord
    history,   \* events Discord emitted, in order
    inbox,     \* inbox[s]: indices into history not yet read by shard s
    guild,     \* State.Guilds[g], abstracted
    emojis,    \* State.GuildEmojis[g]: a version, or Absent
    members,   \* State.GuildMembers[g]: ids with a cached member
    roles,     \* State.GuildRoles[g]: roles[r], a version or Absent
    pc,        \* pc[s]: where shard s is inside a handler
    cur,       \* cur[s]: the event shard s is handling
    snap,      \* snap[s]: what GetGuild returned to shard s
    loaded     \* loaded[s]: the copy Guilds.Load returned in MEMBER_REMOVE

vars == <<tName, tStickers, tEmojis, tMembers, tRoles, history, inbox, guild,
          emojis, members, roles, pc, cur, snap, loaded>>

Absent == -1
Idle == "idle"
Kinds == {"update", "stickers", "emojis", "add", "remove", "roleCreate",
          "roleUpdate", "roleDelete"}
Version == 0..MaxEvents
RoleMap == [Roles -> Version \cup {Absent}]
Guild == [count : Int, name : Version, stickers : Version, joined : BOOLEAN]
Event == [kind : Kinds, name : Version, stickers : Version, emojis : Version,
          user : Users \cup {None}, role : Roles \cup {None}, roles : RoleMap]
Snapshot == [ok : BOOLEAN, guild : Guild, members : SUBSET Users,
             emojis : Version \cup {Absent}, roles : RoleMap]
PCs == {Idle, "guSetGuild", "stSetGuild", "emSet", "addSetMember",
        "rmStoreCount", "rmRemoveMember"}

Ev(s) == history[cur[s]]

TypeOK ==
    /\ history \in Seq(Event) /\ Len(history) <= MaxEvents
    /\ inbox \in [Shards -> Seq(1..MaxEvents)]
    /\ guild \in Guild
    /\ guild.count \in 0..Cardinality(Users)
    /\ emojis \in Version \cup {Absent}
    /\ members \subseteq Users
    /\ roles \in RoleMap
    /\ pc \in [Shards -> PCs]
    /\ cur \in [Shards -> 0..MaxEvents]
    /\ snap \in [Shards -> Snapshot]
    /\ loaded \in [Shards -> Guild]

InitRoleMap == [r \in Roles |-> IF r \in InitRoles THEN 0 ELSE Absent]

InitGuild ==
    [count |-> Cardinality(InitMembers), name |-> 0, stickers |-> 0,
     joined |-> TRUE]

Init ==
    /\ tName = 0 /\ tStickers = 0 /\ tEmojis = 0 /\ tMembers = InitMembers
    /\ tRoles = InitRoleMap
    /\ history = <<>>
    /\ inbox = [s \in Shards |-> <<>>]
    /\ guild = InitGuild
    /\ emojis = 0
    /\ members = InitMembers
    /\ roles = InitRoleMap
    /\ pc = [s \in Shards |-> Idle]
    /\ cur = [s \in Shards |-> 0]
    /\ snap = [s \in Shards |-> [ok |-> FALSE, guild |-> InitGuild,
                                 members |-> {}, emojis |-> Absent,
                                 roles |-> InitRoleMap]]
    /\ loaded = [s \in Shards |-> InitGuild]

(***************************************************************************)
(* Discord.  A guild-wide event goes to every session; a membership event  *)
(* to the session that will handle it.  The event's index is the version   *)
(* of whatever it changes.                                                 *)
(***************************************************************************)
Emit(e, to) ==
    LET i == Len(history) + 1
    IN /\ i <= MaxEvents
       /\ history' = Append(history, e)
       /\ inbox' = [s \in Shards |->
                       IF s \in to THEN Append(inbox[s], i) ELSE inbox[s]]

NewIndex == Len(history) + 1

\* An event with nothing set but its kind.
Blank(kind) ==
    [kind |-> kind, name |-> 0, stickers |-> 0, emojis |-> 0, user |-> None,
     role |-> None, roles |-> InitRoleMap]

\* GUILD_UPDATE carries the guild object with all of its roles.
DiscordGuildUpdate ==
    /\ Emit([Blank("update") EXCEPT !.name = NewIndex, !.stickers = tStickers,
                                    !.emojis = tEmojis, !.roles = tRoles],
            Shards)
    /\ tName' = NewIndex
    /\ UNCHANGED <<tStickers, tEmojis, tMembers, tRoles>>

DiscordStickersUpdate ==
    /\ Emit([Blank("stickers") EXCEPT !.stickers = NewIndex], Shards)
    /\ tStickers' = NewIndex
    /\ UNCHANGED <<tName, tEmojis, tMembers, tRoles>>

DiscordEmojisUpdate ==
    /\ Emit([Blank("emojis") EXCEPT !.emojis = NewIndex], Shards)
    /\ tEmojis' = NewIndex
    /\ UNCHANGED <<tName, tStickers, tMembers, tRoles>>

DiscordJoin(u, s) ==
    /\ u \notin tMembers
    /\ Emit([Blank("add") EXCEPT !.user = u], {s})
    /\ tMembers' = tMembers \cup {u}
    /\ UNCHANGED <<tName, tStickers, tEmojis, tRoles>>

DiscordLeave(u, s) ==
    /\ u \in tMembers
    /\ Emit([Blank("remove") EXCEPT !.user = u], {s})
    /\ tMembers' = tMembers \ {u}
    /\ UNCHANGED <<tName, tStickers, tEmojis, tRoles>>

\* A role is created once, changed while it exists, and deleted.
DiscordRole(kind, r) ==
    /\ \/ kind = "roleCreate" /\ tRoles[r] = Absent /\ r \notin InitRoles
          /\ \A i \in DOMAIN history : history[i].role # r
       \/ kind \in {"roleUpdate", "roleDelete"} /\ tRoles[r] # Absent
    /\ Emit([Blank(kind) EXCEPT !.role = r, !.name = NewIndex], Shards)
    /\ tRoles' = [tRoles EXCEPT ![r] = IF kind = "roleDelete" THEN Absent
                                       ELSE NewIndex]
    /\ UNCHANGED <<tName, tStickers, tEmojis, tMembers>>

DiscordVars == <<tName, tStickers, tEmojis, tMembers, tRoles, history>>

DiscordStep ==
    /\ UNCHANGED <<guild, emojis, members, roles, pc, cur, snap, loaded>>
    /\ \/ DiscordGuildUpdate
       \/ DiscordStickersUpdate
       \/ DiscordEmojisUpdate
       \/ \E u \in Users, s \in Shards : DiscordJoin(u, s) \/ DiscordLeave(u, s)
       \/ \E r \in Roles, kind \in {"roleCreate", "roleUpdate", "roleDelete"} :
             DiscordRole(kind, r)

\* GuildRoles.Load(g), ranged into a list.
GetAllGuildRoles == roles

\* GuildEmojis.Load(g): the list, Absent when the entry was deleted.
GetAllGuildEmojis == emojis

\* GuildMembers.Load(g), ranged into a list.
GetAllGuildMembers == members

(***************************************************************************)
(* State.GetGuild: the guild with its sub-collections; ok is FALSE as soon *)
(* as one sub-map is missing, which here can only be the emoji list.       *)
(***************************************************************************)
GetGuild ==
    [ok |-> GetAllGuildEmojis # Absent, guild |-> guild,
     members |-> GetAllGuildMembers, emojis |-> GetAllGuildEmojis,
     roles |-> GetAllGuildRoles]

\* GuildEmojis.Store(g, list): the whole list is replaced.
SetGuildEmojis(es) == emojis' = es

\* GuildEmojis.Delete(g): GetGuild is not ok until the next store.
RemoveAllGuildEmojis == emojis' = Absent

\* SetGuild's SetGuildRole for every role of the guild: an upsert that
\* leaves the cached roles the guild does not list in place.
SetGuildRoles(rs) ==
    roles' = [r \in Roles |-> IF rs[r] # Absent THEN rs[r] ELSE roles[r]]

\* The read loop of shard s takes its next event, of the given kind.
Take(s, kind) ==
    /\ pc[s] = Idle
    /\ inbox[s] # <<>>
    /\ history[Head(inbox[s])].kind = kind
    /\ inbox' = [inbox EXCEPT ![s] = Tail(inbox[s])]
    /\ cur' = [cur EXCEPT ![s] = Head(inbox[s])]

\* OnGuildUpdate: decode, beforeGuild, ok := GetGuild(g).
OnGuildUpdateGetGuild(s) ==
    /\ Take(s, "update")
    /\ snap' = [snap EXCEPT ![s] = GetGuild]
    /\ pc' = [pc EXCEPT ![s] = "guSetGuild"]
    /\ UNCHANGED DiscordVars
    /\ UNCHANGED <<guild, emojis, members, loaded, roles>>

\* Mutation: the merge forgets MemberCount, Large and JoinedAt.
OnGuildUpdateSetGuildNoMerge(s) ==
    LET e == Ev(s)
        b == snap[s]
    IN /\ pc[s] = "guSetGuild"
       /\ guild' = [count |-> 0, name |-> e.name, stickers |-> e.stickers,
                    joined |-> FALSE]
       /\ SetGuildEmojis(e.emojis)
       /\ SetGuildRoles(e.roles)
       /\ members' = IF b.ok THEN members \cup b.members ELSE members
       /\ pc' = [pc EXCEPT ![s] = Idle]
       /\ UNCHANGED DiscordVars
       /\ UNCHANGED <<inbox, cur, snap, loaded>>

(***************************************************************************)
(* OnGuildUpdate, rest: when GetGuild was ok, MemberCount (absent from the *)
(* payload, so 0), Members, Large and JoinedAt are taken from beforeGuild; *)
(* then SetGuild stores the guild, the payload's emoji list and every      *)
(* member of the merged guild.                                             *)
(***************************************************************************)
OnGuildUpdateSetGuild(s) ==
    LET e == Ev(s)
        b == snap[s]
    IN /\ pc[s] = "guSetGuild"
       /\ guild' = [count |-> IF b.ok THEN b.guild.count ELSE 0,
                    name |-> e.name, stickers |-> e.stickers,
                    joined |-> b.ok /\ b.guild.joined]
       /\ SetGuildEmojis(e.emojis)
       /\ SetGuildRoles(e.roles)
       /\ members' = IF b.ok THEN members \cup b.members ELSE members
       /\ pc' = [pc EXCEPT ![s] = Idle]
       /\ UNCHANGED DiscordVars
       /\ UNCHANGED <<inbox, cur, snap, loaded>>

\* OnGuildStickersUpdate: beforeGuild, ok := GetGuild(g).
OnGuildStickersUpdateGetGuild(s) ==
    /\ Take(s, "stickers")
    /\ snap' = [snap EXCEPT ![s] = GetGuild]
    /\ pc' = [pc EXCEPT ![s] = "stSetGuild"]
    /\ UNCHANGED DiscordVars
    /\ UNCHANGED <<guild, emojis, members, loaded, roles>>

\* Mutation: beforeGuild is stored back without the new stickers.
OnGuildStickersUpdateSetGuildOld(s) ==
    LET b == snap[s]
    IN /\ pc[s] = "stSetGuild"
       /\ IF b.ok
             THEN /\ guild' = b.guild
                  /\ SetGuildEmojis(b.emojis)
                  /\ members' = members \cup b.members
                  /\ SetGuildRoles(b.roles)
             ELSE UNCHANGED <<guild, emojis, members, roles>>
       /\ pc' = [pc EXCEPT ![s] = Idle]
       /\ UNCHANGED DiscordVars
       /\ UNCHANGED <<inbox, cur, snap, loaded>>

(***************************************************************************)
(* OnGuildStickersUpdate, rest: if ok, SetGuild(beforeGuild with the new   *)
(* stickers), which writes back every field and sub-collection GetGuild    *)
(* returned; otherwise the update is only logged.  Published either way.  *)
(***************************************************************************)
OnGuildStickersUpdateSetGuild(s) ==
    LET b == snap[s]
    IN /\ pc[s] = "stSetGuild"
       /\ IF b.ok
             THEN /\ guild' = [b.guild EXCEPT !.stickers = Ev(s).stickers]
                  /\ SetGuildEmojis(b.emojis)
                  /\ members' = members \cup b.members
                  /\ SetGuildRoles(b.roles)
             ELSE UNCHANGED <<guild, emojis, members, roles>>
       /\ pc' = [pc EXCEPT ![s] = Idle]
       /\ UNCHANGED DiscordVars
       /\ UNCHANGED <<inbox, cur, snap, loaded>>

\* OnGuildEmojisUpdate: GetAllGuildEmojis (the "before" extra), then
\* RemoveAllGuildEmojis(g).
OnGuildEmojisUpdateRemoveAll(s) ==
    /\ Take(s, "emojis")
    /\ RemoveAllGuildEmojis
    /\ pc' = [pc EXCEPT ![s] = "emSet"]
    /\ UNCHANGED DiscordVars
    /\ UNCHANGED <<guild, members, snap, loaded, roles>>

\* OnGuildEmojisUpdate: SetGuildEmojis(g, payload emojis).
OnGuildEmojisUpdateSet(s) ==
    /\ pc[s] = "emSet"
    /\ SetGuildEmojis(Ev(s).emojis)
    /\ pc' = [pc EXCEPT ![s] = Idle]
    /\ UNCHANGED DiscordVars
    /\ UNCHANGED <<guild, members, inbox, cur, snap, loaded, roles>>

\* OnGuildMemberAdd past the dedupe: Guilds.Update(g, MemberCount++).
OnGuildMemberAddUpdateCount(s) ==
    /\ Take(s, "add")
    /\ guild' = [guild EXCEPT !.count = @ + 1]
    /\ pc' = [pc EXCEPT ![s] = "addSetMember"]
    /\ UNCHANGED DiscordVars
    /\ UNCHANGED <<emojis, members, snap, loaded, roles>>

\* OnGuildMemberAdd: SetGuildMember.
OnGuildMemberAddSetMember(s) ==
    /\ pc[s] = "addSetMember"
    /\ members' = members \cup {Ev(s).user}
    /\ pc' = [pc EXCEPT ![s] = Idle]
    /\ UNCHANGED DiscordVars
    /\ UNCHANGED <<guild, emojis, inbox, cur, snap, loaded, roles>>

\* OnGuildMemberRemove past the dedupe: guild, ok := Guilds.Load(g).
OnGuildMemberRemoveLoadGuild(s) ==
    /\ Take(s, "remove")
    /\ loaded' = [loaded EXCEPT ![s] = guild]
    /\ pc' = [pc EXCEPT ![s] = "rmStoreCount"]
    /\ UNCHANGED DiscordVars
    /\ UNCHANGED <<guild, emojis, members, snap, roles>>

\* Mutation: the copy is stored back without the decrement.
OnGuildMemberRemoveStoreNoDecrement(s) ==
    /\ pc[s] = "rmStoreCount"
    /\ guild' = loaded[s]
    /\ pc' = [pc EXCEPT ![s] = "rmRemoveMember"]
    /\ UNCHANGED DiscordVars
    /\ UNCHANGED <<emojis, members, inbox, cur, snap, loaded, roles>>

\* guild.MemberCount--; Guilds.SetIfPresent(g, guild): the whole copy.
OnGuildMemberRemoveStoreCount(s) ==
    /\ pc[s] = "rmStoreCount"
    /\ guild' = [loaded[s] EXCEPT !.count = @ - 1]
    /\ pc' = [pc EXCEPT ![s] = "rmRemoveMember"]
    /\ UNCHANGED DiscordVars
    /\ UNCHANGED <<emojis, members, inbox, cur, snap, loaded, roles>>

\* RemoveGuildMember, RemoveUserMutualGuild.
OnGuildMemberRemoveMember(s) ==
    /\ pc[s] = "rmRemoveMember"
    /\ members' = members \ {Ev(s).user}
    /\ pc' = [pc EXCEPT ![s] = Idle]
    /\ UNCHANGED DiscordVars
    /\ UNCHANGED <<guild, emojis, inbox, cur, snap, loaded, roles>>

\* OnGuildRoleCreate: SetGuildRole(g, payload role).
OnGuildRoleCreate(s) ==
    LET e == history[Head(inbox[s])]
    IN /\ Take(s, "roleCreate")
       /\ roles' = [roles EXCEPT ![e.role] = e.name]
       /\ pc' = [pc EXCEPT ![s] = Idle]
       /\ UNCHANGED DiscordVars
       /\ UNCHANGED <<guild, emojis, members, snap, loaded>>

\* Mutation: the role read as "before" is stored instead of the payload's.
OnGuildRoleUpdateStoreBefore(s) ==
    /\ Take(s, "roleUpdate")
    /\ pc' = [pc EXCEPT ![s] = Idle]
    /\ UNCHANGED DiscordVars
    /\ UNCHANGED <<guild, emojis, members, roles, snap, loaded>>

\* OnGuildRoleUpdate: GetGuildRole (the "before" extra, which looks the
\* role map up by the role id and so finds only the @everyone role), then
\* SetGuildRole(g, payload role).
OnGuildRoleUpdate(s) ==
    LET e == history[Head(inbox[s])]
    IN /\ Take(s, "roleUpdate")
       /\ roles' = [roles EXCEPT ![e.role] = e.name]
       /\ pc' = [pc EXCEPT ![s] = Idle]
       /\ UNCHANGED DiscordVars
       /\ UNCHANGED <<guild, emojis, members, snap, loaded>>

\* RemoveGuildRole: a Delete of the key in the guild's role map.
RemoveGuildRole(r) == roles' = [roles EXCEPT ![r] = Absent]

\* OnGuildRoleDelete: RemoveGuildRole(g, role id).
OnGuildRoleDelete(s) ==
    LET e == history[Head(inbox[s])]
    IN /\ Take(s, "roleDelete")
       /\ RemoveGuildRole(e.role)
       /\ pc' = [pc EXCEPT ![s] = Idle]
       /\ UNCHANGED DiscordVars
       /\ UNCHANGED <<guild, emojis, members, snap, loaded>>

ShardStep(s) ==
    \/ OnGuildUpdateGetGuild(s)
    \/ OnGuildUpdateSetGuild(s)
    \/ OnGuildStickersUpdateGetGuild(s)
    \/ OnGuildStickersUpdateSetGuild(s)
    \/ OnGuildEmojisUpdateRemoveAll(s)
    \/ OnGuildEmojisUpdateSet(s)
    \/ OnGuildMemberAddUpdateCount(s)
    \/ OnGuildMemberAddSetMember(s)
    \/ OnGuildMemberRemoveLoadGuild(s)
    \/ OnGuildMemberRemoveStoreCount(s)
    \/ OnGuildMemberRemoveMember(s)
    \/ OnGuildRoleCreate(s)
    \/ OnGuildRoleUpdate(s)
    \/ OnGuildRoleDelete(s)

Next == DiscordStep \/ \E s \in Shards : ShardStep(s)

\* Every read loop keeps handling what its socket delivered.
Spec == Init /\ [][Next]_vars /\ \A s \in Shards : WF_vars(ShardStep(s))

-----------------------------------------------------------------------------
(* Properties *)

\* No handler is running and no event is waiting.
Quiescent ==
    \A s \in Shards : pc[s] = Idle /\ inbox[s] = <<>>

\* Once all handlers are done, the cached guild fields, stickers and emojis
\* are the latest ones Discord sent: no handler writes back an older copy
\* (GetGuild snapshot, Guilds.Load copy) over a newer one.
GuildTracksDiscord ==
    Quiescent => /\ guild.name = tName
                 /\ guild.stickers = tStickers
                 /\ emojis = tEmojis

\* Once all handlers are done, MemberCount is the number of members.
MemberCountTracksMembership ==
    Quiescent => guild.count = Cardinality(tMembers)

\* Once all handlers are done, the cached roles are Discord's: the upserts
\* of GUILD_UPDATE's role list and of GUILD_STICKERS_UPDATE's write-back of
\* the GetGuild snapshot neither bring back a deleted role nor keep an old
\* version.
RolesTrackDiscord ==
    Quiescent => roles = tRoles

\* JoinedAt and Large, which only GUILD_CREATE carries, are never lost: the
\* GUILD_UPDATE merge keeps them from the cached guild.
JoinedAtKept ==
    guild.joined

=============================================================================
