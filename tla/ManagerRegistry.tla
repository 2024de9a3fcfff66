-------------------------- MODULE ManagerRegistry --------------------------
(***************************************************************************)
(* The admin HTTP handlers that create, update and delete Managers, open   *)
(* and stop their ShardGroups and replace the Sandwich configuration       *)
(* (internal/rest.go).  fasthttp runs every request on its own goroutine. *)
(* Each handler is cut into the steps in which it touches shared state:   *)
(* one call on the sg.Managers map, or one region under                   *)
(* sg.configurationMu, is one step; what runs between two steps of one    *)
(* request may interleave with the steps of another.                      *)
(*                                                                         *)
(* A Manager is an instance <<id, r>>: the id of its configuration and    *)
(* the request r that built it (0 for the managers loaded at startup), so *)
(* a manager deleted and created again is a different object.  The        *)
(* configuration is a record of the ManagerConfigurations it lists, in    *)
(* order, each reduced to its id and its event and produce blacklists,    *)
(* and of its HTTP.UserAccess, the users allowed to use the admin API.    *)
(* After a manager or sandwich update a goroutine copies the listed       *)
(* blacklists to the stored managers.                                     *)
(* Every request first goes through HandleRequest: authenticateValue reads *)
(* the user from the client's session and UserAccess under the read lock,*)
(* and requireDiscordAuthentication answers 401 or 403 before the handler.*)
(***************************************************************************)
EXTENDS Naturals, Sequences, FiniteSets, Functions

CONSTANTS
    Ids,          \* manager identifiers
    Blacklists,   \* blacklists a ManagerUpdate may post; None when omitted
    Users,        \* Discord users who may log in through OAuth
    Clients,      \* browser sessions, each with one request in flight
    HTTPEnabled,  \* Options.HTTPEnabled
    InitConf,     \* the configuration loaded at startup
    MaxRequests,  \* bound on the requests served
    None          \* no manager; no user in a session; a nil blacklist

ASSUME /\ InitConf.access \subseteq Users /\ HTTPEnabled \in BOOLEAN
       /\ InitConf.managers \in Seq([id : Ids, conf : Blacklists \cup {None}])
       /\ MaxRequests \in Nat

Insts == Ids \X (0..MaxRequests)
\* A ManagerConfiguration: its Identifier and its blacklists.
Entries == [id : Ids, conf : Blacklists \cup {None}]

Confs == [managers : Seq(Entries), access : SUBSET Users]

\* A pending blacklist copy: the entry, and the manager it loaded, if yet.
Copies == [id : Ids, conf : Blacklists \cup {None}, at : Insts \cup {None}]

\* The ids a list of ManagerConfigurations names, in order.
IdsOf(ms) == [k \in DOMAIN ms |-> ms[k].id]

VARIABLES
    managers,  \* sg.Managers: id -> the manager stored under it
    running,   \* the manager instances with an open ShardGroup
    producer,  \* the manager instances with a connected Producer
    config,    \* sg.Configuration
    file,      \* the configuration last written to ConfigurationLocation
    blist,     \* each manager's eventBlacklist and produceBlacklist
    copies,    \* the blacklist-copy goroutines still to run
    session,   \* the user stored in each client's session, or None
    pc,        \* the step each request is about to take
    arg,       \* the manager id a request names
    val,       \* the blacklists of the ManagerConfiguration it carries
    inst,      \* the manager a request loaded from sg.Managers
    snap,      \* SandwichUpdateEndpoint's local sandwichConfiguration
    served     \* requests started

vars == <<managers, running, producer, config, file, blist, copies, session, pc, arg,
          val, inst, snap, served>>

\* The first step of each handler, chosen by the router.
Routes == {"crLoad", "upLoad", "inLoad", "dlLoad", "sgLoad", "stLoad", "suSwap"}

Steps == Routes \cup {"idle", "crStore", "crAppend", "crSave", "upInit", "upSave", "inInit",
          "dlClose", "dlDelete", "dlSave", "sgOpen", "stClose", "suSave"}

Init ==
    /\ managers = [m \in Ids |-> IF m \in Range(IdsOf(InitConf.managers))
                                    THEN <<m, 0>> ELSE None]
    /\ running = {}
    /\ producer = {managers[m] : m \in Range(IdsOf(InitConf.managers))}
    /\ blist = [i \in Insts |-> IF i[2] = 0 /\ \E e \in Range(InitConf.managers) : e.id = i[1]
                                THEN (CHOOSE e \in Range(InitConf.managers) : e.id = i[1]).conf
                                ELSE None]
    /\ copies = {}
    /\ config = InitConf /\ file = InitConf
    /\ session = [c \in Clients |-> None]
    /\ pc = [c \in Clients |-> "idle"]
    /\ arg = [c \in Clients |-> CHOOSE m \in Ids : TRUE]
    /\ val = [c \in Clients |-> None]
    /\ inst = [c \in Clients |-> None]
    /\ snap = [c \in Clients |-> InitConf]
    /\ served = 0

\* SaveConfiguration writes the configuration it is given to the file; the
\* whole write is taken as one step.
SaveConfiguration(conf) == file' = conf

Goto(c, step) == pc' = [pc EXCEPT ![c] = step]

\* Manager.Close tears down every ShardGroup of that manager and its Producer.
Close(i) ==
    /\ running' = running \ {i}
    /\ producer' = producer \ {i}

\* Manager.Initialize (re-)creates the Producer connection; it may fail, and
\* the request that called it then answers with the error.
Initialize(c, next) ==
    \/ producer' = producer \cup {inst[c]} /\ Goto(c, next)
    \/ UNCHANGED producer /\ Goto(c, "idle")

\* The manager ids of a configuration other than m, in order: the loops of
\* ManagerUpdateEndpoint and ManagerDeleteEndpoint that rebuild the list.
Without(ms, m) == SelectSeq(ms, LAMBDA e : e.id # m)

\* The goroutine started after a successful update: one copy per entry.
Spawn(es) == copies' = copies \cup {[id |-> e.id, conf |-> e.conf, at |-> None] : e \in es}

\* authenticateValue: a request is logged in when its session holds a
\* user, and authenticated when UserAccess, read under the read lock,
\* lists that user.
IsLoggedIn(c) == session[c] # None

IsAuthenticated(c) == IsLoggedIn(c) /\ session[c] \in config.access

\* requireDiscordAuthentication: 401 when not logged in, 403 when not
\* authenticated and HTTPEnabled; otherwise the handler runs.
Allowed(c) == IsLoggedIn(c) /\ (IsAuthenticated(c) \/ ~HTTPEnabled)

\* HandleRequest: authenticateValue, then the router; a handler behind
\* requireDiscordAuthentication runs only for a request that passes it.
\* Login is a redirect and changes nothing; it is left out.
Authenticate(c, r) ==
    /\ pc[c] = "idle" /\ served < MaxRequests
    /\ served' = served + 1
    /\ \/ Goto(c, IF Allowed(c) THEN r ELSE "idle")
       \/ Goto(c, "idle")  \* SessionProvider.Get fails: a 500
    /\ UNCHANGED <<managers, running, producer, config, file, session, blist, copies, arg, val,
                   inst, snap>>

\* CallbackEndpoint: the OAuth code is exchanged and the Discord user it
\* names is stored in the session.  Each of its failures redirects and
\* leaves the session as it was.
Callback(c, u) ==
    /\ pc[c] = "idle"
    /\ session' = [session EXCEPT ![c] = u]
    /\ UNCHANGED <<managers, running, producer, config, file, pc, blist, copies, arg, val, inst,
                   snap, served>>

\* LogoutEndpoint: the session is flushed.
Logout(c) ==
    /\ pc[c] = "idle" /\ session[c] # None
    /\ session' = [session EXCEPT ![c] = None]
    /\ UNCHANGED <<managers, running, producer, config, file, pc, blist, copies, arg, val, inst,
                   snap, served>>

\* The manager a request names is looked up with sg.Managers.Load.  When
\* none is stored the request records the manager it would build.  v is
\* the blacklists of the ManagerConfiguration the request carries.
Begin(c, route, m, v, found, notFound) ==
    /\ pc[c] = route
    /\ arg' = [arg EXCEPT ![c] = m]
    /\ val' = [val EXCEPT ![c] = v]
    /\ inst' = [inst EXCEPT ![c] = IF managers[m] # None THEN managers[m]
                                                       ELSE <<m, served>>]
    /\ pc' = [pc EXCEPT ![c] = IF managers[m] # None THEN found ELSE notFound]
    /\ UNCHANGED <<managers, running, producer, config, file, blist, copies, session,
                   snap, served>>

(***************************************************************************)
(* ManagerCreateEndpoint: a manager already stored under the id is a 400; *)
(* otherwise NewManager, Managers.Store, the append to the configuration  *)
(* under the lock, and SaveConfiguration under the read lock.  The        *)
(* defaultConfiguration it builds carries no blacklists (None).           *)
(***************************************************************************)
\* Mutation: the duplicate check is dropped and a stored id is created again.
ManagerCreateLoadNoCheck(c, m) == Begin(c, "crLoad", m, None, "crStore", "crStore")

ManagerCreateLoad(c, m) == Begin(c, "crLoad", m, None, "idle", "crStore")

ManagerCreateStore(c) ==
    /\ pc[c] = "crStore"
    /\ managers' = [managers EXCEPT ![arg[c]] = inst[c]]
    /\ blist' = [blist EXCEPT ![inst[c]] = val[c]]
    /\ Goto(c, "crAppend")
    /\ UNCHANGED <<running, producer, config, file, session, copies, arg, val, inst,
                   snap, served>>

ManagerCreateAppend(c) ==
    /\ pc[c] = "crAppend"
    /\ config' = [config EXCEPT !.managers = Append(@, [id |-> arg[c], conf |-> val[c]])]
    /\ Goto(c, "crSave")
    /\ UNCHANGED <<managers, running, producer, file, session, blist, copies, arg, val, inst, snap, served>>

ManagerCreateSave(c) ==
    /\ pc[c] = "crSave"
    /\ SaveConfiguration(config)
    /\ Goto(c, "idle")
    /\ UNCHANGED <<managers, running, producer, config, session, blist, copies, arg, val, inst, snap, served>>

(***************************************************************************)
(* ManagerUpdateEndpoint: no manager is a 400; otherwise the manager's     *)
(* Configuration and Client are replaced and Initialize is called; if it  *)
(* fails the handler returns, else under the lock the id is moved to the  *)
(* end of the configuration's list and the configuration saved; then a   *)
(* goroutine copies the posted blacklists to the manager.                 *)
(***************************************************************************)
ManagerUpdateLoad(c, m, v) == Begin(c, "upLoad", m, v, "upInit", "idle")

ManagerUpdateInitialize(c) ==
    /\ pc[c] = "upInit"
    /\ Initialize(c, "upSave")
    /\ UNCHANGED <<managers, running, config, file, session, blist, copies, arg, val, inst, snap, served>>

ManagerUpdateSave(c) ==
    /\ pc[c] = "upSave"
    /\ config' = [config EXCEPT !.managers =
                      Append(Without(@, arg[c]), [id |-> arg[c], conf |-> val[c]])]
    /\ SaveConfiguration(config')
    /\ Spawn({[id |-> arg[c], conf |-> val[c]]})
    /\ Goto(c, "idle")
    /\ UNCHANGED <<managers, running, producer, session, blist, arg, val, inst, snap,
                   served>>

\* ManagerInitializeEndpoint: no manager is a 400; otherwise the manager is
\* initialized again.
ManagerInitializeLoad(c, m) == Begin(c, "inLoad", m, None, "inInit", "idle")

ManagerInitializeInitialize(c) ==
    /\ pc[c] = "inInit"
    /\ Initialize(c, "idle")
    /\ UNCHANGED <<managers, running, config, file, session, blist, copies, arg, val, inst, snap, served>>

(***************************************************************************)
(* ManagerDeleteEndpoint: no manager is a 400; otherwise manager.Close,   *)
(* Managers.Delete of the id, and under the lock the id is dropped from   *)
(* the configuration and the configuration saved.                         *)
(***************************************************************************)
ManagerDeleteLoad(c, m) == Begin(c, "dlLoad", m, None, "dlClose", "idle")

\* Mutation: the manager is dropped without being closed.
ManagerDeleteCloseSkipped(c) ==
    /\ pc[c] = "dlClose"
    /\ Goto(c, "dlDelete")
    /\ UNCHANGED <<managers, running, producer, config, file, session, blist, copies, arg, val, inst, snap, served>>

ManagerDeleteClose(c) ==
    /\ pc[c] = "dlClose"
    /\ Close(inst[c])
    /\ Goto(c, "dlDelete")
    /\ UNCHANGED <<managers, config, file, session, blist, copies, arg, val, inst, snap, served>>

ManagerDeleteDelete(c) ==
    /\ pc[c] = "dlDelete"
    /\ managers' = [managers EXCEPT ![arg[c]] = None]
    /\ Goto(c, "dlSave")
    /\ UNCHANGED <<running, producer, config, file, session, blist, copies, arg, val, inst, snap, served>>

\* Mutation: the configuration is saved before the id is filtered out.
ManagerDeleteSaveStale(c) ==
    /\ pc[c] = "dlSave"
    /\ config' = [config EXCEPT !.managers = Without(@, arg[c])]
    /\ SaveConfiguration(config)
    /\ Goto(c, "idle")
    /\ UNCHANGED <<managers, running, producer, session, blist, copies, arg, val, inst, snap, served>>

ManagerDeleteSave(c) ==
    /\ pc[c] = "dlSave"
    /\ config' = [config EXCEPT !.managers = Without(@, arg[c])]
    /\ SaveConfiguration(config')
    /\ Goto(c, "idle")
    /\ UNCHANGED <<managers, running, producer, session, blist, copies, arg, val, inst, snap, served>>

(***************************************************************************)
(* ShardGroupCreateEndpoint: no manager is a 400; otherwise Scale builds  *)
(* a ShardGroup and Open starts it, and a group that fails to open is     *)
(* deleted again.  ShardGroupStopEndpoint closes the manager it loaded.   *)
(***************************************************************************)
ShardGroupCreateLoad(c, m) == Begin(c, "sgLoad", m, None, "sgOpen", "idle")

ShardGroupCreateOpen(c) ==
    /\ pc[c] = "sgOpen"
    /\ \/ running' = running \cup {inst[c]}
       \/ UNCHANGED running
    /\ Goto(c, "idle")
    /\ UNCHANGED <<managers, producer, config, file, session, blist, copies, arg, val, inst, snap, served>>

ShardGroupStopLoad(c, m) == Begin(c, "stLoad", m, None, "stClose", "idle")

ShardGroupStopClose(c) ==
    /\ pc[c] = "stClose"
    /\ Close(inst[c])
    /\ Goto(c, "idle")
    /\ UNCHANGED <<managers, config, file, session, blist, copies, arg, val, inst, snap, served>>

(***************************************************************************)
(* SandwichUpdateEndpoint: under the lock the posted configuration takes  *)
(* the current manager list and replaces sg.Configuration; the local copy *)
(* is then saved without the lock, and a goroutine copies the blacklists *)
(* of every ManagerConfiguration in that copy to the stored managers.     *)
(***************************************************************************)
SandwichUpdateSwap(c, v) ==
    /\ pc[c] = "suSwap"
    /\ snap' = [snap EXCEPT ![c] = [managers |-> config.managers, access |-> v]]
    /\ config' = snap'[c]
    /\ Goto(c, "suSave")
    /\ UNCHANGED <<managers, running, producer, file, session, blist, copies, arg, val, inst, served>>

SandwichUpdateSave(c) ==
    /\ pc[c] = "suSave"
    /\ SaveConfiguration(snap[c])
    /\ Spawn(Range(snap[c].managers))
    /\ Goto(c, "idle")
    /\ UNCHANGED <<managers, running, producer, config, session, blist, arg, val, inst,
                   snap, served>>

(***************************************************************************)
(* The blacklist-copy goroutine of either update, for one configuration  *)
(* entry: sg.Managers.Load of its id (none stored: skip it), then, under  *)
(* the manager's blacklist locks, each blacklist that is not nil is      *)
(* stored in the loaded manager.                                          *)
(***************************************************************************)
CopyLoad(t) ==
    /\ t.at = None
    /\ managers[t.id] # None
    /\ copies' = (copies \ {t}) \cup {[t EXCEPT !.at = managers[t.id]]}
    /\ UNCHANGED <<managers, running, producer, config, file, blist, session, pc,
                   arg, val, inst, snap, served>>

CopySkip(t) ==
    /\ t.at = None
    /\ managers[t.id] = None
    /\ copies' = copies \ {t}
    /\ UNCHANGED <<managers, running, producer, config, file, blist, session, pc,
                   arg, val, inst, snap, served>>

CopyStore(t) ==
    /\ t.at # None
    /\ blist' = IF t.conf # None THEN [blist EXCEPT ![t.at] = t.conf] ELSE blist
    /\ copies' = copies \ {t}
    /\ UNCHANGED <<managers, running, producer, config, file, session, pc, arg,
                   val, inst, snap, served>>

CopyStep(t) == CopyLoad(t) \/ CopySkip(t) \/ CopyStore(t)

Next ==
    \/ \E t \in copies : CopyLoad(t)
    \/ \E t \in copies : CopySkip(t)
    \/ \E t \in copies : CopyStore(t)
    \/ \E c \in Clients :
        \/ \E m \in Ids :
              \/ ManagerCreateLoad(c, m)
              \/ \E v \in Blacklists : ManagerUpdateLoad(c, m, v)
              \/ ManagerDeleteLoad(c, m) \/ ShardGroupCreateLoad(c, m)
              \/ ShardGroupStopLoad(c, m) \/ ManagerInitializeLoad(c, m)
        \/ \E r \in Routes : Authenticate(c, r)
        \/ \E u \in Users : Callback(c, u)
        \/ Logout(c)
        \/ \E v \in SUBSET Users : SandwichUpdateSwap(c, v)
        \/ ManagerCreateStore(c) \/ ManagerCreateAppend(c) \/ ManagerCreateSave(c)
        \/ ManagerUpdateInitialize(c) \/ ManagerUpdateSave(c)
        \/ ManagerInitializeInitialize(c)
        \/ ManagerDeleteClose(c) \/ ManagerDeleteDelete(c) \/ ManagerDeleteSave(c)
        \/ ShardGroupCreateOpen(c) \/ ShardGroupStopClose(c)
        \/ SandwichUpdateSave(c)

\* A started request runs to its response: fasthttp does not abandon a
\* handler goroutine, and the Go scheduler runs every goroutine started.
Spec == Init /\ [][Next]_vars /\ \A c \in Clients : WF_vars(pc[c] # "idle" /\ Next)
             /\ WF_vars(\E t \in copies : CopyStep(t))

Quiescent == \A c \in Clients : pc[c] = "idle"

\* Once every request has been answered, sg.Configuration lists each id at
\* most once and exactly the ids stored in sg.Managers: the duplicate check
\* of ManagerCreateEndpoint, the filter-and-append of ManagerUpdateEndpoint
\* and the Delete-then-filter of ManagerDeleteEndpoint keep the map and the
\* list that is saved to disk in step.
ManagersTrackConfig ==
    Quiescent =>
        /\ IsInjective(IdsOf(config.managers))
        /\ Range(IdsOf(config.managers)) = {m \in Ids : managers[m] # None}

\* Once every request has been answered, the file holds sg.Configuration:
\* every handler that changes the configuration saves it, and no save of an
\* older copy lands after a newer one.
SavedConfigCurrent == Quiescent => file = config

\* Once every request has been answered, a manager with an open ShardGroup
\* is the one sg.Managers stores under its id: ManagerDeleteEndpoint closes
\* the manager before dropping it, so no deleted manager keeps running its
\* shards.
ShardGroupsOwned ==
    Quiescent => \A i \in running : managers[i[1]] = i

\* Once every request has been answered and every blacklist-copy goroutine
\* has run, each stored manager filters events with the blacklists that
\* sg.Configuration, and the saved file, list for it: the updates replace
\* the configuration under configurationMu and then copy the blacklists to
\* the managers, in any order, from goroutines that read no lock.
BlacklistsApplied ==
    Quiescent /\ copies = {} =>
        \A e \in Range(config.managers) :
            managers[e.id] # None => blist[managers[e.id]] = e.conf

====
