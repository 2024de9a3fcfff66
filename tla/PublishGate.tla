---------------------------- MODULE PublishGate ----------------------------
(***************************************************************************)
(* What a ShardGroup promises its consumers about publishing (spec section *)
(* 4.3): the events Discord sends are each handled once; the group's gate  *)
(* opens only when every shard is ready, and stays open; an event handled *)
(* while the gate is shut is dropped, one handled while it is open is     *)
(* published unless its type may not be produced.  Nothing else is ever   *)
(* published.  Every shard gets ready, the gate opens, and every event    *)
(* sent is handled.                                                        *)
(***************************************************************************)
EXTENDS FiniteSets

CONSTANTS
    Shards,  \* the shards of the group
    Ids      \* event ids

VARIABLES
    ready,   \* the shards that have signalled ready
    open,    \* the gate
    sent,    \* the events Discord has sent
    mute,    \* those of a type the producer must not publish
    done,    \* the events handled
    out      \* the events published

avars == <<ready, open, sent, mute, done, out>>

GateTypeOK ==
    /\ ready \subseteq Shards /\ open \in BOOLEAN
    /\ sent \subseteq Ids /\ mute \subseteq sent
    /\ done \subseteq sent /\ out \subseteq done

GateInit ==
    /\ ready = {} /\ open = FALSE
    /\ sent = {} /\ mute = {} /\ done = {} /\ out = {}

Send(i, m) ==
    /\ i \in Ids \ sent
    /\ sent' = sent \cup {i}
    /\ mute' = IF m THEN mute \cup {i} ELSE mute
    /\ UNCHANGED <<ready, open, done, out>>

SignalReady(s) ==
    /\ s \notin ready
    /\ ready' = ready \cup {s}
    /\ UNCHANGED <<open, sent, mute, done, out>>

Open ==
    /\ ~open /\ ready = Shards
    /\ open' = TRUE
    /\ UNCHANGED <<ready, sent, mute, done, out>>

Handle(i) ==
    /\ i \in sent \ done
    /\ done' = done \cup {i}
    /\ out' = IF open /\ i \notin mute THEN out \cup {i} ELSE out
    /\ UNCHANGED <<ready, open, sent, mute>>

GateNext ==
    \/ \E i \in Ids, m \in BOOLEAN : Send(i, m)
    \/ \E s \in Shards : SignalReady(s)
    \/ Open
    \/ \E i \in Ids : Handle(i)

GateSpec ==
    /\ GateInit /\ [][GateNext]_avars
    /\ \A s \in Shards : WF_avars(SignalReady(s))
    /\ WF_avars(Open)
    /\ \A i \in Ids : WF_avars(Handle(i))
====
