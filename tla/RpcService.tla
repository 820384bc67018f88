----------------------------- MODULE RpcService -----------------------------
(***************************************************************************)
(* The worker's serialized controller protocol: RpcService of              *)
(* src/qudgym/rpc.py in front of the reference backend,                    *)
(* src/qudgym/mock.py.  handle() runs under one lock, so a call is a       *)
(* single step.  What it returns is LatestReply afterwards, except for a   *)
(* conflict.                                                               *)
(*                                                                         *)
(* The game is abstracted to a token: `world' stands for the backend's     *)
(* state and random stream together, and a world never seen before gets a  *)
(* token of its own.  Decision identifiers "<episode>:<generation>" are    *)
(* pairs of numbers; the random episode token and the random snapshot      *)
(* handles are numbers never used before.                                  *)
(***************************************************************************)
EXTENDS ReplyCache, FiniteSets

CONSTANTS Action,        \* action identifiers
          MaxSnapshots,  \* max_snapshots of the backend
          AllowOracle,   \* the backend's allow_oracle
          MaxEpisodes, MaxGeneration, MaxWorlds, MaxHandles,  \* bounds on the counters
          NoAction

ASSUME LimitAssumption == /\ MaxSnapshots \in Nat \ {0}
                          /\ AllowOracle \in BOOLEAN
ASSUME BoundAssumption == /\ MaxEpisodes \in Nat /\ MaxGeneration \in Nat
                          /\ MaxWorlds \in Nat /\ MaxHandles \in Nat
ASSUME NoneAssumption == NoAction \notin Action

VARIABLES
    faulted,      \* _faulted: the backend raised something unexpected
    episode,      \* _episode, or 0 while there is no state to require
    generation,   \* _generation
    world,        \* _state and _rng
    finished,     \* _state.outcome is not "ongoing"
    snapshots,    \* _snapshots
    used,         \* history: episodes, worlds and handles given out so far
    presented,    \* history: decisions answered, each with its world
    ledger        \* history: steps committed, each with the world it acted on

backendVars == <<episode, generation, world, finished, snapshots>>
rpcVars == <<cache, faulted, backendVars, used, presented, ledger>>

Decision == [episode : Nat, number : Nat]
NoDecision == [episode |-> 0, number |-> 0]
Cursor == [episode |-> episode, number |-> generation]      \* _decision

OpName == {"hello", "reset", "observe", "step", "snapshot", "restore",
           "release", "state_hash"}
Operation == [name : OpName, decision : Decision, action : Action \cup {NoAction},
              handle : Nat]

Op(n) == [name |-> n, decision |-> NoDecision, action |-> NoAction, handle |-> 0]
StepOp(d, a) == [Op("step") EXCEPT !.decision = d, !.action = a]
HandleOp(n, h) == [Op(n) EXCEPT !.handle = h]

\* A reply: "ok" with a decision or a handle, or the code of an error.
Error(c) == [code |-> c, decision |-> NoDecision, handle |-> 0]
Done == Error("ok")
AtDecision(d) == [Done EXCEPT !.decision = d]
WithHandle(h) == [Done EXCEPT !.handle = h]

RpcInit ==
    /\ cache = <<>>
    /\ faulted = FALSE
    /\ episode = 0 /\ generation = 0 /\ world = 0 /\ finished = FALSE
    /\ snapshots = {}
    /\ used = [episodes |-> 0, worlds |-> 0, handles |-> 0]
    /\ presented = {}
    /\ ledger = {}

-----------------------------------------------------------------------------
(* Answers the backend has no part in.  A definition whose comment begins   *)
(* with "Mutant" is a plausible bug the checks must catch; nothing uses it. *)

\* Reuse of an identifier with other content.
AnswerConflict(id, op) ==
    /\ Conflict(id, op)
    /\ UNCHANGED <<faulted, backendVars, used, presented, ledger>>

\* A duplicate gets the stored reply; the backend is not called.
AnswerFromCache(id, op) ==
    /\ Hit(id, op)
    /\ UNCHANGED <<faulted, backendVars, used, presented, ledger>>

\* Mutant: the worker goes on after an internal failure.
BlockedNever(op) == FALSE

Blocked(op) == faulted /\ op.name \notin {"hello", "reset"}

\* A request the service computes an answer for; blocked ones get an error.
Dispatched(id, op) == ~Cached(id) /\ ~Blocked(op)

AnswerFaulted(id, op) ==
    /\ ~Cached(id) /\ Blocked(op)
    /\ Store(id, op, Error("worker_faulted"))
    /\ UNCHANGED <<faulted, backendVars, used, presented, ledger>>

-----------------------------------------------------------------------------
(* The backend's operations.  Refuse is a QudGymError raised before any     *)
(* assignment.                                                              *)

Refuse(id, op, code) ==
    /\ Store(id, op, Error(code))
    /\ UNCHANGED <<faulted, backendVars, used, presented, ledger>>

FreshWorld == used.worlds + 1
Present(d, w) == presented' = presented \cup {[decision |-> d, world |-> w]}

\* Mutant: a reset keeps the snapshots of the episode it ends.
SnapshotsKept == snapshots

SnapshotsOnReset == {}

Reset(id, op) ==
    /\ op.name = "reset" /\ Dispatched(id, op)
    /\ used.episodes < MaxEpisodes /\ FreshWorld <= MaxWorlds
    /\ generation < MaxGeneration
    /\ episode' = used.episodes + 1
    /\ generation' = generation + 1
    /\ world' = FreshWorld
    /\ finished' = FALSE
    /\ snapshots' = SnapshotsOnReset
    /\ faulted' = FALSE
    /\ used' = [used EXCEPT !.episodes = episode', !.worlds = world']
    /\ Store(id, op, AtDecision(Cursor'))
    /\ Present(Cursor', world')
    /\ UNCHANGED ledger

Hello(id, op) ==
    /\ op.name = "hello" /\ Dispatched(id, op)
    /\ Store(id, op, Done)
    /\ UNCHANGED <<faulted, backendVars, used, presented, ledger>>

Observe(id, op) ==
    /\ op.name = "observe" /\ Dispatched(id, op)
    /\ IF episode = 0
       THEN Refuse(id, op, "reset_required")
       ELSE /\ Store(id, op, AtDecision(Cursor))
            /\ Present(Cursor, world)
            /\ UNCHANGED <<faulted, backendVars, used, ledger>>

\* Mutant: the step does not compare the decision it was chosen at.
StaleNever(d) == FALSE

Stale(d) == d # Cursor

\* Whether the action is a candidate, and whether it ends the episode, depends
\* on the world: both answers are possible.
StepBackend(id, op) ==
    /\ op.name = "step" /\ Dispatched(id, op)
    /\ \/ episode = 0 /\ Refuse(id, op, "reset_required")
       \/ episode # 0 /\ Stale(op.decision) /\ Refuse(id, op, "stale_decision")
       \/ /\ episode # 0 /\ ~Stale(op.decision) /\ finished
          /\ Refuse(id, op, "episode_finished")
       \/ /\ episode # 0 /\ ~Stale(op.decision) /\ ~finished
          /\ Refuse(id, op, "invalid_action")
       \/ /\ episode # 0 /\ ~Stale(op.decision) /\ ~finished
          /\ FreshWorld <= MaxWorlds /\ generation < MaxGeneration
          /\ generation' = generation + 1
          /\ world' = FreshWorld
          /\ finished' \in BOOLEAN
          /\ used' = [used EXCEPT !.worlds = @ + 1]
          /\ ledger' = ledger \cup {[id |-> id, op |-> op, world |-> world]}
          /\ UNCHANGED <<faulted, episode, snapshots>>
          /\ Store(id, op, AtDecision(Cursor'))
          /\ Present(Cursor', world')

\* _oracle
OracleError == IF episode = 0 THEN "reset_required" ELSE "unsupported"
Oracle == episode # 0 /\ AllowOracle

SnapshotRoom == Cardinality(snapshots) < MaxSnapshots

Snapshot(id, op) ==
    /\ op.name = "snapshot" /\ Dispatched(id, op)
    /\ \/ ~Oracle /\ Refuse(id, op, OracleError)
       \/ Oracle /\ ~SnapshotRoom /\ Refuse(id, op, "snapshot_limit")
       \/ /\ Oracle /\ SnapshotRoom /\ used.handles < MaxHandles
          /\ snapshots' = snapshots \cup {[handle |-> used.handles + 1,
                episode |-> episode, world |-> world, finished |-> finished]}
          /\ used' = [used EXCEPT !.handles = @ + 1]
          /\ Store(id, op, WithHandle(used.handles + 1))
          /\ UNCHANGED <<faulted, episode, generation, world, finished,
                         presented, ledger>>

Retained(h) == {s \in snapshots : s.handle = h}

\* Mutant: a restore does not move the cursor.
CursorKept == generation

CursorAfterRestore == generation + 1

\* The world comes back, the cursor does not.
Restore(id, op) ==
    /\ op.name = "restore" /\ Dispatched(id, op)
    /\ \/ ~Oracle /\ Refuse(id, op, OracleError)
       \/ Oracle /\ Retained(op.handle) = {} /\ Refuse(id, op, "unknown_snapshot")
       \/ /\ Oracle /\ generation < MaxGeneration
          /\ \E s \in Retained(op.handle) :
                /\ world' = s.world
                /\ finished' = s.finished
          /\ generation' = CursorAfterRestore
          /\ UNCHANGED <<faulted, episode, snapshots, used, ledger>>
          /\ Store(id, op, AtDecision(Cursor'))
          /\ Present(Cursor', world')

Release(id, op) ==
    /\ op.name = "release" /\ Dispatched(id, op)
    /\ \/ ~Oracle /\ Refuse(id, op, OracleError)
       \/ Oracle /\ Retained(op.handle) = {} /\ Refuse(id, op, "unknown_snapshot")
       \/ /\ Oracle /\ Retained(op.handle) # {}
          /\ snapshots' = snapshots \ Retained(op.handle)
          /\ Store(id, op, Done)
          /\ UNCHANGED <<faulted, episode, generation, world, finished, used,
                         presented, ledger>>

StateHash(id, op) ==
    /\ op.name = "state_hash" /\ Dispatched(id, op)
    /\ IF Oracle
       THEN /\ Store(id, op, Done)
            /\ UNCHANGED <<faulted, backendVars, used, presented, ledger>>
       ELSE Refuse(id, op, OracleError)

\* A reset that raises half way: it sets the state, names the episode, moves
\* the cursor and forgets the snapshots, in this order; it may be the first one.
HalfReset ==
    /\ used.episodes < MaxEpisodes
    /\ finished' \in {finished, FALSE}
    /\ \/ /\ UNCHANGED <<episode, generation, snapshots>>
          /\ used' = [used EXCEPT !.worlds = @ + 1]
       \/ /\ episode' = used.episodes + 1
          /\ used' = [used EXCEPT !.episodes = episode', !.worlds = world']
          /\ \/ UNCHANGED <<generation, snapshots>>
             \/ /\ generation' = generation + 1
                /\ snapshots' \in {snapshots, SnapshotsOnReset}

\* A step or a restore that raises half way, with or without moving the cursor.
HalfMove ==
    /\ episode # 0
    /\ finished' \in BOOLEAN
    /\ generation' \in {generation, generation + 1}
    /\ used' = [used EXCEPT !.worlds = @ + 1]
    /\ UNCHANGED <<episode, snapshots>>

\* Any other exception out of the backend: an operation that changes the state
\* may have done some of it.
BackendRaises(id, op) ==
    /\ Dispatched(id, op)
    /\ faulted' = TRUE
    /\ \/ UNCHANGED <<backendVars, used>>
       \/ /\ FreshWorld <= MaxWorlds /\ generation < MaxGeneration
          /\ world' = FreshWorld
          /\ \/ op.name = "reset" /\ HalfReset
             \/ op.name \in {"step", "restore"} /\ HalfMove
    /\ Store(id, op, Error("internal_error"))
    /\ UNCHANGED <<presented, ledger>>

-----------------------------------------------------------------------------
\* RpcService.handle
Handle(id, op) ==
    \/ AnswerConflict(id, op) \/ AnswerFromCache(id, op) \/ AnswerFaulted(id, op)
    \/ Hello(id, op) \/ Reset(id, op) \/ Observe(id, op) \/ StepBackend(id, op)
    \/ Snapshot(id, op) \/ Restore(id, op) \/ Release(id, op)
    \/ StateHash(id, op) \/ BackendRaises(id, op)

\* The process is started again: nothing of the service is persistent, and the
\* new backend counts its generations from zero.
Restart ==
    /\ cache' = <<>> /\ faulted' = FALSE
    /\ episode' = 0 /\ generation' = 0 /\ world' = 0 /\ finished' = FALSE
    /\ snapshots' = {}
    /\ UNCHANGED <<used, presented, ledger>>

\* Callers name decisions and handles they were given, or none.
KnownDecisions == {p.decision : p \in presented} \cup {NoDecision}
KnownOps ==
    {Op(n) : n \in {"hello", "reset", "observe", "snapshot", "state_hash"}}
    \cup {StepOp(d, a) : d \in KnownDecisions, a \in Action}
    \cup {HandleOp(n, h) : n \in {"restore", "release"}, h \in 0 .. used.handles}

RpcNext == \/ \E id \in RequestId : \E op \in KnownOps : Handle(id, op)
           \/ Restart

RpcSpec == RpcInit /\ [][RpcNext]_rpcVars

-----------------------------------------------------------------------------
(* Properties.                                                             *)

Reply == [code : {"ok", "request_id_conflict", "worker_faulted",
                  "internal_error", "reset_required", "stale_decision",
                  "episode_finished", "invalid_action", "unsupported",
                  "snapshot_limit", "unknown_snapshot"},
          decision : Decision, handle : Nat]

\* Every variable keeps its type.
RpcTypeOK ==
    /\ cache \in Seq([id : RequestId, op : Operation, reply : Reply])
    /\ faulted \in BOOLEAN
    /\ episode \in Nat /\ generation \in Nat /\ world \in Nat
    /\ finished \in BOOLEAN
    /\ snapshots \subseteq [handle : Nat, episode : Nat, world : Nat,
                            finished : BOOLEAN]
    /\ used \in [episodes : Nat, worlds : Nat, handles : Nat]
    /\ presented \subseteq [decision : Decision, world : Nat]
    /\ ledger \subseteq [id : RequestId, op : Operation, world : Nat]

\* A committed step acted on the very world that was presented under the
\* decision it names, through restores, internal failures and restarts.
ActsOnWorldPresented ==
    \A s \in ledger : \A p \in presented :
        p.decision = s.op.decision => p.world = s.world

\* At most one step is ever committed at a decision, so a step is applied once
\* even when its reply has been evicted from the cache and it is sent again.
OneStepPerDecision ==
    \A s, t \in ledger : s.op.decision = t.op.decision => s = t

\* A decision names one world for ever: no operation brings an old cursor back.
DecisionNamesOneWorld ==
    \A p, q \in presented : p.decision = q.decision => p = q

\* Snapshots never exceed their limit, and those a sound worker keeps are of the
\* current episode, also after a reset that has failed half way.
SnapshotsOfEpisode ==
    /\ ~faulted => \A s \in snapshots : s.episode = episode
    /\ Cardinality(snapshots) <= MaxSnapshots
=============================================================================
