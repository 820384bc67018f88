-------------------------- MODULE ControllerProofs --------------------------
(***************************************************************************)
(* Proofs about RpcService and the Controller that composes it with its    *)
(* clients, for every set of identifiers and actions, every size of the    *)
(* reply cache and every bound on the counters.  A committed step acted on *)
(* the world its caller was shown, and only once; with requests that       *)
(* outlive their calls, replays and restarts of the worker, the worker     *)
(* still sees only what RpcService was proved correct for, and a step is   *)
(* applied once.                                                           *)
(***************************************************************************)
EXTENDS Controller, ReplyCacheProofs, FiniteSetTheorems

-----------------------------------------------------------------------------
(* RpcService.                                                             *)

Entry == [id : RequestId, op : Operation, reply : Reply]

-----------------------------------------------------------------------------
(* Types.                                                                  *)

\* What the helpers build are replies and operations.
LEMMA RepliesTyped ==
    /\ \A c \in {"ok", "worker_faulted", "internal_error", "reset_required",
                 "stale_decision", "episode_finished", "invalid_action",
                 "unsupported", "snapshot_limit", "unknown_snapshot"} :
          Error(c) \in Reply
    /\ Done \in Reply
    /\ \A d \in Decision : AtDecision(d) \in Reply
    /\ \A h \in Nat : WithHandle(h) \in Reply
BY DEF Error, Done, AtDecision, WithHandle, Reply, Decision, NoDecision

\* Callers send operations only.
LEMMA OpsTyped == RpcTypeOK => KnownOps \subseteq Operation
<1> SUFFICES ASSUME RpcTypeOK, NEW op \in KnownOps
             PROVE  op \in Operation
  OBVIOUS
<1> USE DEF RpcTypeOK
<1>1. KnownDecisions \subseteq Decision
  BY DEF KnownDecisions, Decision, NoDecision
<1>2. \A n \in OpName : Op(n) \in Operation
  BY DEF Op, Operation, Decision, NoDecision
<1>3. \A d \in Decision, a \in Action : StepOp(d, a) \in Operation
  BY DEF StepOp, Op, Operation, OpName, NoDecision
<1>4. \A n \in OpName, h \in Nat : HandleOp(n, h) \in Operation
  BY DEF HandleOp, Op, Operation, Decision, NoDecision
<1>5. \A h \in 0 .. used.handles : h \in Nat
  OBVIOUS
<1> QED
  BY <1>1, <1>2, <1>3, <1>4, <1>5 DEF KnownOps, OpName

\* Storing a reply keeps the cache typed.
LEMMA StoreTyped ==
    ASSUME cache \in Seq(Entry), NEW id \in RequestId, NEW op \in Operation,
           NEW reply \in Reply, Store(id, op, reply)
    PROVE  cache' \in Seq(Entry)
<1> DEFINE e == [id |-> id, op |-> op, reply |-> reply]
<1>1. e \in Entry
  BY DEF Entry
<1>2. Append(cache, e) \in Seq(Entry) /\ Append(cache, e) # <<>>
  BY <1>1, AppendProperties
<1>3. Tail(Append(cache, e)) \in Seq(Entry)
  BY <1>2
<1> QED
  BY <1>2, <1>3 DEF Store, Evicted

\* Touching an entry keeps the cache typed.
LEMMA HitTyped ==
    ASSUME cache \in Seq(Entry), NEW id, NEW op, Hit(id, op)
    PROVE  cache' \in Seq(Entry)
<1>1. PICK i \in DOMAIN cache : cache' = Touched(i)
  BY DEF Hit
<1>2. i \in 1 .. Len(cache) /\ Len(cache) \in Nat /\ cache[i] \in Entry
  BY <1>1
<1>3. SubSeq(cache, 1, i - 1) \in Seq(Entry) /\ SubSeq(cache, i + 1, Len(cache)) \in Seq(Entry)
  BY <1>2, SubSeqProperties
<1>4. RemoveAt(cache, i) \in Seq(Entry)
  BY <1>3 DEF RemoveAt
<1> QED
  BY <1>1, <1>2, <1>4 DEF Touched

\* The types of all variables but the cache.
StateOK ==
    /\ faulted \in BOOLEAN
    /\ episode \in Nat /\ generation \in Nat /\ world \in Nat
    /\ finished \in BOOLEAN
    /\ snapshots \subseteq [handle : Nat, episode : Nat, world : Nat,
                            finished : BOOLEAN]
    /\ used \in [episodes : Nat, worlds : Nat, handles : Nat]
    /\ presented \subseteq [decision : Decision, world : Nat]
    /\ ledger \subseteq [id : RequestId, op : Operation, world : Nat]

\* The type invariant is that of the cache and that of the rest.
LEMMA TypeSplit == /\ RpcTypeOK <=> cache \in Seq(Entry) /\ StateOK
                   /\ RpcTypeOK' <=> cache' \in Seq(Entry) /\ StateOK'
BY DEF RpcTypeOK, StateOK, Entry

\* A refusal stores the code of an error and touches nothing else.
LEMMA RefuseTyped ==
    ASSUME RpcTypeOK, NEW id \in RequestId, NEW op \in Operation, NEW code,
           Error(code) \in Reply, Refuse(id, op, code)
    PROVE  RpcTypeOK'
<1>1. cache' \in Seq(Entry)
  BY TypeSplit, StoreTyped DEF Refuse
<1> QED
  BY <1>1, TypeSplit DEF StateOK, Refuse, backendVars

\* Every step of the service keeps the types.
LEMMA Typing == RpcTypeOK /\ [RpcNext]_rpcVars => RpcTypeOK'
<1> SUFFICES ASSUME RpcTypeOK, [RpcNext]_rpcVars
             PROVE  RpcTypeOK'
  OBVIOUS
<1> USE TypeSplit, RepliesTyped
<1>1. CASE UNCHANGED rpcVars
  BY <1>1 DEF rpcVars, backendVars, StateOK
<1>2. CASE Restart
  <2>1. cache' \in Seq(Entry)
    BY <1>2 DEF Restart
  <2>2. StateOK'
    BY <1>2 DEF Restart, StateOK
  <2> QED
    BY <2>1, <2>2
<1>3. ASSUME NEW id \in RequestId, NEW op \in KnownOps, Handle(id, op)
      PROVE  RpcTypeOK'
  <2>0. op \in Operation
    BY OpsTyped
  <2>c. Cursor \in Decision /\ (StateOK' => Cursor' \in Decision)
    BY DEF Cursor, Decision, StateOK
  <2>1. CASE AnswerConflict(id, op)
    BY <2>1 DEF AnswerConflict, Conflict, StateOK, backendVars
  <2>2. CASE AnswerFromCache(id, op)
    BY <2>2, HitTyped DEF AnswerFromCache, StateOK, backendVars
  <2>3. CASE AnswerFaulted(id, op)
    BY <2>0, <2>3, StoreTyped DEF AnswerFaulted, StateOK, backendVars
  <2>4. CASE Hello(id, op)
    BY <2>0, <2>4, StoreTyped DEF Hello, StateOK, backendVars
  <2>5. CASE Reset(id, op)
    <3>1. /\ episode' \in Nat /\ generation' \in Nat /\ world' \in Nat
          /\ finished' \in BOOLEAN /\ faulted' \in BOOLEAN
      <4>1. /\ episode' = used.episodes + 1 /\ generation' = generation + 1
            /\ world' = FreshWorld /\ finished' = FALSE /\ faulted' = FALSE
        BY <2>5, Zenon DEF Reset
      <4>2. used.episodes \in Nat /\ used.worlds \in Nat /\ generation \in Nat
        BY DEF StateOK
      <4>3. finished' \in BOOLEAN /\ faulted' \in BOOLEAN
        BY <4>1, Zenon
      <4> QED
        BY <4>1, <4>2, <4>3, SMT DEF FreshWorld
    <3>0. used' \in [episodes : Nat, worlds : Nat, handles : Nat]
      <4>1. used' = [used EXCEPT !.episodes = episode', !.worlds = world']
        BY <2>5, Zenon DEF Reset
      <4> QED
        BY <3>1, <4>1 DEF StateOK
    <3>2. Cursor' \in Decision
      BY <3>1 DEF Cursor, Decision
    <3>3. cache' \in Seq(Entry)
      BY <2>0, <2>5, <3>2, StoreTyped DEF Reset
    <3>4. presented' \subseteq [decision : Decision, world : Nat]
      BY <2>5, <3>1, <3>2 DEF Reset, Present, StateOK
    <3> QED
      BY <2>5, <3>0, <3>1, <3>3, <3>4 DEF Reset, SnapshotsOnReset, StateOK
  <2>6. CASE Observe(id, op)
    <3>1. CASE episode = 0
      BY <2>0, <2>6, <3>1, RefuseTyped DEF Observe
    <3>2. CASE episode # 0
      <4>1. cache' \in Seq(Entry)
        BY <2>0, <2>c, <2>6, <3>2, StoreTyped DEF Observe
      <4>2. presented' \subseteq [decision : Decision, world : Nat]
        BY <2>6, <2>c, <3>2 DEF Observe, Present, StateOK
      <4> QED
        BY <2>6, <3>2, <4>1, <4>2 DEF Observe, StateOK, backendVars
    <3> QED
      BY <3>1, <3>2
  <2>7. CASE StepBackend(id, op)
    <3>1. CASE \E c \in {"reset_required", "stale_decision", "episode_finished",
                         "invalid_action"} : Refuse(id, op, c)
      BY <2>0, <3>1, RefuseTyped
    <3>2. CASE ~ \E c \in {"reset_required", "stale_decision", "episode_finished",
                           "invalid_action"} : Refuse(id, op, c)
      <4>1. /\ generation' = generation + 1 /\ world' = FreshWorld
            /\ finished' \in BOOLEAN
            /\ used' = [used EXCEPT !.worlds = @ + 1]
            /\ ledger' = ledger \cup {[id |-> id, op |-> op, world |-> world]}
            /\ UNCHANGED <<faulted, episode, snapshots>>
            /\ Store(id, op, AtDecision(Cursor'))
            /\ Present(Cursor', world')
        BY <2>7, <3>2 DEF StepBackend
      <4>2. /\ generation' \in Nat /\ world' \in Nat /\ episode' \in Nat
            /\ used' \in [episodes : Nat, worlds : Nat, handles : Nat]
        BY <4>1 DEF StateOK, FreshWorld
      <4>3. Cursor' \in Decision
        BY <4>2 DEF Cursor, Decision
      <4>4. cache' \in Seq(Entry)
        BY <2>0, <4>1, <4>3, StoreTyped
      <4>5. presented' \subseteq [decision : Decision, world : Nat]
        BY <4>1, <4>2, <4>3 DEF Present, StateOK
      <4>6. ledger' \subseteq [id : RequestId, op : Operation, world : Nat]
        BY <2>0, <4>1 DEF StateOK
      <4> QED
        BY <4>1, <4>2, <4>4, <4>5, <4>6 DEF StateOK
    <3> QED
      BY <3>1, <3>2
  <2>8. CASE Snapshot(id, op)
    <3>1. CASE \E c \in {"reset_required", "unsupported", "snapshot_limit"} :
                 Refuse(id, op, c)
      BY <2>0, <3>1, RefuseTyped
    <3>2. CASE ~ \E c \in {"reset_required", "unsupported", "snapshot_limit"} :
                   Refuse(id, op, c)
      <4>1. /\ snapshots' = snapshots \cup {[handle |-> used.handles + 1,
                  episode |-> episode, world |-> world, finished |-> finished]}
            /\ used' = [used EXCEPT !.handles = @ + 1]
            /\ Store(id, op, WithHandle(used.handles + 1))
            /\ UNCHANGED <<faulted, episode, generation, world, finished,
                           presented, ledger>>
        BY <2>8, <3>2 DEF Snapshot, OracleError
      <4>2. cache' \in Seq(Entry)
        BY <2>0, <4>1, StoreTyped DEF StateOK
      <4>3. used' \in [episodes : Nat, worlds : Nat, handles : Nat]
        BY <4>1 DEF StateOK
      <4>4. snapshots' \subseteq [handle : Nat, episode : Nat, world : Nat,
                                  finished : BOOLEAN]
        BY <4>1 DEF StateOK
      <4> QED
        BY <4>1, <4>2, <4>3, <4>4 DEF StateOK
    <3> QED
      BY <3>1, <3>2
  <2>9. CASE Restore(id, op)
    <3>1. CASE \E c \in {"reset_required", "unsupported", "unknown_snapshot"} :
                 Refuse(id, op, c)
      BY <2>0, <3>1, RefuseTyped
    <3>2. CASE ~ \E c \in {"reset_required", "unsupported", "unknown_snapshot"} :
                   Refuse(id, op, c)
      <4>1. /\ \E s \in Retained(op.handle) :
                  world' = s.world /\ finished' = s.finished
            /\ generation' = generation + 1
            /\ UNCHANGED <<faulted, episode, snapshots, used, ledger>>
            /\ Store(id, op, AtDecision(Cursor'))
            /\ Present(Cursor', world')
        BY <2>9, <3>2 DEF Restore, OracleError, CursorAfterRestore
      <4>2. world' \in Nat /\ finished' \in BOOLEAN
        BY <4>1 DEF StateOK, Retained
      <4>3. generation' \in Nat /\ episode' \in Nat
        BY <4>1 DEF StateOK
      <4>4. Cursor' \in Decision
        BY <4>3 DEF Cursor, Decision
      <4>5. cache' \in Seq(Entry)
        BY <2>0, <4>1, <4>4, StoreTyped
      <4>6. presented' \subseteq [decision : Decision, world : Nat]
        BY <4>1, <4>2, <4>4 DEF Present, StateOK
      <4> QED
        BY <4>1, <4>2, <4>3, <4>5, <4>6 DEF StateOK
    <3> QED
      BY <3>1, <3>2
  <2>10. CASE Release(id, op)
    <3>1. CASE \E c \in {"reset_required", "unsupported", "unknown_snapshot"} :
                 Refuse(id, op, c)
      BY <2>0, <3>1, RefuseTyped
    <3>2. CASE ~ \E c \in {"reset_required", "unsupported", "unknown_snapshot"} :
                   Refuse(id, op, c)
      <4>1. /\ snapshots' = snapshots \ Retained(op.handle)
            /\ Store(id, op, Done)
            /\ UNCHANGED <<faulted, episode, generation, world, finished, used,
                           presented, ledger>>
        BY <2>10, <3>2 DEF Release, OracleError
      <4>2. cache' \in Seq(Entry)
        BY <2>0, <4>1, StoreTyped
      <4> QED
        BY <4>1, <4>2 DEF StateOK
    <3> QED
      BY <3>1, <3>2
  <2>11. CASE StateHash(id, op)
    <3>1. CASE Oracle
      BY <2>0, <2>11, <3>1, StoreTyped DEF StateHash, StateOK, backendVars
    <3>2. CASE ~Oracle
      BY <2>0, <2>11, <3>2, RefuseTyped DEF StateHash, OracleError
    <3> QED
      BY <3>1, <3>2
  <2>12. CASE BackendRaises(id, op)
    <3>1. cache' \in Seq(Entry)
      BY <2>0, <2>12, StoreTyped DEF BackendRaises
    <3>2. /\ world' \in Nat /\ generation' \in Nat /\ episode' \in Nat
          /\ used' \in [episodes : Nat, worlds : Nat, handles : Nat]
          /\ finished' \in BOOLEAN
          /\ snapshots' = snapshots \/ snapshots' = {}
      <4>1. CASE UNCHANGED <<backendVars, used>>
        BY <4>1 DEF StateOK, backendVars
      <4>2. CASE world' = FreshWorld /\ HalfReset
        <5>1. finished' \in BOOLEAN
          BY <4>2, Zenon DEF HalfReset, StateOK
        <5>2. snapshots' = snapshots \/ snapshots' = {}
          BY <4>2 DEF HalfReset, SnapshotsOnReset
        <5>3. world' \in Nat /\ generation' \in Nat /\ episode' \in Nat
          BY <4>2 DEF HalfReset, StateOK, FreshWorld
        <5>4. used' \in [episodes : Nat, worlds : Nat, handles : Nat]
          <6>1. CASE used' = [used EXCEPT !.worlds = @ + 1]
            BY <6>1 DEF StateOK
          <6>2. CASE used' = [used EXCEPT !.episodes = episode', !.worlds = world']
            BY <5>3, <6>2 DEF StateOK
          <6> QED
            BY <4>2, <6>1, <6>2 DEF HalfReset
        <5> QED
          BY <5>1, <5>2, <5>3, <5>4
      <4>3. CASE world' = FreshWorld /\ HalfMove
        BY <4>3 DEF HalfMove, StateOK, FreshWorld
      <4> QED
        BY <2>12, <4>1, <4>2, <4>3 DEF BackendRaises
    <3> QED
      BY <2>12, <3>1, <3>2 DEF BackendRaises, StateOK
  <2> QED
    BY <1>3, <2>1, <2>2, <2>3, <2>4, <2>5, <2>6, <2>7, <2>8, <2>9, <2>10,
       <2>11, <2>12 DEF Handle
<1> QED
  BY <1>1, <1>2, <1>3 DEF RpcNext

-----------------------------------------------------------------------------
(* The inductive invariant.                                                *)

\* The parts of the type invariant that the safety argument reads.
CountersOK ==
    /\ episode \in Nat /\ generation \in Nat
    /\ used.episodes \in Nat
    /\ episode <= used.episodes

\* Every decision answered so far belongs to an episode that was given out, and
\* none of the present episode is ahead of the cursor.
PresentedIsPast ==
    \A p \in presented :
        /\ p.decision.episode \in 1 .. used.episodes
        /\ p.decision.number \in Nat
        /\ p.decision.episode = episode => p.decision.number <= generation

\* While the worker is sound, its present world has been presented.
CursorPresented ==
    episode # 0 /\ ~faulted => [decision |-> Cursor, world |-> world] \in presented

\* A step is entered with the world presented under its decision, and the
\* cursor has left that decision behind.
LedgerIsPast ==
    \A s \in ledger :
        /\ [decision |-> s.op.decision, world |-> s.world] \in presented
        /\ s.op.decision.episode = episode => s.op.decision.number < generation

SafeInv == /\ CountersOK
           /\ PresentedIsPast
           /\ CursorPresented
           /\ LedgerIsPast
           /\ DecisionNamesOneWorld
           /\ OneStepPerDecision

-----------------------------------------------------------------------------
(* The three ways in which a call can touch what SafeInv speaks of.        *)

safeVars == <<faulted, episode, generation, world, used.episodes, presented, ledger>>

\* Nothing of it changes: duplicates, errors, snapshots and reading calls.
Quiet == UNCHANGED safeVars

\* The cursor moves on to a decision that nobody has seen, and is presented;
\* a step enters the decision it left behind.
MovesOn ==
    /\ \/ episode' = used.episodes + 1 /\ used.episodes' = used.episodes + 1
       \/ /\ episode' = episode /\ generation' = generation + 1
          /\ used.episodes' = used.episodes /\ episode # 0
    /\ generation' \in Nat
    /\ presented' = presented \cup {[decision |-> Cursor', world |-> world']}

\* The service is cut off from its past until the next reset: by a failure, which
\* may have begun a new episode, or by a restart.
CutOff ==
    /\ UNCHANGED <<presented, ledger>>
    /\ \/ /\ faulted' /\ generation' \in {generation, generation + 1}
          /\ \/ episode' = episode /\ used'.episodes = used.episodes
             \/ /\ episode' = used.episodes + 1
                /\ used'.episodes = used.episodes + 1
       \/ episode' = 0 /\ generation' = 0 /\ used'.episodes = used.episodes

\* A quiet step keeps the safety invariant.
LEMMA QuietKeeps == SafeInv /\ Quiet => SafeInv'
BY DEF SafeInv, Quiet, safeVars, CountersOK, PresentedIsPast, CursorPresented,
       LedgerIsPast, DecisionNamesOneWorld, OneStepPerDecision, Cursor

\* Cutting the service off keeps the safety invariant.
LEMMA CutOffKeeps == SafeInv /\ CutOff => SafeInv'
<1> SUFFICES ASSUME SafeInv, CutOff PROVE SafeInv'
  OBVIOUS
<1> USE DEF SafeInv, CutOff
<1>1. CountersOK'
  BY DEF CountersOK
<1>2. PresentedIsPast'
  BY DEF PresentedIsPast, CountersOK
<1>3. CursorPresented'
  BY DEF CursorPresented
<1>4. LedgerIsPast'
  <2> SUFFICES ASSUME NEW s \in ledger
               PROVE  /\ [decision |-> s.op.decision, world |-> s.world] \in presented
                      /\ s.op.decision.episode = episode' => s.op.decision.number < generation'
    BY DEF LedgerIsPast
  <2>1. [decision |-> s.op.decision, world |-> s.world] \in presented
    BY DEF LedgerIsPast
  <2>2. s.op.decision.episode \in 1 .. used.episodes /\ s.op.decision.number \in Nat
    BY <2>1 DEF PresentedIsPast
  <2> QED
    BY <2>1, <2>2 DEF LedgerIsPast, CountersOK
<1>5. DecisionNamesOneWorld' /\ OneStepPerDecision'
  BY DEF DecisionNamesOneWorld, OneStepPerDecision
<1> QED
  BY <1>1, <1>2, <1>3, <1>4, <1>5

\* The ledger is unchanged, or gains a step at the decision just left, which
\* was presented with the world the step acted on.
LEMMA MovesOnKeeps ==
    ASSUME SafeInv, MovesOn,
           \/ ledger' = ledger
           \/ /\ ~faulted /\ episode # 0 /\ episode' = episode
              /\ \E s : /\ s.op.decision = Cursor /\ s.world = world
                        /\ ledger' = ledger \cup {s}
    PROVE  SafeInv'
<1> USE DEF SafeInv
<1>1. CountersOK'
  BY DEF CountersOK, MovesOn
<1>2. Cursor'.episode = episode' /\ Cursor'.number = generation'
      /\ Cursor.episode = episode /\ Cursor.number = generation
  BY DEF Cursor
<1>3. \A p \in presented : p.decision # Cursor'
  BY <1>2 DEF PresentedIsPast, MovesOn, CountersOK
<1>4. PresentedIsPast'
  <2> SUFFICES ASSUME NEW p \in presented'
               PROVE  /\ p.decision.episode \in 1 .. used'.episodes
                      /\ p.decision.number \in Nat
                      /\ p.decision.episode = episode' => p.decision.number <= generation'
    BY DEF PresentedIsPast
  <2>1. CASE p \in presented
    <3>1. /\ p.decision.episode \in 1 .. used.episodes
          /\ p.decision.number \in Nat
          /\ p.decision.episode = episode => p.decision.number <= generation
      BY <2>1 DEF PresentedIsPast
    <3> QED
      BY <3>1 DEF MovesOn, CountersOK
  <2>2. CASE p = [decision |-> Cursor', world |-> world']
    <3>1. p.decision.episode = episode' /\ p.decision.number = generation'
      BY <2>2, <1>2
    <3> QED
      BY <3>1 DEF MovesOn, CountersOK
  <2> QED
    BY <2>1, <2>2 DEF MovesOn
<1>5. CursorPresented'
  BY DEF CursorPresented, MovesOn
<1>6. DecisionNamesOneWorld'
  BY <1>3 DEF DecisionNamesOneWorld, MovesOn
<1>7. \A s \in ledger : s.op.decision # Cursor
  <2> SUFFICES ASSUME NEW s \in ledger, s.op.decision = Cursor
               PROVE  FALSE
    OBVIOUS
  <2>1. generation < generation
    BY <1>2 DEF LedgerIsPast
  <2> QED
    BY <2>1 DEF CountersOK
<1>8. OneStepPerDecision'
  <2>1. CASE ledger' = ledger
    BY <2>1 DEF OneStepPerDecision
  <2>2. CASE \E s : s.op.decision = Cursor /\ ledger' = ledger \cup {s}
    BY <1>7, <2>2 DEF OneStepPerDecision
  <2> QED
    BY <2>1, <2>2
<1>9. LedgerIsPast'
  <2>1. \A s \in ledger : /\ [decision |-> s.op.decision, world |-> s.world] \in presented'
                          /\ s.op.decision.episode \in 1 .. used.episodes
                          /\ s.op.decision.number \in Nat
    <3> SUFFICES ASSUME NEW s \in ledger
                 PROVE  /\ [decision |-> s.op.decision, world |-> s.world] \in presented'
                        /\ s.op.decision.episode \in 1 .. used.episodes
                        /\ s.op.decision.number \in Nat
      OBVIOUS
    <3>1. [decision |-> s.op.decision, world |-> s.world] \in presented
      BY DEF LedgerIsPast
    <3> QED
      BY <3>1 DEF PresentedIsPast, MovesOn
  <2>2. \A s \in ledger : s.op.decision.episode = episode' => s.op.decision.number < generation'
    <3> SUFFICES ASSUME NEW s \in ledger, s.op.decision.episode = episode'
                 PROVE  s.op.decision.number < generation'
      OBVIOUS
    <3>1. /\ s.op.decision.episode \in 1 .. used.episodes
          /\ s.op.decision.number \in Nat
      BY <2>1
    <3>2. s.op.decision.episode = episode => s.op.decision.number < generation
      BY DEF LedgerIsPast
    <3> QED
      BY <3>1, <3>2 DEF CountersOK, MovesOn
  <2>3. CASE ledger' = ledger
    BY <2>1, <2>2, <2>3 DEF LedgerIsPast
  <2>4. CASE ~faulted /\ episode # 0 /\ episode' = episode /\ ledger' # ledger
    <3>1. PICK s : /\ s.op.decision = Cursor /\ s.world = world
                   /\ ledger' = ledger \cup {s}
      BY <2>4
    <3>2. [decision |-> s.op.decision, world |-> s.world] \in presented'
      BY <2>4, <3>1 DEF CursorPresented, MovesOn
    <3>3. s.op.decision.number < generation'
      BY <2>4, <3>1, <1>2 DEF CountersOK, MovesOn
    <3> QED
      BY <2>1, <2>2, <3>1, <3>2, <3>3 DEF LedgerIsPast
  <2> QED
    BY <2>3, <2>4
<1> QED
  BY <1>1, <1>4, <1>5, <1>6, <1>8, <1>9

-----------------------------------------------------------------------------
(* Every call is one of the three.                                         *)

\* A refusal is quiet.
LEMMA RefuseIsQuiet ==
    ASSUME NEW id, NEW op, NEW code, Refuse(id, op, code)
    PROVE  Quiet
BY DEF Refuse, Quiet, safeVars, backendVars

\* Handling a call keeps the safety invariant.
LEMMA HandleKeeps ==
    ASSUME RpcTypeOK, SafeInv, NEW id, NEW op, Handle(id, op)
    PROVE  SafeInv'
<1>0. /\ used \in [episodes : Nat, worlds : Nat, handles : Nat]
      /\ generation \in Nat /\ episode \in Nat
  BY DEF RpcTypeOK
<1>1. CASE \/ AnswerConflict(id, op) \/ AnswerFromCache(id, op)
           \/ AnswerFaulted(id, op) \/ Hello(id, op)
  <2>1. Quiet
    BY <1>1 DEF AnswerConflict, AnswerFromCache, AnswerFaulted, Hello, Quiet,
                safeVars, backendVars
  <2> QED
    BY <2>1, QuietKeeps
<1>2. CASE Reset(id, op)
  <2>1. /\ episode' = used.episodes + 1 /\ generation' = generation + 1
        /\ used' = [used EXCEPT !.episodes = episode', !.worlds = world']
        /\ Present(Cursor', world')
        /\ ledger' = ledger
    BY <1>2, Zenon DEF Reset
  <2>2. used'.episodes = used.episodes + 1
    BY <1>0, <2>1
  <2>3. MovesOn
    BY <1>0, <2>1, <2>2 DEF MovesOn, Present
  <2> QED
    BY <2>1, <2>3, MovesOnKeeps
<1>3. CASE Observe(id, op)
  <2>1. CASE episode = 0
    BY <1>3, <2>1, RefuseIsQuiet, QuietKeeps DEF Observe
  <2>2. CASE episode # 0
    <3>1. ~faulted
      BY <1>3 DEF Observe, Dispatched, Blocked
    <3>2. [decision |-> Cursor, world |-> world] \in presented
      BY <2>2, <3>1 DEF SafeInv, CursorPresented
    <3>3. presented' = presented
      BY <1>3, <2>2, <3>2 DEF Observe, Present
    <3>4. Quiet
      BY <1>3, <2>2, <3>3 DEF Observe, Quiet, safeVars, backendVars
    <3> QED
      BY <3>4, QuietKeeps
  <2> QED
    BY <2>1, <2>2
<1>4. CASE StepBackend(id, op)
  <2>1. CASE \E c : Refuse(id, op, c)
    BY <2>1, RefuseIsQuiet, QuietKeeps
  <2>2. CASE ~ \E c : Refuse(id, op, c)
    <3>1. /\ episode # 0 /\ op.decision = Cursor
          /\ generation' = generation + 1
          /\ used' = [used EXCEPT !.worlds = @ + 1]
          /\ ledger' = ledger \cup {[id |-> id, op |-> op, world |-> world]}
          /\ episode' = episode
          /\ Present(Cursor', world')
      BY <1>4, <2>2 DEF StepBackend, Stale
    <3>2. ~faulted
      BY <1>4 DEF StepBackend, Dispatched, Blocked
    <3>3. used'.episodes = used.episodes
      BY <1>0, <3>1
    <3>4. MovesOn
      BY <1>0, <3>1, <3>3 DEF MovesOn, Present
    <3>5. \E s : /\ s.op.decision = Cursor /\ s.world = world
                 /\ ledger' = ledger \cup {s}
      <4> DEFINE e == [id |-> id, op |-> op, world |-> world]
      <4>1. e.op.decision = Cursor /\ e.world = world /\ ledger' = ledger \cup {e}
        BY <3>1
      <4> QED
        BY <4>1
    <3> QED
      BY <3>1, <3>2, <3>4, <3>5, MovesOnKeeps
  <2> QED
    BY <2>1, <2>2
<1>5. CASE Snapshot(id, op)
  <2>1. CASE \E c : Refuse(id, op, c)
    BY <2>1, RefuseIsQuiet, QuietKeeps
  <2>2. CASE ~ \E c : Refuse(id, op, c)
    <3>1. /\ used' = [used EXCEPT !.handles = @ + 1]
          /\ UNCHANGED <<faulted, episode, generation, world, presented, ledger>>
      BY <1>5, <2>2 DEF Snapshot
    <3>2. Quiet
      BY <1>0, <3>1 DEF Quiet, safeVars
    <3> QED
      BY <3>2, QuietKeeps
  <2> QED
    BY <2>1, <2>2
<1>6. CASE Restore(id, op)
  <2>1. CASE \E c : Refuse(id, op, c)
    BY <2>1, RefuseIsQuiet, QuietKeeps
  <2>2. CASE ~ \E c : Refuse(id, op, c)
    <3>1. /\ episode # 0 /\ generation' = generation + 1
          /\ UNCHANGED <<episode, used, ledger>>
          /\ Present(Cursor', world')
      BY <1>6, <2>2 DEF Restore, Oracle, CursorAfterRestore
    <3>2. MovesOn
      BY <1>0, <3>1 DEF MovesOn, Present
    <3> QED
      BY <3>1, <3>2, MovesOnKeeps
  <2> QED
    BY <2>1, <2>2
<1>7. CASE Release(id, op)
  <2>1. CASE \E c : Refuse(id, op, c)
    BY <2>1, RefuseIsQuiet, QuietKeeps
  <2>2. CASE ~ \E c : Refuse(id, op, c)
    <3>1. Quiet
      BY <1>7, <2>2 DEF Release, Quiet, safeVars
    <3> QED
      BY <3>1, QuietKeeps
  <2> QED
    BY <2>1, <2>2
<1>8. CASE StateHash(id, op)
  <2>1. Quiet
    BY <1>8 DEF StateHash, Refuse, Quiet, safeVars, backendVars
  <2> QED
    BY <2>1, QuietKeeps
<1>9. CASE BackendRaises(id, op)
  <2>1. faulted' /\ presented' = presented /\ ledger' = ledger
    BY <1>9 DEF BackendRaises
  <2>3. /\ generation' \in {generation, generation + 1}
        /\ \/ episode' = episode /\ used'.episodes = used.episodes
           \/ /\ episode' = used.episodes + 1
              /\ used'.episodes = used.episodes + 1
    <3>1. CASE UNCHANGED <<backendVars, used>>
      BY <3>1 DEF backendVars
    <3>2. CASE HalfReset
      BY <1>0, <3>2 DEF HalfReset
    <3>3. CASE HalfMove
      BY <1>0, <3>3 DEF HalfMove
    <3> QED
      BY <1>9, <3>1, <3>2, <3>3 DEF BackendRaises
  <2>2. CutOff
    BY <2>1, <2>3 DEF CutOff
  <2> QED
    BY <2>2, CutOffKeeps
<1> QED
  BY <1>1, <1>2, <1>3, <1>4, <1>5, <1>6, <1>7, <1>8, <1>9 DEF Handle

\* The invariants hold initially.
LEMMA InitInv == RpcInit => RpcTypeOK /\ SafeInv
<1> SUFFICES ASSUME RpcInit
             PROVE  RpcTypeOK /\ SafeInv
  OBVIOUS
<1>1. StateOK
  BY DEF RpcInit, StateOK
<1>2. cache \in Seq(Entry)
  BY DEF RpcInit
<1>3. SafeInv
  BY <1>1 DEF RpcInit, StateOK, SafeInv, CountersOK, PresentedIsPast,
              CursorPresented, LedgerIsPast, DecisionNamesOneWorld,
              OneStepPerDecision
<1> QED
  BY <1>1, <1>2, <1>3, TypeSplit

\* Every step keeps the safety invariant.
LEMMA Induction == RpcTypeOK /\ SafeInv /\ [RpcNext]_rpcVars => SafeInv'
<1> SUFFICES ASSUME RpcTypeOK, SafeInv, [RpcNext]_rpcVars
             PROVE  SafeInv'
  OBVIOUS
<1>1. CASE UNCHANGED rpcVars
  <2>1. Quiet
    BY <1>1 DEF rpcVars, backendVars, Quiet, safeVars
  <2> QED
    BY <2>1, QuietKeeps
<1>2. CASE Restart
  <2>1. CutOff
    BY <1>2 DEF Restart, CutOff
  <2> QED
    BY <2>1, CutOffKeeps
<1>3. CASE \E id \in RequestId : \E op \in KnownOps : Handle(id, op)
  BY <1>3, HandleKeeps
<1> QED
  BY <1>1, <1>2, <1>3 DEF RpcNext

-----------------------------------------------------------------------------
(* The snapshots.                                                          *)

\* Counting needs a finite set.
SnapInv == IsFiniteSet(snapshots) /\ SnapshotsOfEpisode

\* Every step keeps the snapshots within the episode and the limit.
LEMMA SnapshotsInduction == SnapInv /\ [RpcNext]_rpcVars => SnapInv'
<1> SUFFICES ASSUME SnapInv, [RpcNext]_rpcVars
             PROVE  SnapInv'
  OBVIOUS
<1> USE DEF SnapInv, SnapshotsOfEpisode
<1>1. CASE UNCHANGED <<episode, snapshots>> /\ (faulted => faulted')
  BY <1>1
<1>2. CASE snapshots' = {}
  BY <1>2, FS_EmptySet, LimitAssumption
<1>3. CASE Restart
  BY <1>2, <1>3 DEF Restart
<1>4. ASSUME NEW id, NEW op, Handle(id, op)
      PROVE  SnapInv'
  <2>1. CASE Reset(id, op)
    BY <1>2, <2>1, Zenon DEF Reset, SnapshotsOnReset
  <2>2. CASE Snapshot(id, op)
    <3>1. CASE UNCHANGED <<episode, snapshots, faulted>>
      BY <1>1, <3>1
    <3>2. CASE ~ UNCHANGED <<episode, snapshots, faulted>>
      <4> DEFINE new == [handle |-> used.handles + 1, episode |-> episode,
                         world |-> world, finished |-> finished]
      <4>1. /\ snapshots' = snapshots \cup {new} /\ episode' = episode
            /\ faulted' = faulted
            /\ Cardinality(snapshots) < MaxSnapshots
        BY <2>2, <3>2 DEF Snapshot, Refuse, backendVars, SnapshotRoom
      <4>2. /\ IsFiniteSet(snapshots') /\ Cardinality(snapshots) \in Nat
            /\ Cardinality(snapshots') \in {Cardinality(snapshots), Cardinality(snapshots) + 1}
        BY <4>1, FS_AddElement, FS_CardinalityType
      <4>3. Cardinality(snapshots') <= MaxSnapshots
        BY <4>1, <4>2, LimitAssumption
      <4> QED
        BY <4>1, <4>2, <4>3
    <3> QED
      BY <3>1, <3>2
  <2>3. CASE Release(id, op)
    <3>1. CASE UNCHANGED <<episode, snapshots, faulted>>
      BY <1>1, <3>1
    <3>2. CASE ~ UNCHANGED <<episode, snapshots, faulted>>
      <4>1. snapshots' \subseteq snapshots /\ UNCHANGED <<episode, faulted>>
        BY <2>3, <3>2 DEF Release, Refuse, backendVars
      <4>2. /\ IsFiniteSet(snapshots') /\ Cardinality(snapshots') \in Nat
            /\ Cardinality(snapshots) \in Nat
            /\ Cardinality(snapshots') <= Cardinality(snapshots)
        BY <4>1, FS_Subset, FS_CardinalityType
      <4>3. Cardinality(snapshots') <= MaxSnapshots
        BY <4>2, LimitAssumption
      <4> QED
        BY <4>1, <4>2, <4>3
    <3> QED
      BY <3>1, <3>2
  <2>4. CASE \/ AnswerConflict(id, op) \/ AnswerFromCache(id, op)
             \/ AnswerFaulted(id, op) \/ Hello(id, op) \/ Observe(id, op)
             \/ StateHash(id, op)
    BY <1>1, <2>4 DEF AnswerConflict, AnswerFromCache, AnswerFaulted, Hello,
                      Observe, StateHash, Refuse, backendVars
  <2>5. CASE StepBackend(id, op)
    BY <1>1, <2>5 DEF StepBackend, Refuse, backendVars
  <2>6. CASE Restore(id, op)
    BY <1>1, <2>6 DEF Restore, Refuse, backendVars
  <2>7. CASE BackendRaises(id, op)
    <3>1. snapshots' = snapshots \/ snapshots' = {}
      BY <2>7 DEF BackendRaises, HalfReset, HalfMove, SnapshotsOnReset, backendVars
    <3>2. faulted'
      BY <2>7 DEF BackendRaises
    <3> QED
      BY <1>2, <3>1, <3>2
  <2> QED
    BY <1>4, <2>1, <2>2, <2>3, <2>4, <2>5, <2>6, <2>7 DEF Handle
<1>5. CASE UNCHANGED rpcVars
  BY <1>1, <1>5 DEF rpcVars, backendVars
<1> QED
  BY <1>3, <1>4, <1>5 DEF RpcNext

-----------------------------------------------------------------------------
(* Theorems.                                                               *)

\* Every variable of the service keeps its type.
THEOREM RpcTypeCorrect == RpcSpec => []RpcTypeOK
<1>1. RpcInit => RpcTypeOK
  BY InitInv
<1> QED
  BY <1>1, Typing, PTL DEF RpcSpec

\* The safety invariant of the service.
THEOREM RpcInvariance == RpcSpec => [](RpcTypeOK /\ SafeInv)
<1>1. RpcInit => RpcTypeOK /\ SafeInv
  BY InitInv
<1>2. RpcTypeOK /\ SafeInv /\ [RpcNext]_rpcVars => (RpcTypeOK /\ SafeInv)'
  BY Typing, Induction
<1> QED
  BY <1>1, <1>2, PTL DEF RpcSpec

\* A decision names one world for ever.
THEOREM OneWorldPerDecision == RpcSpec => []DecisionNamesOneWorld
<1>1. RpcTypeOK /\ SafeInv => DecisionNamesOneWorld
  BY DEF SafeInv
<1> QED
  BY <1>1, RpcInvariance, PTL

\* At most one step is ever committed at a decision.
THEOREM StepsOncePerDecision == RpcSpec => []OneStepPerDecision
<1>1. RpcTypeOK /\ SafeInv => OneStepPerDecision
  BY DEF SafeInv
<1> QED
  BY <1>1, RpcInvariance, PTL

\* A committed step acted on the world its caller was shown.
THEOREM StepsActOnWorldPresented == RpcSpec => []ActsOnWorldPresented
<1>1. RpcTypeOK /\ SafeInv => ActsOnWorldPresented
  <2> SUFFICES ASSUME SafeInv, NEW s \in ledger, NEW p \in presented,
                      RpcTypeOK, p.decision = s.op.decision
               PROVE  p.world = s.world
    BY DEF ActsOnWorldPresented
  <2> DEFINE q == [decision |-> s.op.decision, world |-> s.world]
  <2>1. q \in presented /\ q.decision = p.decision
    BY DEF SafeInv, LedgerIsPast
  <2>2. p = q
    BY <2>1 DEF SafeInv, DecisionNamesOneWorld
  <2> QED
    BY <2>2
<1> QED
  BY <1>1, RpcInvariance, PTL

\* Snapshots never exceed their limit, and those a sound worker keeps are of the
\* current episode.
THEOREM SnapshotsBounded == RpcSpec => []SnapshotsOfEpisode
<1>1. RpcInit => SnapInv
  BY FS_EmptySet, LimitAssumption DEF RpcInit, SnapInv, SnapshotsOfEpisode
<1>2. SnapInv => SnapshotsOfEpisode
  BY DEF SnapInv
<1> QED
  BY <1>1, <1>2, SnapshotsInduction, PTL DEF RpcSpec

-----------------------------------------------------------------------------
(* Controller.                                                             *)

-----------------------------------------------------------------------------
(* What one call of handle() tells, and what it leaves known.              *)

\* Decisions and handles told once stay known.
NothingUnlearned == presented \subseteq presented' /\ used.handles <= used'.handles

\* A newly computed answer: it names a decision known by then, and a step that
\* was committed is answered with a result.
Computed(id, op) ==
    \E reply \in Reply : /\ Store(id, op, reply)
                         /\ reply.decision \in KnownDecisions'
                         /\ ledger' # ledger => reply.code = "ok"

Repeated(id, op) == (Hit(id, op) \/ Conflict(id, op)) /\ ledger' = ledger

\* The step committed, if any, is the one asked for.
Booked(id, op) ==
    /\ ledger \subseteq ledger'
    /\ \A s \in ledger' : s \in ledger \/ (s.id = id /\ s.op = op /\ op.name = "step")

RepliesKnown == \A i \in DOMAIN cache : cache[i].reply.decision \in KnownDecisions

\* The parts of a reply.
LEMMA ReplyParts ==
    /\ \A c : Error(c).decision = NoDecision /\ Error(c).code = c
    /\ Done.decision = NoDecision /\ Done.code = "ok"
    /\ \A d : AtDecision(d).decision = d /\ AtDecision(d).code = "ok"
    /\ \A h : WithHandle(h).decision = NoDecision /\ WithHandle(h).code = "ok"
BY DEF Error, Done, AtDecision, WithHandle

\* A refusal computes an error and changes nothing else.
LEMMA Refusing ==
    ASSUME NEW id, NEW op, NEW code, Error(code) \in Reply, Refuse(id, op, code),
           used.handles \in Nat
    PROVE  NothingUnlearned /\ Computed(id, op) /\ Booked(id, op)
<1>1. Store(id, op, Error(code)) /\ UNCHANGED <<used, presented, ledger>>
  BY DEF Refuse
<1>2. Error(code).decision \in KnownDecisions'
  BY ReplyParts DEF KnownDecisions
<1> QED BY <1>1, <1>2 DEF NothingUnlearned, Computed, Booked

\* Every call repeats an answer or computes one.
LEMMA HandleCases ==
    ASSUME RpcTypeOK, RpcTypeOK', NEW id, NEW op, Handle(id, op)
    PROVE  /\ NothingUnlearned /\ Booked(id, op)
           /\ Repeated(id, op) \/ Computed(id, op)
<1> USE RepliesTyped
<1>h. used.handles \in Nat /\ used'.handles \in Nat /\ used.handles + 1 \in Nat
  BY DEF RpcTypeOK
<1>d. Cursor \in Decision /\ Cursor' \in Decision
  BY DEF RpcTypeOK, Cursor, Decision
<1>n. NoDecision \in KnownDecisions'
  BY DEF KnownDecisions
<1>p. ASSUME NEW w, Present(Cursor', w)
      PROVE  presented \subseteq presented' /\ Cursor' \in KnownDecisions'
  <2>1. presented' = presented \cup {[decision |-> Cursor', world |-> w]}
    BY <1>p DEF Present
  <2>2. \E p \in presented' : p.decision = Cursor'
    <3>1. [decision |-> Cursor', world |-> w] \in presented'
      BY <2>1
    <3>2. [decision |-> Cursor', world |-> w].decision = Cursor'
      OBVIOUS
    <3> QED BY <3>1, <3>2
  <2>3. presented \subseteq presented'
    BY <2>1
  <2>4. Cursor' \in {p.decision : p \in presented'}
    BY <2>2
  <2> QED BY <2>3, <2>4 DEF KnownDecisions
<1>1. CASE AnswerConflict(id, op) \/ AnswerFromCache(id, op)
  BY <1>1, <1>h DEF AnswerConflict, AnswerFromCache, NothingUnlearned, Booked, Repeated
<1>2. CASE AnswerFaulted(id, op)
  <2>1. Store(id, op, Error("worker_faulted")) /\ UNCHANGED <<used, presented, ledger>>
    BY <1>2 DEF AnswerFaulted
  <2> QED BY <1>h, <1>n, <2>1, ReplyParts DEF NothingUnlearned, Booked, Computed
<1>3. CASE Hello(id, op)
  <2>1. Store(id, op, Done) /\ UNCHANGED <<used, presented, ledger>>
    BY <1>3 DEF Hello
  <2> QED BY <1>h, <1>n, <2>1, ReplyParts DEF NothingUnlearned, Booked, Computed
<1>4. CASE Reset(id, op)
  <2>1. /\ Store(id, op, AtDecision(Cursor')) /\ ledger' = ledger
        /\ Present(Cursor', world')
        /\ used' = [used EXCEPT !.episodes = episode', !.worlds = world']
    BY <1>4, Zenon DEF Reset
  <2>2. used'.handles = used.handles
    BY <2>1 DEF RpcTypeOK
  <2>3. presented \subseteq presented' /\ Cursor' \in KnownDecisions'
    BY <1>p, <2>1
  <2>4. AtDecision(Cursor') \in Reply /\ AtDecision(Cursor').decision = Cursor'
    BY <1>d, ReplyParts
  <2> QED BY <1>h, <2>1, <2>2, <2>3, <2>4 DEF NothingUnlearned, Booked, Computed
<1>5. CASE Observe(id, op)
  <2>1. CASE Refuse(id, op, "reset_required")
    BY <1>h, <2>1, Refusing
  <2>2. CASE /\ Store(id, op, AtDecision(Cursor)) /\ Present(Cursor, world)
             /\ UNCHANGED <<faulted, backendVars, used, ledger>>
    <3>1. Cursor' = Cursor
      BY <2>2 DEF Cursor, backendVars
    <3>2. presented \subseteq presented' /\ Cursor \in KnownDecisions'
      BY <1>p, <2>2, <3>1
    <3>3. AtDecision(Cursor) \in Reply /\ AtDecision(Cursor).decision = Cursor
      BY <1>d, ReplyParts
    <3> QED BY <1>h, <2>2, <3>2, <3>3 DEF NothingUnlearned, Booked, Computed
  <2> QED BY <1>5, <2>1, <2>2 DEF Observe
<1>6. CASE StepBackend(id, op)
  <2>1. CASE \E c \in {"reset_required", "stale_decision", "episode_finished",
                       "invalid_action"} : Refuse(id, op, c)
    BY <1>h, <2>1, Refusing
  <2>2. CASE ~ \E c \in {"reset_required", "stale_decision", "episode_finished",
                         "invalid_action"} : Refuse(id, op, c)
    <3>1. /\ op.name = "step"
          /\ used' = [used EXCEPT !.worlds = @ + 1]
          /\ ledger' = ledger \cup {[id |-> id, op |-> op, world |-> world]}
          /\ Store(id, op, AtDecision(Cursor'))
          /\ Present(Cursor', world')
      BY <1>6, <2>2 DEF StepBackend
    <3>2. used'.handles = used.handles
      BY <3>1 DEF RpcTypeOK
    <3>3. presented \subseteq presented' /\ Cursor' \in KnownDecisions'
      BY <1>p, <3>1
    <3>4. /\ AtDecision(Cursor') \in Reply /\ AtDecision(Cursor').decision = Cursor'
          /\ AtDecision(Cursor').code = "ok"
      BY <1>d, ReplyParts
    <3>5. Booked(id, op)
      BY <3>1 DEF Booked
    <3> QED BY <1>h, <3>1, <3>2, <3>3, <3>4, <3>5 DEF NothingUnlearned, Computed
  <2> QED BY <2>1, <2>2
<1>7. CASE Snapshot(id, op)
  <2>1. CASE \E c \in {"reset_required", "unsupported", "snapshot_limit"} : Refuse(id, op, c)
    BY <1>h, <2>1, Refusing
  <2>2. CASE ~ \E c \in {"reset_required", "unsupported", "snapshot_limit"} : Refuse(id, op, c)
    <3>1. /\ Store(id, op, WithHandle(used.handles + 1))
          /\ used' = [used EXCEPT !.handles = @ + 1]
          /\ UNCHANGED <<presented, ledger>>
      BY <1>7, <2>2 DEF Snapshot, OracleError
    <3>2. used'.handles = used.handles + 1
      BY <3>1 DEF RpcTypeOK
    <3>3. WithHandle(used.handles + 1) \in Reply
          /\ WithHandle(used.handles + 1).decision = NoDecision
      BY <1>h, ReplyParts
    <3> QED BY <1>h, <1>n, <3>1, <3>2, <3>3 DEF NothingUnlearned, Booked, Computed
  <2> QED BY <2>1, <2>2
<1>8. CASE Restore(id, op)
  <2>1. CASE \E c \in {"reset_required", "unsupported", "unknown_snapshot"} : Refuse(id, op, c)
    BY <1>h, <2>1, Refusing
  <2>2. CASE ~ \E c \in {"reset_required", "unsupported", "unknown_snapshot"} : Refuse(id, op, c)
    <3>1. /\ Store(id, op, AtDecision(Cursor')) /\ Present(Cursor', world')
          /\ UNCHANGED <<used, ledger>>
      BY <1>8, <2>2 DEF Restore, OracleError
    <3>3. presented \subseteq presented' /\ Cursor' \in KnownDecisions'
      BY <1>p, <3>1
    <3>4. AtDecision(Cursor') \in Reply /\ AtDecision(Cursor').decision = Cursor'
      BY <1>d, ReplyParts
    <3> QED BY <1>h, <3>1, <3>3, <3>4 DEF NothingUnlearned, Booked, Computed
  <2> QED BY <2>1, <2>2
<1>9. CASE Release(id, op)
  <2>1. CASE \E c \in {"reset_required", "unsupported", "unknown_snapshot"} : Refuse(id, op, c)
    BY <1>h, <2>1, Refusing
  <2>2. CASE ~ \E c \in {"reset_required", "unsupported", "unknown_snapshot"} : Refuse(id, op, c)
    <3>1. Store(id, op, Done) /\ UNCHANGED <<used, presented, ledger>>
      BY <1>9, <2>2 DEF Release, OracleError
    <3> QED BY <1>h, <1>n, <3>1, ReplyParts DEF NothingUnlearned, Booked, Computed
  <2> QED BY <2>1, <2>2
<1>10. CASE StateHash(id, op)
  <2>1. CASE \E c \in {"reset_required", "unsupported"} : Refuse(id, op, c)
    BY <1>h, <2>1, Refusing
  <2>2. CASE ~ \E c \in {"reset_required", "unsupported"} : Refuse(id, op, c)
    <3>1. Store(id, op, Done) /\ UNCHANGED <<used, presented, ledger>>
      BY <1>10, <2>2 DEF StateHash, OracleError
    <3> QED BY <1>h, <1>n, <3>1, ReplyParts DEF NothingUnlearned, Booked, Computed
  <2> QED BY <2>1, <2>2
<1>11. CASE BackendRaises(id, op)
  <2>1. Store(id, op, Error("internal_error")) /\ UNCHANGED <<presented, ledger>>
    BY <1>11 DEF BackendRaises
  <2>2. used'.handles = used.handles
    BY <1>11 DEF BackendRaises, HalfReset, HalfMove, RpcTypeOK
  <2> QED BY <1>h, <1>n, <2>1, <2>2, ReplyParts DEF NothingUnlearned, Booked, Computed
<1> QED
  BY <1>1, <1>2, <1>3, <1>4, <1>5, <1>6, <1>7, <1>8, <1>9, <1>10, <1>11 DEF Handle
-----------------------------------------------------------------------------
(* What callers hold stays usable: decisions and handles stay known, so do *)
(* the operations that name them.                                          *)

LEMMA OpsStayKnown ==
    ASSUME NothingUnlearned, used.handles \in Nat, used'.handles \in Nat
    PROVE  KnownDecisions \subseteq KnownDecisions' /\ KnownOps \subseteq KnownOps'
<1>1. KnownDecisions \subseteq KnownDecisions'
  BY DEF NothingUnlearned, KnownDecisions
<1>2. 0 .. used.handles \subseteq 0 .. used'.handles
  BY DEF NothingUnlearned
<1> HIDE DEF KnownDecisions
<1>3. ASSUME NEW d \in KnownDecisions, NEW a \in Action PROVE StepOp(d, a) \in KnownOps'
  BY <1>1, <1>3 DEF KnownOps
<1>4. ASSUME NEW n \in {"restore", "release"}, NEW h \in 0 .. used.handles
      PROVE  HandleOp(n, h) \in KnownOps'
  BY <1>2, <1>4 DEF KnownOps
<1>5. ASSUME NEW n \in {"hello", "reset", "observe", "snapshot", "state_hash"}
      PROVE  Op(n) \in KnownOps'
  BY <1>5 DEF KnownOps
<1> QED BY <1>1, <1>3, <1>4, <1>5 DEF KnownOps

\* After a call the cache and the answer name known decisions only.
LEMMA AnswersKnown ==
    ASSUME RpcTypeOK, RpcTypeOK', RepliesKnown, NEW id \in RequestId, NEW op \in Operation,
           Handle(id, op)
    PROVE  /\ RepliesKnown' /\ LatestReply'.decision \in KnownDecisions'
           /\ LatestReply' \in Reply
           /\ ledger' # ledger => LatestReply'.code = "ok"
<1>1. /\ NothingUnlearned
      /\ Repeated(id, op) \/ Computed(id, op)
  BY HandleCases
<1>2. KnownDecisions \subseteq KnownDecisions' /\ cache \in Seq(Entry) /\ cache' \in Seq(Entry)
  <2>1. used.handles \in Nat /\ used'.handles \in Nat
    BY DEF RpcTypeOK
  <2> QED BY <1>1, <2>1, OpsStayKnown, TypeSplit
<1>3. \A i \in DOMAIN cache : cache[i].reply.decision \in KnownDecisions'
  BY <1>2 DEF RepliesKnown
<1> HIDE DEF KnownDecisions
<1>4. CASE Hit(id, op) /\ ledger' = ledger
  <2>1. /\ Len(cache') \in Nat \ {0}
        /\ \A j \in DOMAIN cache' : \E i \in DOMAIN cache : cache'[j] = cache[i]
    BY <1>2, <1>4, HitEntries
  <2>2. \A j \in DOMAIN cache' : cache'[j].reply.decision \in KnownDecisions'
    BY <1>3, <2>1
  <2>3. Len(cache') \in DOMAIN cache' /\ cache'[Len(cache')] \in Entry
    BY <1>2, <2>1
  <2> QED BY <1>4, <2>2, <2>3 DEF RepliesKnown, LatestReply, Entry
<1>5. CASE Conflict(id, op) /\ ledger' = ledger
  <2>1. cache' = cache /\ Cached(id)
    BY <1>5 DEF Conflict
  <2>2. Len(cache) \in DOMAIN cache /\ cache[Len(cache)] \in Entry
    BY <1>2, <2>1 DEF Cached
  <2>3. LatestReply' = cache[Len(cache)].reply
    BY <2>1 DEF LatestReply
  <2> QED BY <1>3, <1>5, <2>1, <2>2, <2>3 DEF RepliesKnown, Entry
<1>6. CASE Computed(id, op)
  <2>1. PICK reply \in Reply :
           /\ Store(id, op, reply) /\ reply.decision \in KnownDecisions'
           /\ ledger' # ledger => reply.code = "ok"
    BY <1>6 DEF Computed
  <2> DEFINE e == [id |-> id, op |-> op, reply |-> reply]
  <2>2. e \in Entry
    BY DEF Entry
  <2>3. /\ Len(cache') \in Nat \ {0} /\ cache'[Len(cache')] = e
        /\ \A j \in DOMAIN cache' : cache'[j] = e
              \/ \E i \in DOMAIN cache : cache'[j] = cache[i]
    BY <1>2, <2>1, <2>2, StoreEntries
  <2>4. e.reply = reply
    OBVIOUS
  <2> HIDE DEF e
  <2>5. \A j \in DOMAIN cache' : cache'[j].reply.decision \in KnownDecisions'
    BY <1>3, <2>1, <2>3, <2>4
  <2>6. LatestReply' = reply
    BY <2>1, <2>3, <2>4 DEF LatestReply
  <2> QED BY <2>1, <2>5, <2>6 DEF RepliesKnown
<1> QED BY <1>1, <1>4, <1>5, <1>6 DEF Repeated

-----------------------------------------------------------------------------
(* The invariant of the composition.                                       *)

\* The requests that can still be executed, resent or have been committed.
Request(r) == [id |-> r.id, op |-> r.op]
Requests == {Request(r) : r \in net \cup waiting \cup inflight \cup ledger}

\* Each was sent by this controller and names what it was told; an identifier
\* stands for one operation.
RequestsSent ==
    \A r \in Requests : /\ r.id \in RequestId /\ r.id <= calls
                        /\ r.op \in KnownOps
OneOpPerId == \A r, q \in Requests : r.id = q.id => r.op = q.op

AnswersTold == \A r \in answer : r.reply.decision \in KnownDecisions

EnvTold == env \in [uncertain : BOOLEAN, rewardUnknown : BOOLEAN, current : BOOLEAN,
                    cursor : KnownDecisions]

CtlInv == /\ RpcTypeOK /\ SafeInv /\ calls \in Nat
          /\ RepliesKnown /\ AnswersTold /\ EnvTold
          /\ RequestsSent /\ OneOpPerId

\* What the controller does between its calls: it sends nothing new.
Bookkeeping == /\ UNCHANGED <<rpcVars, calls>>
               /\ Requests' \subseteq Requests
               /\ answer' \subseteq answer
               /\ EnvTold'

LEMMA BookkeepingKeeps == CtlInv /\ Bookkeeping => CtlInv'
<1> SUFFICES ASSUME CtlInv, Bookkeeping PROVE CtlInv'
  OBVIOUS
<1> USE DEF CtlInv, Bookkeeping
<1>1. UNCHANGED <<cache, faulted, episode, generation, world, finished, snapshots, used,
                  presented, ledger, calls>>
  BY DEF rpcVars, backendVars
<1>2. RpcTypeOK' /\ SafeInv'
  BY <1>1, Typing, Induction DEF Bookkeeping
<1>3. KnownDecisions' = KnownDecisions /\ KnownOps' = KnownOps
  BY <1>1 DEF KnownDecisions, KnownOps
<1> HIDE DEF KnownDecisions, KnownOps, Requests
<1>4. RepliesKnown' /\ AnswersTold'
  BY <1>1, <1>3 DEF RepliesKnown, AnswersTold
<1>5. RequestsSent' /\ OneOpPerId'
  BY <1>1, <1>3 DEF RequestsSent, OneOpPerId
<1> QED BY <1>1, <1>2, <1>4, <1>5

\* A new call: a fresh identifier, or a request that is known already.
LEMMA SendKeeps ==
    ASSUME CtlInv, NEW id, NEW op \in KnownOps, NEW by, Send(id, op, by),
           \/ id = calls + 1 /\ id \in RequestId
           \/ [id |-> id, op |-> op] \in Requests
    PROVE  CtlInv'
<1> USE DEF CtlInv
<1> DEFINE q == [id |-> id, op |-> op]
<1>1. /\ UNCHANGED rpcVars /\ UNCHANGED <<answer, inflight, env>>
      /\ calls' = calls + 1
      /\ net' = net \cup {[call |-> calls', id |-> id, op |-> op]}
      /\ waiting' = {[call |-> calls', id |-> id, op |-> op, by |-> by]}
      /\ waiting = {}
  BY DEF Send
<1>2. UNCHANGED <<cache, faulted, episode, generation, world, finished, snapshots, used,
                  presented, ledger>>
  BY <1>1 DEF rpcVars, backendVars
<1>3. RpcTypeOK' /\ SafeInv'
  BY <1>1, Typing, Induction
<1>4. KnownDecisions' = KnownDecisions /\ KnownOps' = KnownOps
  BY <1>2 DEF KnownDecisions, KnownOps
<1>5. Requests' \subseteq Requests \cup {q}
  BY <1>1, <1>2 DEF Requests, Request
<1>6. q.id = id /\ q.op = op
  OBVIOUS
<1> HIDE DEF KnownDecisions, KnownOps, Requests, q
<1>7. RepliesKnown' /\ AnswersTold' /\ EnvTold'
  BY <1>1, <1>2, <1>4 DEF RepliesKnown, AnswersTold, EnvTold
<1>8. id \in RequestId /\ id <= calls + 1
  <2>1. CASE id = calls + 1 /\ id \in RequestId
    BY <2>1
  <2>2. CASE q \in Requests
    <3>1. id \in RequestId /\ id <= calls
      BY <1>6, <2>2 DEF RequestsSent
    <3>2. id \in Nat
      BY <3>1, IdsAreNumbered
    <3> QED BY <3>1, <3>2
  <2> QED BY <2>1, <2>2 DEF q
<1>9. RequestsSent'
  <2> SUFFICES ASSUME NEW r \in Requests'
               PROVE  r.id \in RequestId /\ r.id <= calls' /\ r.op \in KnownOps'
    BY DEF RequestsSent
  <2>1. CASE r = q
    BY <1>1, <1>4, <1>6, <1>8, <2>1
  <2>2. CASE r \in Requests
    <3>1. r.id \in RequestId /\ r.id <= calls /\ r.op \in KnownOps
      BY <2>2 DEF RequestsSent
    <3>2. r.id \in Nat
      BY <3>1, IdsAreNumbered
    <3> QED BY <1>1, <1>4, <3>1, <3>2
  <2> QED BY <1>5, <2>1, <2>2
<1>10. OneOpPerId'
  <2>1. ASSUME NEW r \in Requests, r.id = id PROVE r.op = op
    <3>1. CASE id = calls + 1
      <4>1. r.id <= calls /\ r.id \in Nat
        BY IdsAreNumbered DEF RequestsSent
      <4> QED BY <2>1, <3>1, <4>1
    <3>2. CASE q \in Requests
      BY <1>6, <2>1, <3>2 DEF OneOpPerId
    <3> QED BY <3>1, <3>2 DEF q
  <2> SUFFICES ASSUME NEW r \in Requests', NEW s \in Requests', r.id = s.id
               PROVE  r.op = s.op
    BY DEF OneOpPerId
  <2>2. CASE r \in Requests /\ s \in Requests
    BY <2>2 DEF OneOpPerId
  <2>3. CASE r = q \/ s = q
    BY <1>5, <1>6, <2>1, <2>3
  <2> QED BY <1>5, <2>2, <2>3
<1> QED BY <1>1, <1>3, <1>7, <1>9, <1>10

LEMMA CtlStart == CtlInit => CtlInv
<1> SUFFICES ASSUME CtlInit PROVE CtlInv
  OBVIOUS
<1> USE DEF CtlInit
<1>1. RpcTypeOK /\ SafeInv
  BY InitInv
<1>2. RepliesKnown /\ AnswersTold
  BY DEF RpcInit, RepliesKnown, AnswersTold
<1>3. EnvTold
  BY DEF EnvTold, FreshEnv, KnownDecisions
<1>4. Requests = {}
  BY DEF Requests, RpcInit
<1>5. RequestsSent /\ OneOpPerId
  BY <1>4 DEF RequestsSent, OneOpPerId
<1> QED BY <1>1, <1>2, <1>3, <1>5 DEF CtlInv

\* The operations the controller sends name what it was told.
LEMMA SendsKnown ==
    ASSUME CtlInv
    PROVE  /\ \A n \in {"reset", "observe", "snapshot"} : Op(n) \in KnownOps
           /\ \A a \in Action : StepOp(env.cursor, a) \in KnownOps
           /\ \A h \in 1 .. used.handles, n \in {"restore", "release"} :
                 HandleOp(n, h) \in KnownOps
           /\ \A f \in inflight : /\ [id |-> f.id, op |-> f.op] \in Requests
                                  /\ f.op \in KnownOps
<1>1. env.cursor \in KnownDecisions
  BY DEF CtlInv, EnvTold
<1>2. ASSUME NEW f \in inflight
      PROVE  [id |-> f.id, op |-> f.op] \in Requests /\ f.op \in KnownOps
  <2>1. Request(f) \in Requests
    BY DEF Requests
  <2> QED BY <2>1 DEF Request, CtlInv, RequestsSent
<1>3. 1 .. used.handles \subseteq 0 .. used.handles
  OBVIOUS
<1> HIDE DEF KnownDecisions, Requests
<1>4. \A n \in {"reset", "observe", "snapshot"} : Op(n) \in KnownOps
  BY DEF KnownOps
<1>5. \A a \in Action : StepOp(env.cursor, a) \in KnownOps
  BY <1>1 DEF KnownOps
<1>6. \A h \in 1 .. used.handles, n \in {"restore", "release"} : HandleOp(n, h) \in KnownOps
  BY <1>3 DEF KnownOps
<1> QED BY <1>2, <1>4, <1>5, <1>6

\* A request of the controller is one RpcService was proved correct for.
LEMMA WorkerStepsAsRpc ==
    ASSUME CtlInv, NEW m \in net, Handle(m.id, m.op)
    PROVE  RpcNext /\ m.id \in RequestId /\ m.op \in KnownOps /\ m.op \in Operation
<1>1. Request(m) \in Requests
  BY DEF Requests
<1>2. m.id \in RequestId /\ m.op \in KnownOps
  BY <1>1 DEF Request, CtlInv, RequestsSent
<1>3. m.op \in Operation
  BY <1>2, OpsTyped DEF CtlInv
<1> QED BY <1>2, <1>3 DEF RpcNext

\* The worker executes a request.
LEMMA WorkerKeeps == CtlInv /\ WorkerHandles => CtlInv'
<1> SUFFICES ASSUME CtlInv, WorkerHandles PROVE CtlInv'
  OBVIOUS
<1> USE DEF CtlInv
<1>1. PICK m \in net :
          /\ Handle(m.id, m.op)
          /\ net' = net \ {m}
          /\ answer' = IF \E w \in waiting : w.call = m.call
                       THEN {[call |-> m.call, reply |-> LatestReply']} ELSE answer
          /\ UNCHANGED <<calls, waiting, inflight, closed, env, accepted, told>>
  BY DEF WorkerHandles
<1>2. RpcNext /\ m.id \in RequestId /\ m.op \in KnownOps /\ m.op \in Operation
  BY <1>1, WorkerStepsAsRpc
<1>3. RpcTypeOK' /\ SafeInv'
  BY <1>2, Typing, Induction
<1>4. NothingUnlearned /\ Booked(m.id, m.op)
  BY <1>1, <1>3, HandleCases
<1>5. RepliesKnown' /\ LatestReply'.decision \in KnownDecisions'
  BY <1>1, <1>2, <1>3, AnswersKnown
<1>6. KnownDecisions \subseteq KnownDecisions' /\ KnownOps \subseteq KnownOps'
  <2>1. used.handles \in Nat /\ used'.handles \in Nat
    BY <1>3 DEF RpcTypeOK
  <2> QED BY <1>4, <2>1, OpsStayKnown
<1>7. Requests' \subseteq Requests
  <2> SUFFICES ASSUME NEW r \in net' \cup waiting' \cup inflight' \cup ledger'
               PROVE  Request(r) \in Requests
    BY DEF Requests, Request
  <2>1. CASE r \in net \cup waiting \cup inflight \cup ledger
    BY <2>1 DEF Requests
  <2>2. CASE r \in ledger' /\ r \notin ledger
    <3>1. Request(r) = Request(m)
      BY <1>4, <2>2 DEF Booked, Request
    <3> QED BY <3>1 DEF Requests
  <2> QED BY <1>1, <2>1, <2>2
<1> HIDE DEF KnownDecisions, KnownOps, Requests
<1>8. AnswersTold' /\ EnvTold'
  BY <1>1, <1>5, <1>6 DEF AnswersTold, EnvTold
<1>9. RequestsSent' /\ OneOpPerId'
  BY <1>1, <1>6, <1>7 DEF RequestsSent, OneOpPerId
<1> QED BY <1>1, <1>3, <1>5, <1>8, <1>9

\* The worker starts again; what the controller holds does not change.
LEMMA RestartKeeps == CtlInv /\ WorkerRestarts => CtlInv'
<1> SUFFICES ASSUME CtlInv, WorkerRestarts PROVE CtlInv'
  OBVIOUS
<1> USE DEF CtlInv
<1>1. /\ RpcNext /\ cache' = <<>> /\ UNCHANGED <<used, presented, ledger>>
      /\ UNCHANGED <<net, calls, waiting, answer, inflight, env>>
  BY DEF WorkerRestarts, Restart, RpcNext, clientVars
<1>2. RpcTypeOK' /\ SafeInv'
  BY <1>1, Typing, Induction
<1>3. KnownDecisions' = KnownDecisions /\ KnownOps' = KnownOps /\ Requests' = Requests
  BY <1>1 DEF KnownDecisions, KnownOps, Requests, Request
<1>4. RepliesKnown'
  BY <1>1 DEF RepliesKnown
<1> HIDE DEF KnownDecisions, KnownOps, Requests
<1>5. AnswersTold' /\ EnvTold' /\ RequestsSent' /\ OneOpPerId'
  BY <1>1, <1>3 DEF AnswersTold, EnvTold, RequestsSent, OneOpPerId
<1> QED BY <1>1, <1>2, <1>4, <1>5

\* The second half of a call, and closing.
LEMMA EndsKeep ==
    CtlInv /\ (CallLost \/ CallRejected \/ CallReturns \/ EnvClose) => CtlInv'
<1> SUFFICES ASSUME CtlInv, CallLost \/ CallRejected \/ CallReturns \/ EnvClose
             PROVE  Bookkeeping
  BY BookkeepingKeeps
<1> USE DEF CtlInv
<1>0. ASSUME UNCHANGED rpcVars PROVE UNCHANGED ledger /\ KnownDecisions' = KnownDecisions
  BY <1>0 DEF rpcVars, KnownDecisions
<1>1. CASE CallLost
  <2>1. PICK w \in waiting :
           /\ waiting' = {} /\ answer' = {} /\ UNCHANGED <<rpcVars, net, calls>>
           /\ inflight' = IF w.op.name \in Mutating
                          THEN {[id |-> w.id, op |-> w.op]} ELSE inflight
           /\ env' = env \/ env' = [env EXCEPT !.uncertain = TRUE]
    BY <1>1 DEF CallLost, Hangup, FlagUncertain
  <2>2. Requests' \subseteq Requests
    <3> SUFFICES ASSUME NEW r \in net' \cup waiting' \cup inflight' \cup ledger'
                 PROVE  Request(r) \in Requests
      BY DEF Requests, Request
    <3>1. CASE r \in net \cup waiting \cup inflight \cup ledger
      BY <3>1 DEF Requests
    <3>2. CASE r = [id |-> w.id, op |-> w.op]
      <4>1. Request(r) = Request(w)
        BY <3>2 DEF Request
      <4> QED BY <4>1 DEF Requests
    <3> QED BY <1>0, <2>1, <3>1, <3>2
  <2>3. EnvTold'
    <3> HIDE DEF KnownDecisions
    <3> QED BY <1>0, <2>1 DEF EnvTold
  <2> QED BY <2>1, <2>2, <2>3 DEF Bookkeeping
<1>2. CASE CallRejected
  <2>1. PICK m \in net : /\ net' = net \ {m} /\ waiting' = {} /\ answer' = {}
                        /\ UNCHANGED <<rpcVars, calls, inflight, env>>
    BY <1>2 DEF CallRejected, Hangup
  <2>2. Requests' \subseteq Requests
    BY <1>0, <2>1 DEF Requests, Request
  <2>3. EnvTold'
    BY <1>0, <2>1 DEF EnvTold
  <2> QED BY <2>1, <2>2, <2>3 DEF Bookkeeping
<1>3. CASE CallReturns
  <2>1. PICK w \in waiting, r \in answer :
           /\ waiting' = {} /\ answer' = {} /\ UNCHANGED <<rpcVars, net, calls>>
           /\ inflight' \subseteq inflight
           /\ \/ Accept(w, r.reply.decision) \/ AfterReconcile(r.reply.decision)
              \/ env' = env
    BY <1>3 DEF CallReturns, Hangup
  <2>2. Requests' \subseteq Requests
    BY <1>0, <2>1 DEF Requests, Request
  <2>3. EnvTold'
    <3>1. r.reply.decision \in KnownDecisions
      BY DEF AnswersTold
    <3>2. KnownDecisions' = KnownDecisions
      BY <1>0, <2>1
    <3> HIDE DEF KnownDecisions
    <3>3. CASE Accept(w, r.reply.decision)
      BY <3>1, <3>2, <3>3 DEF EnvTold, Accept
    <3>4. CASE AfterReconcile(r.reply.decision)
      BY <3>1, <3>2, <3>4 DEF EnvTold, AfterReconcile
    <3>5. CASE env' = env
      BY <3>2, <3>5 DEF EnvTold
    <3> QED BY <2>1, <3>3, <3>4, <3>5
  <2> QED BY <2>1, <2>2, <2>3 DEF Bookkeeping
<1>4. CASE EnvClose
  <2>1. env' = FreshEnv /\ UNCHANGED <<rpcVars, net, calls, waiting, answer, inflight>>
    BY <1>4 DEF EnvClose
  <2>2. Requests' \subseteq Requests
    BY <1>0, <2>1 DEF Requests, Request
  <2>3. EnvTold'
    BY <1>0, <2>1 DEF EnvTold, FreshEnv, KnownDecisions
  <2> QED BY <2>1, <2>2, <2>3 DEF Bookkeeping
<1> QED BY <1>1, <1>2, <1>3, <1>4

\* Operations that neither move the cursor nor end a fault.
Harmless(op) == op.name \in {"observe", "snapshot", "release"}

\* A call of the environment or of the client under it: only the environment
\* itself sends a new transition, and only a replay sends an identifier again.
Callers == {"invoke", "replay", "reconcile", "direct"}
Sends == \E id, op, by :
    /\ Send(id, op, by) /\ op \in KnownOps /\ by \in Callers
    /\ \/ /\ id = calls + 1 /\ id \in RequestId
          /\ IF by = "invoke" THEN op.name \in MakesTransition ELSE Harmless(op)
       \/ by # "invoke" /\ \E f \in inflight : f.id = id /\ f.op = op

LEMMA CallsAreSends ==
    ASSUME CtlInv,
           \/ EnvReset \/ EnvReplay \/ EnvReconcile
           \/ \E a \in Action : EnvStep(a)
           \/ \E h \in 1 .. used.handles : EnvRestore(h) \/ ClientRelease(h)
           \/ ClientSnapshot \/ ClientReplay
    PROVE  Sends
<1>1. ASSUME NEW op \in KnownOps, NEW by \in Callers, SendNew(op, by),
             IF by = "invoke" THEN op.name \in MakesTransition ELSE Harmless(op)
      PROVE  Sends
  BY <1>1 DEF SendNew, Sends
<1>2. ASSUME NEW by \in Callers \ {"invoke"}, SendInflight(by) PROVE Sends
  <2>1. PICK f \in inflight : Send(f.id, f.op, by)
    BY <1>2 DEF SendInflight
  <2> QED BY <1>2, <2>1, SendsKnown DEF Sends
<1>o. /\ Harmless(Op("observe")) /\ Harmless(Op("snapshot"))
      /\ Op("reset").name \in MakesTransition
      /\ \A d, a : StepOp(d, a).name \in MakesTransition
      /\ \A h : HandleOp("restore", h).name \in MakesTransition
      /\ \A h : Harmless(HandleOp("release", h))
      /\ "invoke" \in Callers /\ "direct" \in Callers \ {"invoke"}
      /\ "replay" \in Callers \ {"invoke"} /\ "reconcile" \in Callers \ {"invoke"}
  BY DEF Op, StepOp, HandleOp, Callers, Harmless, MakesTransition
<1> HIDE DEF Sends
<1>3. CASE EnvReset \/ EnvReconcile \/ ClientSnapshot
  BY <1>1, <1>3, <1>o, SendsKnown DEF EnvReset, EnvReconcile, ClientSnapshot
<1>4. CASE \E a \in Action : EnvStep(a)
  BY <1>1, <1>4, <1>o, SendsKnown DEF EnvStep
<1>5. CASE \E h \in 1 .. used.handles : EnvRestore(h) \/ ClientRelease(h)
  BY <1>1, <1>5, <1>o, SendsKnown DEF EnvRestore, ClientRelease
<1>6. CASE EnvReplay \/ ClientReplay
  BY <1>2, <1>6, <1>o DEF EnvReplay, ClientReplay
<1> QED BY <1>3, <1>4, <1>5, <1>6

\* Every step of the composition keeps its invariant.
LEMMA CtlInduction == CtlInv /\ [CtlNext]_ctlVars => CtlInv'
<1> SUFFICES ASSUME CtlInv, [CtlNext]_ctlVars PROVE CtlInv'
  OBVIOUS
<1>1. CASE UNCHANGED ctlVars
  <2>1. Bookkeeping
    BY <1>1 DEF ctlVars, clientVars, rpcVars, backendVars, Bookkeeping, Requests, Request,
                CtlInv, EnvTold, KnownDecisions
  <2> QED BY <2>1, BookkeepingKeeps
<1>2. CASE Sends
  BY <1>2, SendKeeps, SendsKnown DEF Sends
<1>3. CASE WorkerHandles \/ WorkerRestarts
  BY <1>3, WorkerKeeps, RestartKeeps
<1>4. CASE CallLost \/ CallRejected \/ CallReturns \/ EnvClose
  BY <1>4, EndsKeep
<1>5. CtlNext => \/ Sends \/ WorkerHandles \/ WorkerRestarts
                 \/ CallLost \/ CallRejected \/ CallReturns \/ EnvClose
  BY CallsAreSends DEF CtlNext
<1> QED BY <1>1, <1>2, <1>3, <1>4, <1>5

\* To the worker every step is one of RpcService.
LEMMA WorkerSees == CtlInv /\ [CtlNext]_ctlVars => [RpcNext]_rpcVars
<1> SUFFICES ASSUME CtlInv, [CtlNext]_ctlVars PROVE [RpcNext]_rpcVars
  OBVIOUS
<1>1. CASE UNCHANGED ctlVars
  BY <1>1 DEF ctlVars
<1>2. CASE Sends
  BY <1>2 DEF Sends, Send
<1>3. CASE WorkerHandles
  BY <1>3, WorkerStepsAsRpc DEF WorkerHandles
<1>4. CASE WorkerRestarts
  BY <1>4 DEF WorkerRestarts, RpcNext
<1>5. CASE CallLost \/ CallRejected \/ CallReturns \/ EnvClose
  BY <1>5 DEF CallLost, CallRejected, CallReturns, EnvClose
<1>6. CtlNext => \/ Sends \/ WorkerHandles \/ WorkerRestarts
                 \/ CallLost \/ CallRejected \/ CallReturns \/ EnvClose
  BY CallsAreSends DEF CtlNext
<1> QED BY <1>1, <1>2, <1>3, <1>4, <1>5, <1>6

-----------------------------------------------------------------------------
(* Who still owes the caller what: the invariant behind                    *)
(* NoRewardLostSilently, with the types it needs.                          *)

Shapes ==
    /\ calls \in 0 .. MaxCalls
    /\ net \subseteq [call : 1 .. MaxCalls, id : RequestId, op : Operation]
    /\ waiting \subseteq [call : 1 .. MaxCalls, id : RequestId, op : Operation, by : Callers]
    /\ answer \subseteq [call : 1 .. MaxCalls, reply : Reply]
    /\ inflight \subseteq [id : RequestId, op : Operation]
    /\ closed \in BOOLEAN
    /\ accepted \subseteq RequestId /\ told \subseteq RequestId

\* One call at a time, and a request is executed once per sending: while its
\* answer is on the way it is no longer on the network.
OneCall ==
    /\ \A w, v \in waiting : w = v
    /\ \A r, q \in answer : r = q
    /\ \A f, g \in inflight : f = g
    /\ \A r \in answer : \E w \in waiting : w.call = r.call
    /\ \A m \in net : m.call <= calls
    /\ \A m, n \in net : m.call = n.call => m = n
    /\ \A m \in net, r \in answer : m.call # r.call

IsStep(x) == x.op.name = "step"
Settled(x) == x.id \in accepted \cup told

\* The call of a step sent for the first time: no older copy of the request
\* exists, and once the worker has committed it the result is on its way.
SentOnce(w) ==
    /\ \A m \in net : m.id = w.id => m.call = w.call
    /\ \A s \in ledger : s.id = w.id =>
          \E r \in answer : r.call = w.call /\ r.reply.code = "ok"

Owed ==
    /\ \A f \in inflight : IsStep(f) => Settled(f)
    /\ \A w \in waiting : IsStep(w) /\ ~Settled(w) => w.by = "invoke" /\ SentOnce(w)
    /\ \A m \in net : IsStep(m) => Settled(m) \/ \E w \in waiting : w.id = m.id
    /\ \A s \in ledger : /\ IsStep(s)
                         /\ Settled(s) \/ \E w \in waiting : w.id = s.id

RewardInv == Shapes /\ OneCall /\ Owed

LEMMA RewardStart == CtlInit => RewardInv
<1> SUFFICES ASSUME CtlInit PROVE RewardInv
  OBVIOUS
<1>1. Shapes
  <2>1. 0 \in 0 .. MaxCalls
    BY CallsBounded
  <2> QED BY <2>1 DEF CtlInit, Shapes
<1>2. OneCall /\ Owed
  BY DEF CtlInit, RpcInit, OneCall, Owed
<1> QED BY <1>1, <1>2 DEF RewardInv

\* A call goes out.
LEMMA SendOwes == CtlInv /\ RewardInv /\ Sends => RewardInv'
<1> SUFFICES ASSUME CtlInv, RewardInv, Sends PROVE RewardInv'
  OBVIOUS
<1> USE DEF RewardInv
<1>1. PICK id, op, by :
         /\ Send(id, op, by) /\ op \in KnownOps /\ by \in Callers
         /\ \/ id = calls + 1 /\ id \in RequestId /\ (by = "invoke" \/ op.name # "step")
            \/ by # "invoke" /\ \E f \in inflight : f.id = id /\ f.op = op
  BY DEF Sends, Harmless
<1>c. PICK c \in Nat : c = calls + 1
  BY DEF Shapes
<1> DEFINE m == [call |-> c, id |-> id, op |-> op]
           w == [call |-> c, id |-> id, op |-> op, by |-> by]
<1>2. /\ waiting = {} /\ calls < MaxCalls /\ calls' = c
      /\ net' = net \cup {m} /\ waiting' = {w}
      /\ UNCHANGED <<answer, inflight, closed, accepted, told, ledger>>
  BY <1>1, <1>c DEF Send, rpcVars
<1>3. calls \in Nat /\ c \in 1 .. MaxCalls /\ c \in 0 .. MaxCalls
  BY <1>2, <1>c, CallsBounded DEF Shapes
<1>4. id \in RequestId /\ op \in Operation
  <2>1. op \in Operation
    BY <1>1, OpsTyped DEF CtlInv
  <2>2. id \in RequestId
    BY <1>1 DEF Shapes
  <2> QED BY <2>1, <2>2
<1>5. m.call = c /\ m.id = id /\ m.op = op /\ w.call = c /\ w.id = id /\ w.op = op /\ w.by = by
  OBVIOUS
<1>6. /\ m \in [call : 1 .. MaxCalls, id : RequestId, op : Operation]
      /\ w \in [call : 1 .. MaxCalls, id : RequestId, op : Operation, by : Callers]
  BY <1>1, <1>3, <1>4
<1>7. answer = {}
  BY <1>2 DEF OneCall
<1> HIDE DEF m, w
<1>8. Shapes'
  <2> QED BY <1>2, <1>3, <1>6 DEF Shapes
<1>9. OneCall'
  <2>1. \A n \in net : n.call <= calls /\ n.call \in Nat
    BY DEF OneCall, Shapes
  <2>2. \A n \in net' : n.call <= calls'
    BY <1>2, <1>3, <1>5, <1>c, <2>1
  <2>3. \A n, k \in net' : n.call = k.call => n = k
    <3>1. \A n \in net : n.call # c
      BY <1>3, <1>c, <2>1
    <3> QED BY <1>2, <1>5, <3>1 DEF OneCall
  <2> QED BY <1>2, <1>7, <2>2, <2>3 DEF OneCall
<1>10. ASSUME IsStep(w), ~Settled(w) PROVE w.by = "invoke" /\ SentOnce(w)'
  <2>1. ~ \E f \in inflight : f.id = id /\ f.op = op
    BY <1>5, <1>10 DEF Owed, IsStep, Settled
  <2>2. id = calls + 1 /\ w.by = "invoke"
    BY <1>1, <1>5, <1>10, <2>1 DEF IsStep
  <2>3. \A x \in net \cup ledger : x.id # id
    <3> TAKE x \in net \cup ledger
    <3>1. Request(x) \in Requests
      BY DEF Requests
    <3>2. x.id \in RequestId /\ x.id <= calls
      BY <3>1 DEF Request, CtlInv, RequestsSent
    <3>3. x.id \in Nat
      BY <3>2, IdsAreNumbered
    <3> QED BY <1>3, <2>2, <3>2, <3>3
  <2>4. \A n \in net' : n.id = w.id => n.call = w.call
    BY <1>2, <1>5, <2>3
  <2>5. \A s \in ledger' : s.id # w.id
    BY <1>2, <1>5, <2>3
  <2> QED BY <2>2, <2>4, <2>5 DEF SentOnce
<1>11. Owed'
  <2>1. \A x : Settled(x)' <=> Settled(x)
    BY <1>2 DEF Settled
  <2>2. \A f \in inflight' : IsStep(f) => Settled(f)'
    BY <1>2, <2>1 DEF Owed
  <2>3. \A v \in waiting' : IsStep(v) /\ ~Settled(v)' => v.by = "invoke" /\ SentOnce(v)'
    BY <1>2, <1>10, <2>1
  <2>4. \A n \in net' : IsStep(n) => Settled(n)' \/ \E v \in waiting' : v.id = n.id
    BY <1>2, <1>5, <2>1 DEF Owed
  <2>5. \A s \in ledger' : IsStep(s) /\ (Settled(s)' \/ \E v \in waiting' : v.id = s.id)
    BY <1>2, <2>1 DEF Owed
  <2> QED BY <2>2, <2>3, <2>4, <2>5 DEF Owed, IsStep
<1> QED BY <1>8, <1>9, <1>11

\* The worker executes a request: what it commits is settled or waited for.
LEMMA WorkerOwes == CtlInv /\ CtlInv' /\ RewardInv /\ WorkerHandles => RewardInv'
<1> SUFFICES ASSUME CtlInv, CtlInv', RewardInv, WorkerHandles PROVE RewardInv'
  OBVIOUS
<1> USE DEF RewardInv
<1>1. PICK m \in net :
          /\ Handle(m.id, m.op)
          /\ net' = net \ {m}
          /\ answer' = IF \E w \in waiting : w.call = m.call
                       THEN {[call |-> m.call, reply |-> LatestReply']} ELSE answer
          /\ UNCHANGED <<calls, waiting, inflight, closed, env, accepted, told>>
  BY DEF WorkerHandles
<1>2. m.id \in RequestId /\ m.op \in Operation
  BY <1>1, WorkerStepsAsRpc
<1>3. LatestReply' \in Reply /\ (ledger' # ledger => LatestReply'.code = "ok")
  BY <1>1, <1>2, AnswersKnown DEF CtlInv
<1>4. Booked(m.id, m.op)
  BY <1>1, HandleCases DEF CtlInv
<1> DEFINE lr == LatestReply'
           a == [call |-> m.call, reply |-> lr]
<1>5. a.call = m.call /\ a.reply = lr
  OBVIOUS
<1>7. answer' = (IF \E w \in waiting : w.call = m.call THEN {a} ELSE answer)
  BY <1>1
<1>6. Shapes'
  <2>1. a \in [call : 1 .. MaxCalls, reply : Reply]
    BY <1>3 DEF Shapes
  <2> HIDE DEF a, lr
  <2>2. answer' \subseteq [call : 1 .. MaxCalls, reply : Reply]
    BY <1>7, <2>1 DEF Shapes
  <2> QED BY <1>1, <2>2 DEF Shapes
<1> HIDE DEF a, lr
<1>8. OneCall'
  <2>1. \A r \in answer' : \E w \in waiting' : w.call = r.call
    BY <1>1, <1>5, <1>7 DEF OneCall
  <2>2. \A n \in net', r \in answer' : n.call # r.call
    BY <1>1, <1>5, <1>7 DEF OneCall
  <2> QED BY <1>1, <1>7, <2>1, <2>2 DEF OneCall
<1>9. \A x : Settled(x)' <=> Settled(x)
  BY <1>1 DEF Settled
<1>10. ASSUME NEW w \in waiting, IsStep(w), ~Settled(w) PROVE w.by = "invoke" /\ SentOnce(w)'
  <2>1. w.by = "invoke" /\ SentOnce(w)
    BY <1>10 DEF Owed
  <2>2. ASSUME NEW s \in ledger', s.id = w.id
        PROVE  \E r \in answer' : r.call = w.call /\ r.reply.code = "ok"
    <3>1. CASE s \in ledger
      <4>1. PICK r \in answer : r.call = w.call /\ r.reply.code = "ok"
        BY <2>1, <2>2, <3>1 DEF SentOnce
      <4>2. \A v \in waiting : v.call # m.call
        BY <4>1 DEF OneCall
      <4> QED BY <1>7, <4>1, <4>2
    <3>2. CASE s \notin ledger
      <4>1. m.id = w.id /\ ledger' # ledger
        BY <1>4, <2>2, <3>2 DEF Booked
      <4>2. m.call = w.call
        BY <2>1, <4>1 DEF SentOnce
      <4>3. answer' = {a}
        BY <1>7, <4>2
      <4> QED BY <1>3, <1>5, <4>1, <4>2, <4>3 DEF lr
    <3> QED BY <3>1, <3>2
  <2>3. \A n \in net' : n.id = w.id => n.call = w.call
    BY <1>1, <2>1 DEF SentOnce
  <2> QED BY <2>1, <2>2, <2>3 DEF SentOnce
<1>11. Owed'
  <2>1. \A s \in ledger' : IsStep(s) /\ (Settled(s) \/ \E w \in waiting : w.id = s.id)
    <3> TAKE s \in ledger'
    <3>1. CASE s \in ledger
      BY <3>1 DEF Owed
    <3>2. CASE s.id = m.id /\ s.op = m.op /\ m.op.name = "step"
      BY <3>2 DEF Owed, IsStep, Settled
    <3> QED BY <1>4, <3>1, <3>2 DEF Booked
  <2>2. \A n \in net' : IsStep(n) => Settled(n) \/ \E w \in waiting : w.id = n.id
    BY <1>1 DEF Owed
  <2>3. \A f \in inflight : IsStep(f) => Settled(f)
    BY DEF Owed
  <2> QED BY <1>1, <1>9, <1>10, <2>1, <2>2, <2>3 DEF Owed, IsStep
<1> QED BY <1>6, <1>8, <1>11

\* The call ends: nobody waits any more, and what it waited for is settled.
CallEnds(w) ==
    /\ waiting' = {} /\ answer' = {}
    /\ net' \subseteq net /\ ledger' = ledger /\ calls' = calls
    /\ accepted \subseteq accepted' /\ told \subseteq told'
    /\ \A x \in net' \cup ledger' : IsStep(x) /\ x.id = w.id => Settled(x)'
    /\ \A f \in inflight' : f \in inflight \/ (f.id = w.id /\ (IsStep(f) => Settled(f)'))
    /\ \A f, g \in inflight' : f = g
    /\ Shapes'

LEMMA CallEndsOwes ==
    ASSUME RewardInv, NEW w \in waiting, CallEnds(w)
    PROVE  RewardInv'
<1> USE DEF RewardInv, CallEnds
<1>1. OneCall'
  BY DEF OneCall
<1>2. \A x : Settled(x) => Settled(x)'
  BY DEF Settled
<1>3. \A v \in waiting : v = w
  BY DEF OneCall
<1>4. Owed'
  <2>1. \A f \in inflight' : IsStep(f) => Settled(f)'
    BY <1>2 DEF Owed
  <2>2. \A n \in net' : IsStep(n) => Settled(n)'
    BY <1>2, <1>3 DEF Owed
  <2>3. \A x \in ledger' : IsStep(x) /\ Settled(x)'
    BY <1>2, <1>3 DEF Owed
  <2> QED BY <2>1, <2>2, <2>3 DEF Owed, IsStep
<1> QED BY <1>1, <1>4

\* An identifier names a step or does not, wherever it appears.
LEMMA SameKind ==
    ASSUME CtlInv, NEW w \in waiting, NEW x \in net \cup ledger, x.id = w.id
    PROVE  w.op = x.op
<1>1. Request(x) \in Requests /\ Request(w) \in Requests
  BY DEF Requests
<1> QED BY <1>1 DEF CtlInv, OneOpPerId, Request

LEMMA LostOwes == CtlInv /\ RewardInv /\ CallLost => RewardInv'
<1> SUFFICES ASSUME CtlInv, RewardInv, CallLost PROVE RewardInv'
  OBVIOUS
<1>1. PICK w \in waiting :
         /\ waiting' = {} /\ answer' = {}
         /\ inflight' = IF w.op.name \in Mutating
                        THEN {[id |-> w.id, op |-> w.op]} ELSE inflight
         /\ FlagUncertain(w)
         /\ UNCHANGED <<rpcVars, net, calls, closed, accepted>>
  BY DEF CallLost, Hangup
<1>2. ledger' = ledger
  BY <1>1 DEF rpcVars
<1>3. w.id \in RequestId /\ w.op \in Operation
  BY DEF RewardInv, Shapes
<1>4. told' \in {told, told \cup {w.id}} /\ (w.by = "invoke" => w.id \in told')
  BY <1>1 DEF FlagUncertain
<1>5. ASSUME IsStep(w) PROVE w.id \in accepted' \cup told'
  BY <1>1, <1>4, <1>5 DEF RewardInv, Owed, Settled
<1> DEFINE f == [id |-> w.id, op |-> w.op]
<1>6. f.id = w.id /\ f.op = w.op /\ f \in [id : RequestId, op : Operation]
  BY <1>3
<1>7. inflight' \subseteq {f} \/ inflight' = inflight
  BY <1>1
<1> HIDE DEF f
<1>8. Shapes'
  <2>1. inflight' \subseteq [id : RequestId, op : Operation]
    BY <1>6, <1>7 DEF RewardInv, Shapes
  <2>2. told' \subseteq RequestId
    BY <1>3, <1>4 DEF RewardInv, Shapes
  <2> QED BY <1>1, <2>1, <2>2 DEF RewardInv, Shapes
<1>9. \A x \in net' \cup ledger' : IsStep(x) /\ x.id = w.id => Settled(x)'
  BY <1>1, <1>2, <1>5, SameKind DEF IsStep, Settled
<1>10. \A g \in inflight' : g \in inflight \/ (g.id = w.id /\ (IsStep(g) => Settled(g)'))
  BY <1>5, <1>6, <1>7 DEF IsStep, Settled
<1>11. \A g, h \in inflight' : g = h
  BY <1>7 DEF RewardInv, OneCall
<1>12. accepted \subseteq accepted' /\ told \subseteq told'
  BY <1>1, <1>4
<1>13. CallEnds(w)
  BY <1>1, <1>2, <1>8, <1>9, <1>10, <1>11, <1>12 DEF CallEnds
<1> QED BY <1>13, CallEndsOwes

\* Turned down before handle(): the only copy of a step sent once is gone, and
\* the worker never saw it.
LEMMA RejectedOwes == CtlInv /\ RewardInv /\ CallRejected => RewardInv'
<1> SUFFICES ASSUME CtlInv, RewardInv, CallRejected PROVE RewardInv'
  OBVIOUS
<1>1. PICK w \in waiting, m \in net :
         /\ m.call = w.call /\ net' = net \ {m}
         /\ waiting' = {} /\ answer' = {}
         /\ UNCHANGED <<rpcVars, calls, inflight, closed, env, accepted, told>>
  BY DEF CallRejected, Hangup
<1>2. ledger' = ledger
  BY <1>1 DEF rpcVars
<1>3. Shapes'
  BY <1>1 DEF RewardInv, Shapes
<1>4. ASSUME NEW x \in net' \cup ledger', IsStep(x), x.id = w.id PROVE Settled(x)
  <2>1. IsStep(w)
    BY <1>1, <1>2, <1>4, SameKind DEF IsStep
  <2>2. CASE ~Settled(w)
    <3>1. SentOnce(w)
      BY <2>1, <2>2 DEF RewardInv, Owed
    <3>2. CASE x \in net'
      BY <1>1, <1>4, <3>1, <3>2 DEF SentOnce, RewardInv, OneCall
    <3>3. CASE x \in ledger'
      BY <1>1, <1>2, <1>4, <3>1, <3>3 DEF SentOnce, RewardInv, OneCall
    <3> QED BY <1>4, <3>2, <3>3
  <2>3. CASE Settled(w)
    BY <1>4, <2>3 DEF Settled
  <2> QED BY <2>2, <2>3
<1>5. \A x \in net' \cup ledger' : IsStep(x) /\ x.id = w.id => Settled(x)'
  BY <1>1, <1>4 DEF Settled
<1>6. \A g, h \in inflight' : g = h
  BY <1>1 DEF RewardInv, OneCall
<1>7. CallEnds(w)
  BY <1>1, <1>2, <1>3, <1>5, <1>6 DEF CallEnds
<1> QED BY <1>7, CallEndsOwes

\* The answer arrives: the result of a step that was committed is accepted.
LEMMA ReturnsOwes == CtlInv /\ RewardInv /\ CallReturns => RewardInv'
<1> SUFFICES ASSUME CtlInv, RewardInv, CallReturns PROVE RewardInv'
  OBVIOUS
<1>1. PICK w \in waiting, r \in answer :
         /\ waiting' = {} /\ answer' = {}
         /\ inflight' \subseteq inflight
         /\ accepted' = accepted \/ accepted' = accepted \cup {w.id}
         /\ r.reply.code = "ok" /\ w.by = "invoke" /\ w.op.name \in MakesTransition
               => w.id \in accepted'
         /\ UNCHANGED <<rpcVars, net, calls, closed, told>>
  BY DEF CallReturns, Hangup, Accept, AfterReconcile
<1>2. ledger' = ledger
  BY <1>1 DEF rpcVars
<1>3. w.id \in RequestId
  BY DEF RewardInv, Shapes
<1>4. Shapes'
  BY <1>1, <1>3 DEF RewardInv, Shapes
<1>5. r.call = w.call
  BY DEF RewardInv, OneCall
<1>6. ASSUME NEW x \in net \cup ledger, IsStep(x), x.id = w.id
      PROVE  x.id \in accepted' \cup told
  <2>1. IsStep(w)
    BY <1>6, SameKind DEF IsStep
  <2>2. CASE ~Settled(w)
    <3>1. w.by = "invoke" /\ SentOnce(w)
      BY <2>1, <2>2 DEF RewardInv, Owed
    <3>2. x \notin net
      BY <1>5, <1>6, <3>1 DEF SentOnce, RewardInv, OneCall
    <3>3. r.reply.code = "ok"
      BY <1>6, <3>1, <3>2 DEF SentOnce, RewardInv, OneCall
    <3>4. w.op.name \in MakesTransition
      BY <2>1 DEF IsStep, MakesTransition
    <3> QED BY <1>1, <1>6, <3>1, <3>3, <3>4
  <2>3. CASE Settled(w)
    BY <1>1, <1>6, <2>3 DEF Settled
  <2> QED BY <2>2, <2>3
<1>7. \A x \in net' \cup ledger' : IsStep(x) /\ x.id = w.id => Settled(x)'
  BY <1>1, <1>2, <1>6 DEF Settled
<1>8. \A g, h \in inflight' : g = h
  BY <1>1 DEF RewardInv, OneCall
<1>9. CallEnds(w)
  BY <1>1, <1>2, <1>4, <1>7, <1>8 DEF CallEnds
<1> QED BY <1>9, CallEndsOwes

\* Every step keeps what is owed.
LEMMA RewardInduction == CtlInv /\ CtlInv' /\ RewardInv /\ [CtlNext]_ctlVars => RewardInv'
<1> SUFFICES ASSUME CtlInv, CtlInv', RewardInv, [CtlNext]_ctlVars PROVE RewardInv'
  OBVIOUS
<1>1. ASSUME UNCHANGED <<net, calls, waiting, answer, inflight, accepted, told, ledger>>,
             closed' \in BOOLEAN
      PROVE  RewardInv'
  <2>1. Shapes' /\ OneCall'
    BY <1>1 DEF RewardInv, Shapes, OneCall
  <2>2. Owed'
    BY <1>1 DEF RewardInv, Owed, IsStep, Settled, SentOnce
  <2> QED BY <2>1, <2>2 DEF RewardInv
<1>2. closed \in BOOLEAN
  BY DEF RewardInv, Shapes
<1>3. CASE UNCHANGED ctlVars
  BY <1>1, <1>2, <1>3 DEF ctlVars, clientVars, rpcVars
<1>4. CASE WorkerRestarts
  BY <1>1, <1>2, <1>4 DEF WorkerRestarts, Restart, clientVars
<1>5. CASE EnvClose
  BY <1>1, <1>5 DEF EnvClose, rpcVars
<1>6. CASE Sends \/ WorkerHandles
  BY <1>6, SendOwes, WorkerOwes
<1>7. CASE CallLost \/ CallRejected \/ CallReturns
  BY <1>7, LostOwes, RejectedOwes, ReturnsOwes
<1>8. CtlNext => \/ Sends \/ WorkerHandles \/ WorkerRestarts
                 \/ CallLost \/ CallRejected \/ CallReturns \/ EnvClose
  BY CallsAreSends DEF CtlNext
<1> QED BY <1>3, <1>4, <1>5, <1>6, <1>7, <1>8

-----------------------------------------------------------------------------
(* The environment and the worker's cursor: the invariant behind           *)
(* InStepUnlessTold.                                                       *)

\* A harmless operation leaves the cursor of a sound worker where it is.
LEMMA HarmlessKeeps ==
    ASSUME NEW id, NEW op, Harmless(op), Handle(id, op)
    PROVE  (faulted => faulted') /\ episode' = episode /\ (faulted' \/ Cursor' = Cursor)
<1> USE DEF Cursor, backendVars
<1>1. CASE AnswerConflict(id, op) \/ AnswerFromCache(id, op) \/ AnswerFaulted(id, op)
           \/ Hello(id, op)
  BY <1>1 DEF AnswerConflict, AnswerFromCache, AnswerFaulted, Hello
<1>2. CASE Reset(id, op) \/ StepBackend(id, op) \/ Restore(id, op)
  BY <1>2 DEF Reset, StepBackend, Restore, Harmless
<1>3. CASE Observe(id, op) \/ StateHash(id, op)
  BY <1>3 DEF Observe, StateHash, Refuse
<1>4. CASE Snapshot(id, op) \/ Release(id, op)
  BY <1>4 DEF Snapshot, Release, Refuse
<1>5. CASE BackendRaises(id, op)
  BY <1>5 DEF BackendRaises, HalfMove, Harmless
<1> QED BY <1>1, <1>2, <1>3, <1>4, <1>5 DEF Handle

\* A transition that is computed is answered with the worker's new cursor, or
\* refused without moving it, or has failed and leaves the worker faulted.
LEMMA TransitionTold ==
    ASSUME RpcTypeOK, RpcTypeOK', NEW id, NEW op, op.name \in MakesTransition,
           ~Cached(id), Handle(id, op)
    PROVE  \E reply \in Reply :
              /\ Store(id, op, reply)
              /\ IF reply.code = "ok" THEN reply.decision = Cursor'
                 ELSE faulted' \/ (faulted' = faulted /\ episode' = episode /\ Cursor' = Cursor)
<1> USE RepliesTyped
<1>d. Cursor' \in Decision
  BY DEF RpcTypeOK, Cursor, Decision
<1>a. /\ AtDecision(Cursor') \in Reply
      /\ AtDecision(Cursor').decision = Cursor' /\ AtDecision(Cursor').code = "ok"
  BY <1>d, ReplyParts
<1>r. ASSUME NEW c, c # "ok", Error(c) \in Reply, Refuse(id, op, c)
      PROVE  \E reply \in Reply :
                /\ Store(id, op, reply) /\ reply.code # "ok"
                /\ faulted' = faulted /\ episode' = episode /\ Cursor' = Cursor
  BY <1>r, ReplyParts DEF Refuse, backendVars, Cursor
<1>1. CASE AnswerConflict(id, op) \/ AnswerFromCache(id, op)
  BY <1>1 DEF AnswerConflict, AnswerFromCache, Hit, Conflict, Matches, Cached
<1>2. CASE Hello(id, op) \/ Observe(id, op) \/ Snapshot(id, op) \/ Release(id, op)
           \/ StateHash(id, op)
  BY <1>2 DEF Hello, Observe, Snapshot, Release, StateHash, MakesTransition
<1>3. CASE AnswerFaulted(id, op)
  <2>1. Store(id, op, Error("worker_faulted")) /\ faulted'
    BY <1>3 DEF AnswerFaulted, Blocked
  <2> QED BY <2>1, ReplyParts
<1>4. CASE Reset(id, op)
  <2>1. Store(id, op, AtDecision(Cursor'))
    BY <1>4 DEF Reset
  <2> QED BY <1>a, <2>1
<1>5. CASE StepBackend(id, op)
  <2>1. CASE \E c \in {"reset_required", "stale_decision", "episode_finished",
                       "invalid_action"} : Refuse(id, op, c)
    BY <1>r, <2>1
  <2>2. CASE Store(id, op, AtDecision(Cursor'))
    BY <1>a, <2>2
  <2> QED BY <1>5, <2>1, <2>2 DEF StepBackend
<1>6. CASE Restore(id, op)
  <2>1. CASE \E c \in {"reset_required", "unsupported", "unknown_snapshot"} : Refuse(id, op, c)
    BY <1>r, <2>1
  <2>2. CASE Store(id, op, AtDecision(Cursor'))
    BY <1>a, <2>2
  <2> QED BY <1>6, <2>1, <2>2 DEF Restore, OracleError
<1>7. CASE BackendRaises(id, op)
  <2>1. Store(id, op, Error("internal_error")) /\ faulted'
    BY <1>7 DEF BackendRaises
  <2> QED BY <2>1, ReplyParts
<1> QED BY <1>1, <1>2, <1>3, <1>4, <1>5, <1>6, <1>7 DEF Handle

\* The identifiers in the cache after a call.
LEMMA CacheIds ==
    ASSUME RpcTypeOK, RpcTypeOK', NEW id \in RequestId, NEW op \in Operation, Handle(id, op)
    PROVE  \A j \in DOMAIN cache' : \/ cache'[j].id = id
                                   \/ \E i \in DOMAIN cache : cache'[j] = cache[i]
<1>1. Repeated(id, op) \/ Computed(id, op)
  BY HandleCases
<1>2. cache \in Seq(Entry)
  BY TypeSplit
<1>3. CASE Hit(id, op)
  BY <1>2, <1>3, HitEntries
<1>4. CASE Conflict(id, op)
  BY <1>4 DEF Conflict
<1>5. CASE Computed(id, op)
  <2>1. PICK reply \in Reply : Store(id, op, reply)
    BY <1>5 DEF Computed
  <2>2. [id |-> id, op |-> op, reply |-> reply] \in Entry
    BY DEF Entry
  <2>3. \A j \in DOMAIN cache' : \/ cache'[j] = [id |-> id, op |-> op, reply |-> reply]
                                \/ \E i \in DOMAIN cache : cache'[j] = cache[i]
    BY <1>2, <2>1, <2>2, StoreEntries
  <2> QED BY <2>3
<1> QED BY <1>1, <1>3, <1>4, <1>5 DEF Repeated

\* A call of the environment is the first to use its identifier: nothing else
\* carries it, and the worker has an answer to it only when it was given.
FirstUse(w) ==
    /\ w.op.name \in MakesTransition
    /\ \A m \in net : m.id = w.id => m.call = w.call
    /\ \A i \in DOMAIN cache : cache[i].id = w.id => \E r \in answer : r.call = w.call

Traced ==
    /\ \A i \in DOMAIN cache : cache[i].id <= calls
    /\ \A m \in net, w \in waiting : m.call = w.call => m.id = w.id /\ m.op = w.op
    /\ \A w \in waiting : w.by = "invoke" => FirstUse(w)

\* The environment awaits a transition the worker has made.
Informed == \E w \in waiting, r \in answer : w.by = "invoke" /\ r.reply.code = "ok"

InStep ==
    (~faulted /\ episode # 0) =>
        /\ Informed => \A r \in answer : r.reply.decision = Cursor
        /\ ~Informed /\ env.current => env.cursor = Cursor

\* As long as no call of the environment was lost, only harmless requests
\* outlive their calls.
Untroubled ==
    told = {} =>
        /\ \A f \in inflight : Harmless(f.op)
        /\ \A w \in waiting : w.by # "invoke" => Harmless(w.op)
        /\ \A m \in net : Harmless(m.op)
                          \/ \E w \in waiting : w.call = m.call /\ w.by = "invoke"
        /\ InStep

StepInv == Traced /\ Untroubled

LEMMA StepStart == CtlInit => StepInv
<1> SUFFICES ASSUME CtlInit PROVE StepInv
  OBVIOUS
<1>1. Traced
  BY DEF CtlInit, RpcInit, Traced
<1>2. Untroubled
  BY DEF CtlInit, RpcInit, Untroubled, InStep
<1> QED BY <1>1, <1>2 DEF StepInv

\* A call goes out.
LEMMA SendStays == CtlInv /\ RewardInv /\ StepInv /\ Sends => StepInv'
<1> SUFFICES ASSUME CtlInv, RewardInv, StepInv, Sends PROVE StepInv'
  OBVIOUS
<1> USE DEF StepInv
<1>1. PICK id, op, by :
         /\ Send(id, op, by)
         /\ \/ /\ id = calls + 1
               /\ IF by = "invoke" THEN op.name \in MakesTransition ELSE Harmless(op)
            \/ by # "invoke" /\ \E f \in inflight : f.id = id /\ f.op = op
  BY DEF Sends
<1>2. PICK c \in Nat : c = calls + 1 /\ calls \in Nat
  BY DEF CtlInv
<1> DEFINE m == [call |-> c, id |-> id, op |-> op]
           w == [call |-> c, id |-> id, op |-> op, by |-> by]
<1>3. /\ waiting = {} /\ calls' = c /\ net' = net \cup {m} /\ waiting' = {w}
      /\ UNCHANGED <<answer, inflight, env, told, cache, faulted, episode, generation>>
  BY <1>1, <1>2 DEF Send, rpcVars, backendVars
<1>4. m.call = c /\ m.id = id /\ m.op = op /\ w.call = c /\ w.id = id /\ w.op = op /\ w.by = by
  OBVIOUS
<1>5. answer = {}
  BY <1>3 DEF RewardInv, OneCall
<1> HIDE DEF m, w
<1>6. \A x \in net : x.call # c
  BY <1>2 DEF RewardInv, OneCall, Shapes
<1>7. \A i \in DOMAIN cache : cache[i].id <= calls /\ cache[i].id \in Nat
  <2> TAKE i \in DOMAIN cache
  <2>1. cache[i].id \in RequestId
    <3>1. cache[i] \in Entry
      BY TypeSplit DEF CtlInv
    <3> QED BY <3>1 DEF Entry
  <2> QED BY <2>1, IdsAreNumbered DEF Traced
<1>8. ASSUME by = "invoke" PROVE FirstUse(w)'
  <2>1. id = c /\ op.name \in MakesTransition
    BY <1>1, <1>2, <1>8
  <2>2. \A x \in net : x.id # id
    <3> TAKE x \in net
    <3>1. Request(x) \in Requests
      BY DEF Requests
    <3>2. x.id \in RequestId /\ x.id <= calls
      BY <3>1 DEF Request, CtlInv, RequestsSent
    <3> QED BY <1>2, <2>1, <3>2, IdsAreNumbered
  <2>3. \A i \in DOMAIN cache : cache[i].id # id
    BY <1>2, <1>7, <2>1
  <2> QED BY <1>3, <1>4, <2>1, <2>2, <2>3 DEF FirstUse
<1>9. Traced'
  <2>1. \A i \in DOMAIN cache' : cache'[i].id <= calls'
    BY <1>2, <1>3, <1>7
  <2>2. \A x \in net', v \in waiting' : x.call = v.call => x.id = v.id /\ x.op = v.op
    BY <1>3, <1>4, <1>6
  <2>3. \A v \in waiting' : v.by = "invoke" => FirstUse(v)'
    BY <1>3, <1>4, <1>8
  <2> QED BY <2>1, <2>2, <2>3 DEF Traced
<1>10. Untroubled'
  <2> SUFFICES ASSUME told = {} PROVE Untroubled'
    BY <1>3 DEF Untroubled
  <2>1. by # "invoke" => Harmless(op)
    BY <1>1 DEF Untroubled
  <2>2. \A x \in net : Harmless(x.op)
    BY <1>3 DEF Untroubled
  <2>3. InStep'
    BY <1>3, <1>5 DEF Untroubled, InStep, Informed, Cursor
  <2>4. \A f \in inflight' : Harmless(f.op)
    BY <1>3 DEF Untroubled
  <2>5. \A v \in waiting' : v.by # "invoke" => Harmless(v.op)
    BY <1>3, <1>4, <2>1
  <2>6. \A x \in net' : Harmless(x.op) \/ \E v \in waiting' : v.call = x.call /\ v.by = "invoke"
    BY <1>3, <1>4, <2>1, <2>2
  <2> QED BY <2>3, <2>4, <2>5, <2>6 DEF Untroubled, Harmless
<1> QED BY <1>9, <1>10

\* The worker executes a request.
LEMMA WorkerStays == CtlInv /\ CtlInv' /\ RewardInv /\ StepInv /\ WorkerHandles => StepInv'
<1> SUFFICES ASSUME CtlInv, CtlInv', RewardInv, StepInv, WorkerHandles PROVE StepInv'
  OBVIOUS
<1> USE DEF StepInv
<1>1. PICK m \in net :
          /\ Handle(m.id, m.op)
          /\ net' = net \ {m}
          /\ answer' = IF \E w \in waiting : w.call = m.call
                       THEN {[call |-> m.call, reply |-> LatestReply']} ELSE answer
          /\ UNCHANGED <<calls, waiting, inflight, closed, env, accepted, told>>
  BY DEF WorkerHandles
<1>2. m.id \in RequestId /\ m.op \in Operation
  BY <1>1, WorkerStepsAsRpc
<1>t. RpcTypeOK /\ RpcTypeOK'
  BY DEF CtlInv
<1>3. \A j \in DOMAIN cache' : cache'[j].id = m.id \/ \E i \in DOMAIN cache : cache'[j] = cache[i]
  BY <1>1, <1>2, <1>t, CacheIds
<1> DEFINE lr == LatestReply'
           a == [call |-> m.call, reply |-> lr]
<1>4. a.call = m.call /\ a.reply = lr
  OBVIOUS
<1>5. answer' = (IF \E w \in waiting : w.call = m.call THEN {a} ELSE answer)
  BY <1>1
<1> HIDE DEF a, lr
<1>6. \A r \in answer : r.call # m.call /\ \A w \in waiting : w.call = r.call
  BY DEF RewardInv, OneCall
<1>7. Traced'
  <2>1. \A j \in DOMAIN cache' : cache'[j].id <= calls'
    <3>1. Request(m) \in Requests
      BY DEF Requests
    <3>2. m.id <= calls
      BY <3>1 DEF Request, CtlInv, RequestsSent
    <3> QED BY <1>1, <1>3, <3>2 DEF Traced
  <2>2. ASSUME NEW w \in waiting, w.by = "invoke" PROVE FirstUse(w)'
    <3>1. FirstUse(w)
      BY <2>2 DEF Traced
    <3>2. ASSUME NEW j \in DOMAIN cache', cache'[j].id = w.id
          PROVE  \E r \in answer' : r.call = w.call
      <4>1. CASE m.id = w.id
        BY <1>4, <1>5, <3>1, <4>1 DEF FirstUse
      <4>2. CASE \E i \in DOMAIN cache : cache'[j] = cache[i]
        <5>1. \E r \in answer : r.call = w.call
          BY <3>1, <3>2, <4>2 DEF FirstUse
        <5> QED BY <1>5, <1>6, <5>1
      <4> QED BY <1>3, <3>2, <4>1, <4>2
    <3>3. \A n \in net' : n.id = w.id => n.call = w.call
      BY <1>1, <3>1 DEF FirstUse
    <3> QED BY <3>1, <3>2, <3>3 DEF FirstUse
  <2>3. \A n \in net', w \in waiting' : n.call = w.call => n.id = w.id /\ n.op = w.op
    BY <1>1 DEF Traced
  <2> QED BY <1>1, <2>1, <2>2, <2>3 DEF Traced
<1>8. Untroubled'
  <2> SUFFICES ASSUME told = {} PROVE Untroubled'
    BY <1>1 DEF Untroubled
  <2>1. /\ \A f \in inflight : Harmless(f.op)
        /\ \A w \in waiting : w.by # "invoke" => Harmless(w.op)
        /\ \A n \in net : Harmless(n.op)
                          \/ \E w \in waiting : w.call = n.call /\ w.by = "invoke"
        /\ InStep
    BY DEF Untroubled
  <2>2. InStep'
    <3>1. CASE Harmless(m.op)
      <4>1. (faulted => faulted') /\ episode' = episode /\ (faulted' \/ Cursor' = Cursor)
        BY <1>1, <3>1, HarmlessKeeps
      <4>2. \A w \in waiting : w.call = m.call => w.by # "invoke"
        <5> SUFFICES ASSUME NEW w \in waiting, w.call = m.call, w.by = "invoke" PROVE FALSE
          OBVIOUS
        <5>1. w.op.name \in MakesTransition /\ w.op = m.op
          BY DEF Traced, FirstUse
        <5> QED BY <3>1, <5>1 DEF Harmless, MakesTransition
      <4>3. CASE \E w \in waiting : w.call = m.call
        <5>1. \A w \in waiting : w.by # "invoke"
          BY <4>2, <4>3 DEF RewardInv, OneCall
        <5>2. ~Informed /\ ~Informed'
          BY <1>1, <5>1 DEF Informed
        <5> QED BY <1>1, <2>1, <4>1, <5>2 DEF InStep
      <4>4. CASE ~ \E w \in waiting : w.call = m.call
        <5>1. answer' = answer
          BY <1>5, <4>4
        <5>2. Informed' <=> Informed
          BY <1>1, <5>1 DEF Informed
        <5> QED BY <1>1, <2>1, <4>1, <5>1, <5>2 DEF InStep
      <4> QED BY <4>3, <4>4
    <3>2. CASE ~Harmless(m.op)
      <4>1. PICK w \in waiting : w.call = m.call /\ w.by = "invoke"
        BY <2>1, <3>2
      <4>2. FirstUse(w) /\ w.id = m.id /\ w.op = m.op
        BY <4>1 DEF Traced
      <4>3. ~Cached(m.id) /\ m.op.name \in MakesTransition
        BY <1>6, <4>1, <4>2 DEF FirstUse, Cached
      <4>4. answer = {} /\ answer' = {a}
        BY <1>5, <1>6, <4>1
      <4>5. PICK reply \in Reply :
               /\ Store(m.id, m.op, reply)
               /\ IF reply.code = "ok" THEN reply.decision = Cursor'
                  ELSE faulted' \/ (faulted' = faulted /\ episode' = episode /\ Cursor' = Cursor)
        BY <1>1, <1>t, <4>3, TransitionTold
      <4>6. lr = reply
        <5> DEFINE e == [id |-> m.id, op |-> m.op, reply |-> reply]
        <5>1. e \in Entry /\ cache \in Seq(Entry)
          BY <1>2, <1>t, TypeSplit DEF Entry
        <5>2. cache'[Len(cache')] = e
          BY <4>5, <5>1, StoreEntries
        <5> QED BY <5>2 DEF lr, LatestReply
      <4>7. ~Informed
        BY <4>4 DEF Informed
      <4>8. Informed' <=> reply.code = "ok"
        BY <1>1, <1>4, <4>1, <4>4, <4>6 DEF Informed
      <4>9. CASE reply.code = "ok"
        BY <1>4, <4>4, <4>5, <4>6, <4>8, <4>9 DEF InStep
      <4>10. CASE reply.code # "ok"
        BY <1>1, <2>1, <4>5, <4>7, <4>8, <4>10 DEF InStep
      <4> QED BY <4>9, <4>10
    <3> QED BY <3>1, <3>2
  <2>3. \A n \in net' : Harmless(n.op) \/ \E w \in waiting' : w.call = n.call /\ w.by = "invoke"
    BY <1>1, <2>1
  <2> QED BY <1>1, <2>1, <2>2, <2>3 DEF Untroubled, Harmless
<1> QED BY <1>7, <1>8

\* A call ends, whatever the way: nothing is awaited any more.
LEMMA EndStays ==
    ASSUME RewardInv, StepInv,
           waiting' = {}, answer' = {}, net' \subseteq net, UNCHANGED <<cache, calls>>,
           told' = {} =>
               /\ told = {}
               /\ \A f \in inflight' : Harmless(f.op)
               /\ \A w \in waiting, m \in net' : w.by = "invoke" => w.call # m.call
               /\ InStep'
    PROVE  StepInv'
<1> USE DEF StepInv
<1>1. Traced'
  BY DEF Traced
<1>2. Untroubled'
  <2> SUFFICES ASSUME told' = {} PROVE Untroubled'
    BY DEF Untroubled
  <2>1. \A m \in net' : Harmless(m.op)
    BY DEF Untroubled
  <2> QED BY <2>1 DEF Untroubled, Harmless
<1> QED BY <1>1, <1>2

LEMMA EndsStay ==
    CtlInv /\ RewardInv /\ StepInv /\ (CallLost \/ CallRejected \/ CallReturns \/ EnvClose)
        => StepInv'
<1> SUFFICES ASSUME CtlInv, RewardInv, StepInv,
                    CallLost \/ CallRejected \/ CallReturns \/ EnvClose
             PROVE  StepInv'
  OBVIOUS
<1> USE DEF StepInv
<1>0. ASSUME UNCHANGED rpcVars
      PROVE  UNCHANGED <<cache, faulted, episode>> /\ Cursor' = Cursor
  BY <1>0 DEF rpcVars, backendVars, Cursor
<1>1. CASE CallLost
  <2>1. PICK w \in waiting :
           /\ waiting' = {} /\ answer' = {} /\ UNCHANGED <<rpcVars, net, calls>>
           /\ inflight' = IF w.op.name \in Mutating
                          THEN {[id |-> w.id, op |-> w.op]} ELSE inflight
           /\ FlagUncertain(w)
    BY <1>1 DEF CallLost, Hangup
  <2>2. UNCHANGED <<cache, faulted, episode>> /\ Cursor' = Cursor
    BY <1>0, <2>1
  <2>3. ASSUME told' = {}
        PROVE  told = {} /\ w.by # "invoke" /\ env' = env
    BY <2>1, <2>3 DEF FlagUncertain
  <2>4. ASSUME told' = {}
        PROVE  /\ told = {} /\ \A f \in inflight' : Harmless(f.op)
               /\ \A v \in waiting, m \in net' : v.by = "invoke" => v.call # m.call
               /\ InStep'
    <3>1. \A v \in waiting : v.by # "invoke"
      BY <2>3, <2>4 DEF RewardInv, OneCall
    <3>2. told = {} /\ Harmless(w.op) /\ InStep /\ \A f \in inflight : Harmless(f.op)
      BY <2>3, <2>4 DEF Untroubled
    <3>3. \A f \in inflight' : Harmless(f.op)
      BY <2>1, <3>2
    <3>4. ~Informed /\ ~Informed'
      BY <2>1, <3>1 DEF Informed
    <3>5. InStep'
      BY <2>2, <2>3, <2>4, <3>2, <3>4 DEF InStep
    <3> QED BY <3>1, <3>2, <3>3, <3>5
  <2> QED BY <2>1, <2>2, <2>4, EndStays
<1>2. CASE CallRejected
  <2>1. PICK w \in waiting, m \in net :
           /\ m.call = w.call /\ net' = net \ {m} /\ waiting' = {} /\ answer' = {}
           /\ UNCHANGED <<rpcVars, calls, inflight, env, told>>
    BY <1>2 DEF CallRejected, Hangup
  <2>2. UNCHANGED <<cache, faulted, episode>> /\ Cursor' = Cursor
    BY <1>0, <2>1
  <2>3. \A v \in waiting, n \in net' : v.call # n.call
    BY <2>1 DEF RewardInv, OneCall
  <2>4. answer = {}
    BY <2>1 DEF RewardInv, OneCall
  <2>5. ~Informed /\ ~Informed'
    BY <2>1, <2>4 DEF Informed
  <2>6. told = {} => InStep' /\ \A f \in inflight' : Harmless(f.op)
    BY <2>1, <2>2, <2>5 DEF Untroubled, InStep
  <2> QED BY <2>1, <2>2, <2>3, <2>6, EndStays
<1>3. CASE CallReturns
  <2>1. PICK w \in waiting, r \in answer :
           /\ waiting' = {} /\ answer' = {} /\ UNCHANGED <<rpcVars, net, calls, told>>
           /\ inflight' \subseteq inflight
           /\ \/ /\ r.reply.code = "ok" /\ w.by \in {"invoke", "replay"}
                 /\ w.op.name \in MakesTransition
                 /\ Accept(w, r.reply.decision)
              \/ w.by = "reconcile" /\ AfterReconcile(r.reply.decision)
              \/ /\ \/ r.reply.code # "ok" \/ w.by = "direct"
                    \/ w.by = "replay" /\ w.op.name \notin MakesTransition
                 /\ env' = env
    BY <1>3 DEF CallReturns, Hangup
  <2>2. UNCHANGED <<cache, faulted, episode>> /\ Cursor' = Cursor
    BY <1>0, <2>1
  <2>3. \A v \in waiting, n \in net' : v.call # n.call
    BY <2>1 DEF RewardInv, OneCall
  <2>4. (\A v \in waiting : v = w) /\ (\A q \in answer : q = r)
    BY DEF RewardInv, OneCall
  <2>5. ~Informed'
    BY <2>1 DEF Informed
  <2>6. Informed <=> w.by = "invoke" /\ r.reply.code = "ok"
    BY <2>4 DEF Informed
  <2>7. ASSUME told = {} PROVE InStep'
    <3>1. InStep /\ (w.by # "invoke" => Harmless(w.op))
      BY <2>7 DEF Untroubled
    <3>2. CASE /\ r.reply.code = "ok" /\ w.by \in {"invoke", "replay"}
               /\ w.op.name \in MakesTransition
               /\ Accept(w, r.reply.decision)
      <4>1. w.by = "invoke"
        BY <3>1, <3>2 DEF Harmless, MakesTransition
      <4>2. env'.cursor = r.reply.decision
        BY <3>2 DEF Accept
      <4>3. (~faulted /\ episode # 0) => r.reply.decision = Cursor
        BY <2>6, <3>1, <3>2, <4>1 DEF InStep
      <4> QED BY <2>2, <2>5, <4>2, <4>3 DEF InStep
    <3>3. CASE w.by = "reconcile" /\ AfterReconcile(r.reply.decision)
      <4>1. env'.current = FALSE
        BY <3>3 DEF AfterReconcile
      <4> QED BY <2>5, <4>1 DEF InStep
    <3>4. CASE /\ \/ r.reply.code # "ok" \/ w.by = "direct"
                  \/ w.by = "replay" /\ w.op.name \notin MakesTransition
               /\ env' = env
      <4>1. ~Informed
        BY <2>6, <3>4
      <4> QED BY <2>2, <2>5, <3>1, <3>4, <4>1 DEF InStep
    <3> QED BY <2>1, <3>2, <3>3, <3>4
  <2>8. told = {} => \A f \in inflight' : Harmless(f.op)
    BY <2>1 DEF Untroubled
  <2> QED BY <2>1, <2>2, <2>3, <2>7, <2>8, EndStays
<1>4. CASE EnvClose
  <2>1. /\ waiting = {} /\ waiting' = {} /\ env' = FreshEnv
        /\ UNCHANGED <<rpcVars, net, calls, answer, inflight, told>>
    BY <1>4 DEF EnvClose
  <2>2. UNCHANGED <<cache, faulted, episode>> /\ Cursor' = Cursor
    BY <1>0, <2>1
  <2>3. answer = {}
    BY <2>1 DEF RewardInv, OneCall
  <2>4. env'.current = FALSE
    BY <2>1 DEF FreshEnv
  <2>5. InStep'
    BY <2>1, <2>4 DEF InStep, Informed
  <2>6. told = {} => \A f \in inflight' : Harmless(f.op)
    BY <2>1 DEF Untroubled
  <2> QED BY <2>1, <2>2, <2>3, <2>5, <2>6, EndStays
<1> QED BY <1>1, <1>2, <1>3, <1>4

\* A new worker has no episode to be in step with.
LEMMA RestartStays == StepInv /\ WorkerRestarts => StepInv'
<1> SUFFICES ASSUME StepInv, WorkerRestarts PROVE StepInv'
  OBVIOUS
<1>1. /\ cache' = <<>> /\ episode' = 0
      /\ UNCHANGED <<net, calls, waiting, answer, inflight, told>>
  BY DEF WorkerRestarts, Restart, clientVars
<1>2. InStep'
  BY <1>1 DEF InStep
<1>3. Traced'
  BY <1>1 DEF StepInv, Traced, FirstUse
<1>4. Untroubled'
  BY <1>1, <1>2 DEF StepInv, Untroubled, Harmless
<1> QED BY <1>3, <1>4 DEF StepInv

LEMMA StepInduction ==
    CtlInv /\ CtlInv' /\ RewardInv /\ StepInv /\ [CtlNext]_ctlVars => StepInv'
<1> SUFFICES ASSUME CtlInv, CtlInv', RewardInv, StepInv, [CtlNext]_ctlVars PROVE StepInv'
  OBVIOUS
<1>1. CASE UNCHANGED ctlVars
  <2>1. UNCHANGED <<cache, faulted, episode, generation, net, calls, waiting, answer,
                    inflight, env, told>>
    BY <1>1 DEF ctlVars, clientVars, rpcVars, backendVars
  <2>2. InStep' <=> InStep
    BY <2>1 DEF InStep, Informed, Cursor
  <2>3. Traced'
    BY <2>1 DEF StepInv, Traced, FirstUse
  <2>4. Untroubled'
    BY <2>1, <2>2 DEF StepInv, Untroubled, Harmless
  <2> QED BY <2>3, <2>4 DEF StepInv
<1>2. CASE Sends
  BY <1>2, SendStays
<1>3. CASE WorkerHandles \/ WorkerRestarts
  BY <1>3, WorkerStays, RestartStays
<1>4. CASE CallLost \/ CallRejected \/ CallReturns \/ EnvClose
  BY <1>4, EndsStay
<1>5. CtlNext => \/ Sends \/ WorkerHandles \/ WorkerRestarts
                 \/ CallLost \/ CallRejected \/ CallReturns \/ EnvClose
  BY CallsAreSends DEF CtlNext
<1> QED BY <1>1, <1>2, <1>3, <1>4, <1>5

-----------------------------------------------------------------------------
(* Theorems.                                                               *)

\* The invariant of the composition holds throughout.
THEOREM CtlInvariance == CtlSpec => []CtlInv
BY CtlStart, CtlInduction, PTL DEF CtlSpec

\* With late requests, replays and restarts the worker still does only what
\* RpcService does with callers that name what they were told: everything
\* proved about the service holds of the worker of a controller.
THEOREM WorkerIsRpcService == CtlSpec => RpcSpec
<1>1. CtlInit => RpcInit
  BY DEF CtlInit
<1> QED
  BY <1>1, WorkerSees, CtlInvariance, PTL DEF CtlSpec, RpcSpec

\* A step of the environment is applied once, however often and however late
\* its request reaches the worker.
THEOREM AppliedOnce == CtlSpec => []OneStepPerRequest
<1>1. CtlInv => OneStepPerRequest
  <2> SUFFICES ASSUME CtlInv, NEW s \in ledger, NEW t \in ledger, s.id = t.id
               PROVE  s = t
    BY DEF OneStepPerRequest
  <2>1. Request(s) \in Requests /\ Request(t) \in Requests
    BY DEF Requests
  <2>2. s.op = t.op
    BY <2>1 DEF CtlInv, OneOpPerId, Request
  <2> QED BY <2>2 DEF CtlInv, SafeInv, OneStepPerDecision
<1> QED
  BY <1>1, CtlInvariance, PTL

THEOREM RewardInvariance == CtlSpec => []RewardInv
BY RewardStart, RewardInduction, CtlInvariance, PTL DEF CtlSpec

\* No committed step goes missing silently: its transition was accepted, is
\* waited for, or the caller was told that its outcome is unknown.
THEOREM RewardsAccountedFor == CtlSpec => []NoRewardLostSilently
<1>1. RewardInv => NoRewardLostSilently
  BY DEF RewardInv, Owed, Settled, NoRewardLostSilently
<1> QED
  BY <1>1, RewardInvariance, PTL

\* Every variable keeps its type, and a reply is read by its own call only.
THEOREM CtlTypeCorrect == CtlSpec => []CtlTypeOK
<1>1. ASSUME NEW S, \A x, y \in S : x = y PROVE Cardinality(S) <= 1
  <2>1. CASE S = {}
    BY <2>1, FS_EmptySet
  <2>2. CASE S # {}
    <3>1. PICK x : S = {x}
      BY <1>1, <2>2
    <3>2. Cardinality({x}) = 1
      BY FS_Singleton
    <3> QED BY <3>1, <3>2
  <2> QED BY <2>1, <2>2
<1>2. CtlInv /\ RewardInv => CtlTypeOK
  <2> SUFFICES ASSUME CtlInv, RewardInv PROVE CtlTypeOK
    OBVIOUS
  <2>1. KnownDecisions \subseteq Decision
    BY DEF CtlInv, RpcTypeOK, KnownDecisions, Decision, NoDecision
  <2>2. env \in [uncertain : BOOLEAN, rewardUnknown : BOOLEAN, current : BOOLEAN,
                 cursor : Decision]
    <3> HIDE DEF KnownDecisions
    <3> QED BY <2>1 DEF CtlInv, EnvTold
  <2>3. Cardinality(waiting) <= 1 /\ Cardinality(answer) <= 1 /\ Cardinality(inflight) <= 1
    BY <1>1 DEF RewardInv, OneCall
  <2>4. \A r \in answer : \E w \in waiting : w.call = r.call
    BY DEF RewardInv, OneCall
  <2> QED BY <2>2, <2>3, <2>4 DEF CtlTypeOK, CtlInv, RewardInv, Shapes, Callers
<1> QED
  BY <1>2, CtlInvariance, RewardInvariance, PTL

THEOREM StepInvariance == CtlSpec => []StepInv
BY StepStart, StepInduction, CtlInvariance, RewardInvariance, PTL DEF CtlSpec

\* An environment that never had to report an uncertain request is in step with
\* its worker.
THEOREM InStepUntilTold == CtlSpec => []InStepUnlessTold
<1>1. StepInv => InStepUnlessTold
  BY DEF StepInv, Untroubled, InStep, Informed, InStepUnlessTold
<1> QED
  BY <1>1, StepInvariance, PTL
=============================================================================
