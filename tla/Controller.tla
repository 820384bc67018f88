----------------------------- MODULE Controller -----------------------------
(***************************************************************************)
(* One controller and its worker: QudEnv (src/qudgym/env.py) on top of     *)
(* HttpBackend (src/qudgym/client.py), an HTTP connection per call, and    *)
(* the worker of RpcService behind src/qudgym/server.py.                   *)
(*                                                                         *)
(* The controller is sequential: it sends a request and waits.  A call     *)
(* that times out does not take its request back: the worker may still     *)
(* execute it, any time later.  Requests are not duplicated by the         *)
(* network, only by the controller's own replay.                           *)
(***************************************************************************)
EXTENDS RpcService

CONSTANTS MaxCalls       \* bound on the HTTP calls of a behaviour

ASSUME IdsAreNumbered == RequestId \subseteq Nat \ {0}
ASSUME CallsBounded == MaxCalls \in Nat

VARIABLES
    net,          \* requests sent and neither executed nor rejected yet
    calls,        \* calls made so far
    waiting,      \* the call the controller is blocked in, if any
    answer,       \* the reply on its way to that call, if any
    inflight,     \* HttpBackend._inflight, if any
    closed,       \* HttpBackend._closed
    env,          \* QudEnv: uncertain, rewardUnknown, current # None, _cursor
    accepted,     \* history: requests whose transition the caller was given
    told          \* history: requests the env flagged as uncertain

clientVars == <<net, calls, waiting, answer, inflight, closed>>
ctlVars == <<rpcVars, clientVars, env, accepted, told>>

FreshEnv == [uncertain |-> FALSE, rewardUnknown |-> FALSE, current |-> FALSE,
             cursor |-> NoDecision]

CtlInit ==
    /\ RpcInit
    /\ net = {} /\ calls = 0 /\ waiting = {} /\ answer = {} /\ inflight = {}
    /\ closed = FALSE
    /\ env = FreshEnv
    /\ accepted = {} /\ told = {}

Mutating == {"reset", "step", "restore", "release", "snapshot"}   \* _MUTATING
MakesTransition == {"reset", "step", "restore"}                   \* result_model

-----------------------------------------------------------------------------
(* Sending: the first half of HttpBackend._call.                           *)

Send(id, op, by) ==
    /\ ~closed /\ waiting = {} /\ calls < MaxCalls
    /\ calls' = calls + 1
    /\ net' = net \cup {[call |-> calls', id |-> id, op |-> op]}
    /\ waiting' = {[call |-> calls', id |-> id, op |-> op, by |-> by]}
    /\ UNCHANGED <<rpcVars, answer, inflight, closed, env, accepted, told>>

\* Without a request_id of its own a mutation is refused while another one is
\* unresolved; otherwise it gets an identifier never used before.
SendNew(op, by) ==
    /\ op.name \in Mutating => inflight = {}
    /\ calls + 1 \in RequestId
    /\ Send(calls + 1, op, by)

SendInflight(by) == \E f \in inflight : Send(f.id, f.op, by)

Guard == ~env.uncertain                                          \* _guard

EnvReset == Guard /\ SendNew(Op("reset"), "invoke")

EnvStep(a) == /\ Guard /\ env.cursor # NoDecision
              /\ SendNew(StepOp(env.cursor, a), "invoke")

EnvRestore(h) == Guard /\ SendNew(HandleOp("restore", h), "invoke")

EnvReplay == env.uncertain /\ SendInflight("replay")

EnvReconcile == SendNew(Op("observe"), "reconcile")

\* The backend under the environment can be used directly; its answers do not
\* reach the environment.
ClientSnapshot == SendNew(Op("snapshot"), "direct")
ClientRelease(h) == SendNew(HandleOp("release", h), "direct")
ClientReplay == SendInflight("direct")

-----------------------------------------------------------------------------
\* The worker executes a request; the reply is lost when nobody waits for it.
WorkerHandles ==
    \E m \in net :
        /\ Handle(m.id, m.op)
        /\ net' = net \ {m}
        /\ answer' = IF \E w \in waiting : w.call = m.call
                     THEN {[call |-> m.call, reply |-> LatestReply']} ELSE answer
        /\ UNCHANGED <<calls, waiting, inflight, closed, env, accepted, told>>

WorkerRestarts ==
    /\ Restart
    /\ UNCHANGED <<clientVars, env, accepted, told>>

-----------------------------------------------------------------------------
(* The second half of a call.                                              *)

\* Mutant: the connection stays open, and a late reply stays readable on it.
HangupLater == waiting' = {} /\ UNCHANGED answer

Hangup == waiting' = {} /\ answer' = {}                  \* connection.close()

\* Mutant: a lost reply does not leave the environment uncertain.
FlagNothing(w) == UNCHANGED <<env, told>>

\* QudEnv._invoke; a replay or a reconciliation leaves the flag as it is.
FlagUncertain(w) ==
    IF w.by = "invoke"
    THEN /\ env' = [env EXCEPT !.uncertain = TRUE]
         /\ told' = told \cup {w.id}
    ELSE UNCHANGED <<env, told>>

\* No usable reply: a timeout, a broken connection, an oversized, malformed or
\* mismatched envelope, a result of the wrong shape.  The mutation is
\* remembered for a replay.
CallLost ==
    \E w \in waiting :
        /\ Hangup
        /\ inflight' = IF w.op.name \in Mutating
                       THEN {[id |-> w.id, op |-> w.op]} ELSE inflight
        /\ FlagUncertain(w)
        /\ UNCHANGED <<rpcVars, net, calls, closed, accepted>>

\* The HTTP layer turned the request down before handle(): no effect, and the
\* environment is not uncertain about it.
CallRejected ==
    \E w \in waiting, m \in net :
        /\ m.call = w.call
        /\ net' = net \ {m}
        /\ Hangup
        /\ UNCHANGED <<rpcVars, calls, inflight, closed, env, accepted, told>>

\* QudEnv._accept
Accept(w, d) ==
    /\ env' = [uncertain |-> FALSE, rewardUnknown |-> FALSE, current |-> TRUE,
               cursor |-> d]
    /\ accepted' = accepted \cup {w.id}

AfterReconcile(d) ==
    /\ env' = [uncertain |-> FALSE, rewardUnknown |-> TRUE, current |-> FALSE,
               cursor |-> d]
    /\ UNCHANGED accepted

\* The reply arrives.  A reply to the request in flight resolves it, an error
\* as well as a result; the environment takes note of a result only.
CallReturns ==
    \E w \in waiting, r \in answer :
        LET resolved == {f \in inflight : f.id # w.id}
            ok == r.reply.code = "ok"
        IN  /\ Hangup
            /\ inflight' = IF ok /\ w.by = "reconcile" THEN {} ELSE resolved
            /\ \/ /\ ok /\ w.by \in {"invoke", "replay"}
                  /\ w.op.name \in MakesTransition
                  /\ Accept(w, r.reply.decision)
               \/ ok /\ w.by = "reconcile" /\ AfterReconcile(r.reply.decision)
               \/ /\ ~ok \/ w.by = "direct" \/ (w.by = "replay" /\
                                  w.op.name \notin MakesTransition)
                  /\ UNCHANGED <<env, accepted>>
            /\ UNCHANGED <<rpcVars, net, calls, closed, told>>

EnvClose ==
    /\ waiting = {} /\ ~closed
    /\ closed' = TRUE
    /\ env' = FreshEnv
    /\ UNCHANGED <<rpcVars, net, calls, waiting, answer, inflight, accepted, told>>

CtlNext ==
    \/ EnvReset \/ EnvReplay \/ EnvReconcile \/ EnvClose
    \/ \E a \in Action : EnvStep(a)
    \/ \E h \in 1 .. used.handles : EnvRestore(h) \/ ClientRelease(h)
    \/ ClientSnapshot \/ ClientReplay
    \/ WorkerHandles \/ WorkerRestarts
    \/ CallLost \/ CallRejected \/ CallReturns

CtlSpec == CtlInit /\ [][CtlNext]_ctlVars

-----------------------------------------------------------------------------
(* Properties.                                                             *)

\* Every variable keeps its type; at most one call is awaited at a time, and a
\* reply is only ever read by the call it answers.
CtlTypeOK ==
    LET Call == [call : 1 .. MaxCalls, id : RequestId, op : Operation]
        By == {"invoke", "replay", "reconcile", "direct"}
    IN  /\ RpcTypeOK
        /\ net \subseteq Call
        /\ calls \in 0 .. MaxCalls
        /\ waiting \subseteq [call : 1 .. MaxCalls, id : RequestId, op : Operation, by : By]
        /\ answer \subseteq [call : 1 .. MaxCalls, reply : Reply]
        /\ inflight \subseteq [id : RequestId, op : Operation]
        /\ Cardinality(waiting) <= 1 /\ Cardinality(answer) <= 1
        /\ Cardinality(inflight) <= 1
        /\ \A r \in answer : \E w \in waiting : w.call = r.call
        /\ closed \in BOOLEAN
        /\ env \in [uncertain : BOOLEAN, rewardUnknown : BOOLEAN, current : BOOLEAN,
                    cursor : Decision]
        /\ accepted \subseteq RequestId /\ told \subseteq RequestId

\* A step of the environment is applied once, however often and however late
\* its request reaches the worker: replays, requests that outlive their call,
\* evicted replies and restarts of the worker included.
OneStepPerRequest == \A s, t \in ledger : s.id = t.id => s = t

\* No committed step goes missing silently: the caller was given its
\* transition, is waiting for it, or was told that its outcome is unknown.
NoRewardLostSilently ==
    \A s \in ledger : \/ s.id \in accepted \/ s.id \in told
                      \/ \E w \in waiting : w.id = s.id

\* An environment that never had to report an uncertain request is in step
\* with its worker: the transition it holds is the worker's present state.
InStepUnlessTold ==
    (told = {} /\ env.current /\ waiting = {} /\ ~faulted /\ episode # 0)
        => env.cursor = Cursor

\* The advice of the guard, "Replay the uncertain request or reconcile"
\* (src/qudgym/env.py:20): an uncertain environment can do one of the two.
UncertainHasAWayOut ==
    (env.uncertain /\ waiting = {} /\ ~closed)
        => inflight # {} \/ (episode # 0 /\ ~faulted)

=============================================================================
