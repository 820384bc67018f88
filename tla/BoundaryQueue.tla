---------------------------- MODULE BoundaryQueue ----------------------------
(***************************************************************************)
(* The handoff between network threads and the engine's turn thread,       *)
(* bridge/QudGym.BridgeCore/BoundaryQueue.cs.  Every public method runs    *)
(* under the one lock `gate', so each is a single action.  A call the code *)
(* answers with an exception before it assigns anything (wrong thread,     *)
(* faulted, disposed, full queue, uncorrelated completion) leaves the      *)
(* state alone and is the action's guard.                                  *)
(*                                                                         *)
(* An element of Request is a PendingAction object: its RequestId and      *)
(* ActionId are carried along and never read by the queue.                 *)
(***************************************************************************)
EXTENDS Naturals, Sequences

CONSTANTS Request,      \* PendingAction objects the callers may submit
          Decision,     \* decision identifiers
          Thread,       \* managed threads that may call turn-thread operations
          Capacity,     \* the constructor's capacity
          NoRequest,    \* active == null
          NoThread,     \* turnThread == null
          NoDecision    \* ExpectedDecisionId of a request not submitted yet

ASSUME CapacityAssumption == Capacity \in Nat \ {0}
ASSUME NullsAssumption == /\ NoRequest \notin Request
                          /\ NoThread \notin Thread
                          /\ NoDecision \notin Decision

VARIABLES
    queue,        \* the FIFO of requests waiting for a boundary
    active,       \* the request whose input the engine holds
    turnThread,   \* the thread that called InitializeTurnThread first
    faulted,
    disposed,
    expected,     \* ExpectedDecisionId of each request
    cancelled,    \* requests whose CancellationToken has been signalled
    completion,   \* state of each request's TaskCompletionSource
    ticket,       \* history: position of each request in submission order
    issued,       \* history: number of submissions accepted
    lastBegun,    \* history: ticket of the latest request dispatched
    withdrawn     \* history: requests cancelled before they were dispatched

state == <<queue, active, turnThread, faulted, disposed, expected, cancelled,
           completion>>
history == <<ticket, issued, lastBegun, withdrawn>>
vars == <<state, history>>

Refusal == {"canceled", "stale_decision", "worker_faulted"}
Answer == Refusal \cup {"result", "error", "disposed"}

Queued == {queue[i] : i \in DOMAIN queue}
Outstanding == Queued \cup ({active} \ {NoRequest})

Init == /\ queue = <<>>
        /\ active = NoRequest
        /\ turnThread = NoThread
        /\ faulted = FALSE
        /\ disposed = FALSE
        /\ expected = [r \in Request |-> NoDecision]
        /\ cancelled = {}
        /\ completion = [r \in Request |-> "unsubmitted"]
        /\ ticket = [r \in Request |-> 0]
        /\ issued = 0
        /\ lastBegun = 0
        /\ withdrawn = {}

-----------------------------------------------------------------------------
(* Helpers shared by the operations.  A definition whose comment begins     *)
(* with "Mutant" is a plausible bug the checks must catch; nothing uses it. *)

Usable == ~disposed /\ ~faulted                         \* EnsureUsable
OnTurnThread(t) == turnThread = t                       \* EnsureTurnThread
IsActive(r) == Usable /\ active = r                     \* EnsureActive

\* Mutant: the request in flight does not count against the capacity.
RoomBesideActive == Len(queue) < Capacity

HasRoom == Len(queue) + (IF active = NoRequest THEN 0 ELSE 1) < Capacity

\* Mutant: the slot of a new request is filled before the request exists.
EnqueuedNull(r) == Append(queue, NoRequest)

\* Mutant: a new request overtakes the ones that wait.
EnqueuedFirst(r) == <<r>> \o queue

Enqueued(r) == Append(queue, r)

\* TaskCompletionSource.TrySet*: the first answer stands, later ones are lost.
TrySet(S, answer) ==
    [r \in Request |-> IF r \in S /\ completion[r] = "pending"
                       THEN answer[r] ELSE completion[r]]

\* The first n requests, which the dequeuing loop takes off one by one.
Dequeued(n) == {queue[i] : i \in 1 .. n}

Behind(n) == SubSeq(queue, n + 1, Len(queue))

\* What the loop tells a request it takes off without dispatching it.
TurnedAway == [r \in Request |-> IF r \in cancelled THEN "canceled"
                                                    ELSE "stale_decision"]

\* Mutant: the loop compares the decision but never asks for cancellation.
DispatchableIfCurrent(r, d) == expected[r] = d

Dispatchable(r, d) == r \notin cancelled /\ expected[r] = d

Everyone(answer) == [r \in Request |-> answer]

-----------------------------------------------------------------------------
(* Operations.                                                             *)

\* Submit: a caller's new request joins the tail while there is room.
Submit(r, d) ==
    /\ Usable
    /\ HasRoom
    /\ completion[r] = "unsubmitted"
    /\ queue' = Enqueued(r)
    /\ expected' = [expected EXCEPT ![r] = d]
    /\ completion' = [completion EXCEPT ![r] = "pending"]
    /\ issued' = issued + 1
    /\ ticket' = [ticket EXCEPT ![r] = issued + 1]
    /\ UNCHANGED <<active, turnThread, faulted, disposed, cancelled, lastBegun,
                   withdrawn>>

\* The caller signals the token, at any time and without the lock.
Cancel(r) ==
    /\ cancelled' = cancelled \cup {r}
    /\ withdrawn' = IF r \in Queued \/ completion[r] = "unsubmitted"
                    THEN withdrawn \cup {r} ELSE withdrawn
    /\ UNCHANGED <<queue, active, turnThread, faulted, disposed, expected,
                   completion, ticket, issued, lastBegun>>

\* InitializeTurnThread: the first caller becomes the turn thread for good.
InitializeTurnThread(t) ==
    /\ Usable
    /\ turnThread = NoThread
    /\ turnThread' = t
    /\ UNCHANGED <<queue, active, faulted, disposed, expected, cancelled,
                   completion, history>>

\* TryBeginOnTurnThread, true: requests ahead of the n-th are turned away and
\* the n-th is handed over.
TryBeginDispatch(t, d, n) ==
    /\ OnTurnThread(t) /\ Usable
    /\ active = NoRequest
    /\ n \in DOMAIN queue
    /\ Dispatchable(queue[n], d)
    /\ \A i \in 1 .. n - 1 : ~Dispatchable(queue[i], d)
    /\ active' = queue[n]
    /\ queue' = Behind(n)
    /\ completion' = TrySet(Dequeued(n - 1), TurnedAway)
    /\ lastBegun' = ticket[queue[n]]
    /\ UNCHANGED <<turnThread, faulted, disposed, expected, cancelled, ticket,
                   issued, withdrawn>>

\* TryBeginOnTurnThread, false: the loop empties the queue and dispatches none.
TryBeginDrain(t, d) ==
    /\ OnTurnThread(t) /\ Usable
    /\ active = NoRequest
    /\ queue # <<>>
    /\ \A i \in DOMAIN queue : ~Dispatchable(queue[i], d)
    /\ queue' = <<>>
    /\ completion' = TrySet(Queued, TurnedAway)
    /\ UNCHANGED <<active, turnThread, faulted, disposed, expected, cancelled,
                   history>>

\* Mutant: a premature frame, still at the decision acted upon, is accepted.
AnyBoundary(r, d) == TRUE

NewBoundary(r, d) == d # expected[r]

\* CompleteOnTurnThread: a later cancellation does not undo the dispatch.
Complete(t, r, d) ==
    /\ OnTurnThread(t) /\ IsActive(r)
    /\ NewBoundary(r, d)
    /\ active' = NoRequest
    /\ completion' = TrySet({r}, Everyone("result"))
    /\ UNCHANGED <<queue, turnThread, faulted, disposed, expected, cancelled,
                   history>>

\* Mutant: a fault answers the waiting requests and leaves them queued.
QueueKeptOnFault == queue

QueueOnFault == <<>>

\* Mutant: the engine's error is passed on to those who never were dispatched.
FaultAnswersAlike(r) == Everyone("error")

\* Mutant: the dispatched request is told it was refused like the others.
FaultAnswersRefuse(r) == Everyone("worker_faulted")

FaultAnswers(r) == [Everyone("worker_faulted") EXCEPT ![r] = "error"]

\* FailAfterDispatchOnTurnThread: nothing queued outlives the fault.
FailAfterDispatch(t, r) ==
    /\ OnTurnThread(t) /\ IsActive(r)
    /\ active' = NoRequest
    /\ faulted' = TRUE
    /\ completion' = TrySet(Outstanding, FaultAnswers(r))
    /\ queue' = QueueOnFault
    /\ UNCHANGED <<turnThread, disposed, expected, cancelled, history>>

\* ReconcileOnTurnThread.  The confirmed frame is checked for null only.
Reconcile(t) ==
    /\ OnTurnThread(t)
    /\ ~disposed
    /\ active = NoRequest
    /\ faulted' = FALSE
    /\ UNCHANGED <<queue, active, turnThread, disposed, expected, cancelled,
                   completion, history>>

\* Mutant: Dispose forgets the request the engine still holds.
AnsweredOnDisposeQueued == Queued

AnsweredOnDispose == Outstanding

\* Dispose, from any thread; a second call returns at once.
Dispose ==
    /\ ~disposed
    /\ disposed' = TRUE
    /\ active' = NoRequest
    /\ queue' = <<>>
    /\ completion' = TrySet(AnsweredOnDispose, Everyone("disposed"))
    /\ UNCHANGED <<turnThread, faulted, expected, cancelled, history>>

TryBegin(t, d) == TryBeginDrain(t, d) \/ \E n \in 1 .. Capacity : TryBeginDispatch(t, d, n)

Finish(t) == \E r \in Request : \/ \E d \in Decision : Complete(t, r, d)
                                \/ FailAfterDispatch(t, r)

Next == \/ \E r \in Request, d \in Decision : Submit(r, d)
        \/ \E r \in Request : Cancel(r)
        \/ \E t \in Thread : InitializeTurnThread(t)
        \/ \E t \in Thread, d \in Decision : TryBegin(t, d)
        \/ \E t \in Thread, r \in Request, d \in Decision : Complete(t, r, d)
        \/ \E t \in Thread, r \in Request : FailAfterDispatch(t, r)
        \/ \E t \in Thread : Reconcile(t)
        \/ Dispose

Spec == Init /\ [][Next]_vars

\* The thread that binds the queue is the engine's: it offers the queue a
\* boundary again and again, and every dispatched input ends in a frame or in
\* an error.  Callers, cancellation, reconciliation and disposal owe nothing.
Fairness == /\ WF_vars(\E t \in Thread : InitializeTurnThread(t))
            /\ \A t \in Thread : /\ WF_vars(\E d \in Decision : TryBegin(t, d))
                                 /\ WF_vars(Finish(t))

FairSpec == Spec /\ Fairness

-----------------------------------------------------------------------------
(* Properties.                                                             *)

\* Every variable keeps its type; the queue holds requests.
TypeOK ==
    /\ queue \in Seq(Request)
    /\ active \in Request \cup {NoRequest}
    /\ turnThread \in Thread \cup {NoThread}
    /\ faulted \in BOOLEAN
    /\ disposed \in BOOLEAN
    /\ expected \in [Request -> Decision \cup {NoDecision}]
    /\ cancelled \in SUBSET Request
    /\ completion \in [Request -> Answer \cup {"unsubmitted", "pending"}]
    /\ ticket \in [Request -> Nat]
    /\ issued \in Nat
    /\ lastBegun \in Nat
    /\ withdrawn \in SUBSET Request

\* No caller waits on a request the queue has lost, and no answer is thrown
\* away: a task is incomplete exactly while its request is queued or active.
NoLostWaiter == \A r \in Request : completion[r] = "pending" <=> r \in Outstanding

\* A request is in one place only: never queued twice, never queued and active.
OnePlace ==
    /\ \A i, j \in DOMAIN queue : queue[i] = queue[j] => i = j
    /\ active \notin Queued

\* The requests waiting and in flight never exceed the constructor's capacity.
WithinCapacity == Len(queue) + (IF active = NoRequest THEN 0 ELSE 1) <= Capacity

\* A faulted or disposed queue holds nothing, so nothing that was waiting when
\* the fault hit can be dispatched after a reconciliation.
NothingOutlivesFault ==
    faulted \/ disposed => queue = <<>> /\ active = NoRequest

\* A request cancelled before its dispatch never reaches the engine, whatever
\* happened in between; one cancelled later keeps its true outcome.
CancelBeforeDispatchHolds ==
    \A r \in withdrawn : active # r /\ completion[r] \notin {"result", "error"}

\* Requests are dispatched in the order in which their submissions returned.
DispatchInOrder ==
    [][lastBegun' # lastBegun => lastBegun' > lastBegun]_vars

\* Every accepted request is answered in the end: by a frame, by a refusal, or
\* by the fault or the disposal that emptied the queue.
EveryRequestAnswered ==
    \A r \in Request : completion[r] = "pending" ~> completion[r] \in Answer

\* The phase of request r, whose task is in state c, when the engine holds a.
PhaseOf(c, a, r) ==
    CASE c = "unsubmitted" -> "new"
      [] c = "pending" -> IF a = r THEN "engine" ELSE "waiting"
      [] c \in Refusal -> "refused"
      [] c = "disposed" -> "abandoned"
      [] c \in {"result", "error"} -> "answered"

Phase == [r \in Request |-> PhaseOf(completion[r], active, r)]

Promise == INSTANCE DecisionHandoff WITH phase <- Phase, closed <- disposed

\* The queue keeps the promise of DecisionHandoff: a refused request never was
\* with the engine, at most one is, and each is answered exactly once.
KeepsPromise == Promise!Spec
=============================================================================
