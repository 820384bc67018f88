------------------------------ MODULE TurnLoop ------------------------------
(***************************************************************************)
(* The boundary queue between its callers and an engine.  The queue is     *)
(* BoundaryQueue; the engine and its adapter are not part of the           *)
(* repository and follow the contract in the class comment of              *)
(* BoundaryQueue.cs (lines 40-46).  The engine waits at one decision at a  *)
(* time and leaves it by executing an input.  The adapter's callbacks may  *)
(* come early, before the input was executed: the queue itself has to      *)
(* refuse them.                                                            *)
(***************************************************************************)
EXTENDS BoundaryQueue

CONSTANT LastDecision      \* bound on the decisions the engine reaches

ASSUME DecisionsAreNumbered == LastDecision \in Nat \ {0}
                               /\ Decision = 1 .. LastDecision

VARIABLES
    boundary,    \* the decision at which the engine waits
    input,       \* the request whose input the engine has not executed yet
    appliedAt    \* the decision at which each request was executed, or 0

loopVars == <<boundary, input, appliedAt>>

LoopInit == /\ Init
            /\ boundary = 1
            /\ input = NoRequest
            /\ appliedAt = [r \in Request |-> 0]

\* A caller acts on a decision it has seen in some frame.
ClientSubmits(r) == /\ \E d \in 1 .. boundary : Submit(r, d)
                    /\ UNCHANGED loopVars

ClientCancels(r) == Cancel(r) /\ UNCHANGED loopVars

AdapterBinds(t) == InitializeTurnThread(t) /\ UNCHANGED loopVars

\* The adapter offers the decision the engine waits at; what the queue hands
\* over is passed on as the engine's next input.
AdapterOffers(t) ==
    /\ TryBegin(t, boundary)
    /\ input' = IF active' = NoRequest THEN input ELSE active'
    /\ UNCHANGED <<boundary, appliedAt>>

EngineExecutes ==
    /\ input # NoRequest
    /\ boundary < LastDecision
    /\ appliedAt' = [appliedAt EXCEPT ![input] = boundary]
    /\ boundary' = boundary + 1
    /\ input' = NoRequest
    /\ UNCHANGED vars

\* A callback of the engine, perhaps too early, taken for the next boundary.
AdapterReports(t) == \E r \in Request : /\ Complete(t, r, boundary)
                                        /\ UNCHANGED loopVars

\* The adapter loses track of the input, executed or not.
AdapterFails(t) == \E r \in Request : /\ FailAfterDispatch(t, r)
                                      /\ UNCHANGED loopVars

\* The adapter confirms where the engine is: no input is left over.
AdapterReconciles(t) == /\ Reconcile(t)
                        /\ input' = NoRequest
                        /\ UNCHANGED <<boundary, appliedAt>>

HostDisposes == Dispose /\ UNCHANGED loopVars

LoopNext == \/ \E r \in Request : ClientSubmits(r) \/ ClientCancels(r)
            \/ \E t \in Thread : \/ AdapterBinds(t) \/ AdapterOffers(t)
                                 \/ AdapterReports(t) \/ AdapterFails(t)
                                 \/ AdapterReconciles(t)
            \/ EngineExecutes
            \/ HostDisposes

LoopSpec == LoopInit /\ [][LoopNext]_<<vars, loopVars>>

-----------------------------------------------------------------------------
\* Every variable of the composition keeps its type.
LoopTypeOK == /\ TypeOK
              /\ boundary \in Decision
              /\ input \in Request \cup {NoRequest}
              /\ appliedAt \in [Request -> 0 .. LastDecision]

\* A caller told that its request was refused may submit it again: its input
\* neither has reached the game nor ever will.
RefusedNeverApplied ==
    \A r \in Request : completion[r] \in Refusal => appliedAt[r] = 0 /\ input # r

\* A frame is returned only for an input the engine has executed, however early
\* the adapter reports; and whatever the caller is told, an input only ever acts
\* at the decision it was chosen for, never at one the caller had not seen.
ResultMeansApplied ==
    \A r \in Request : /\ completion[r] = "result" => appliedAt[r] # 0
                       /\ appliedAt[r] # 0 => appliedAt[r] = expected[r]
=============================================================================
