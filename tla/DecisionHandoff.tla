--------------------------- MODULE DecisionHandoff ---------------------------
(***************************************************************************)
(* What the boundary queue promises its callers, without queue, threads or *)
(* flags: a request that was accepted is turned away without an effect, or *)
(* is handed to the engine, alone, and then gets the engine's answer.      *)
(* Once the handoff has been closed nothing moves any more.                *)
(***************************************************************************)
CONSTANT Request

VARIABLES phase,     \* the life of each request
          closed     \* the handoff was disposed of

vars == <<phase, closed>>

InPhase(p) == {r \in Request : phase[r] = p}

Init == /\ phase = [r \in Request |-> "new"]
        /\ closed = FALSE

Move(S, p) == [r \in Request |-> IF r \in S THEN p ELSE phase[r]]

Accept(r) ==
    /\ ~closed
    /\ phase[r] = "new"
    /\ phase' = Move({r}, "waiting")
    /\ UNCHANGED closed

\* Some waiting requests are turned away for good: they never had an effect.
TurnAway(S) ==
    /\ ~closed
    /\ S \subseteq InPhase("waiting")
    /\ phase' = Move(S, "refused")
    /\ UNCHANGED closed

\* One request is handed over while the engine holds none; those that were
\* found unfit on the way are turned away.
HandOver(r, S) ==
    /\ ~closed
    /\ InPhase("engine") = {}
    /\ phase[r] = "waiting"
    /\ S \subseteq InPhase("waiting") \ {r}
    /\ phase' = [Move(S, "refused") EXCEPT ![r] = "engine"]
    /\ UNCHANGED closed

\* The engine's answer; everything that still waits may be turned away with it.
Answer(r, S) ==
    /\ ~closed
    /\ phase[r] = "engine"
    /\ S \in {{}, InPhase("waiting")}
    /\ phase' = [Move(S, "refused") EXCEPT ![r] = "answered"]
    /\ UNCHANGED closed

\* Closing answers every waiting caller, and the one whose input is with the
\* engine, without a word on what the input did.
Close ==
    /\ ~closed
    /\ closed' = TRUE
    /\ phase' = Move(InPhase("waiting") \cup InPhase("engine"), "abandoned")

Next == \/ \E r \in Request : Accept(r)
        \/ \E S \in SUBSET Request : TurnAway(S)
        \/ \E r \in Request, S \in SUBSET Request : HandOver(r, S) \/ Answer(r, S)
        \/ Close

Spec == Init /\ [][Next]_vars
=============================================================================
