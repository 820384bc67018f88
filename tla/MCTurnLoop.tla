----------------------------- MODULE MCTurnLoop -----------------------------
(* TLC instance of TurnLoop: three requests, four decisions, room for two.   *)
EXTENDS TurnLoop, TLC

\* Decisions are ordered here; only requests are interchangeable.
Symmetry == Permutations(Request)
=============================================================================
