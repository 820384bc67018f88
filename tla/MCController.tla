---------------------------- MODULE MCController ----------------------------
(* TLC instance of Controller: a few calls, a cache of one reply, so that a  *)
(* single observation evicts the reply of a lost mutation.                   *)
EXTENDS Controller
=============================================================================
