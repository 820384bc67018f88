---------------------------- MODULE MCRpcService ----------------------------
(* TLC instance of RpcService: more identifiers than the cache holds.        *)
EXTENDS RpcService, TLC

Symmetry == Permutations(RequestId)
=============================================================================
