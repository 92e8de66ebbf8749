---------------------------- MODULE MCRpcBridge ----------------------------
(* TLC instances of RpcBridge and of its refinement: the bounds are given by the .cfg files. *)
EXTENDS RpcRefinement
=============================================================================
