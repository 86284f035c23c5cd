----------------------------- MODULE MCRpcQueue -----------------------------
(* RpcQueue on small instances: values of the constants are in the cfg     *)
(* files.                                                                  *)
EXTENDS RpcQueue
=============================================================================
