---------------------------- MODULE MCAuditChain ----------------------------
(* AuditChain on small instances: values of the constants are in the cfg   *)
(* files.                                                                  *)
EXTENDS AuditChain, TLC

Symmetry == Permutations(Writers)
=============================================================================
