----------------------------- MODULE MCDispatch -----------------------------
(* Dispatch on small instances: values of the constants are in the cfg     *)
(* files.                                                                  *)
EXTENDS Dispatch, TLC

CONSTANTS MaxTrouble    \* bound: faults, expiries and foreign results together

Symmetry == Permutations(Lineages) \cup Permutations(Callers)

Trouble ==
  (MaxFaults - budget.faults) + (MaxExpiries - budget.expiries)
    + (MaxForeign - budget.foreign)

(* All that goes wrong in one behaviour is bounded in sum, too.            *)
MCSpec == Init /\ [][Next /\ Trouble' <= MaxTrouble]_vars
=============================================================================
