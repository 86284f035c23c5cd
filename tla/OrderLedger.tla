----------------------------- MODULE OrderLedger -----------------------------
(***************************************************************************)
(* What the execution path promises to the rest of the fund, without       *)
(* Redis, coroutines or a terminal: orders are submitted, executed and     *)
(* settled.  Dispatch implements it.                                       *)
(***************************************************************************)
EXTENDS Naturals, Sequences

CONSTANTS Lineages, Attempts

VARIABLES
  submitted,  \* [lineage, attempt] -> how often the command was pushed
  executed,   \* the broker's deals: which push each one executed
  outcome,    \* lineage -> the result on record, or "none"
  voided      \* order attempts whose submission window was given up

vars == <<submitted, executed, outcome, voided>>

Keys == Lineages \X Attempts

Init ==
  /\ submitted = [k \in Keys |-> 0]
  /\ executed  = <<>>
  /\ outcome   = [l \in Lineages |-> "none"]
  /\ voided    = {}

(* An order attempt is pushed once, and again only after its window was    *)
(* given up.                                                               *)
Submit(k) ==
  /\ submitted[k] = 0 \/ k \in voided
  /\ submitted' = [submitted EXCEPT ![k] = @ + 1]
  /\ UNCHANGED <<executed, outcome, voided>>

Void(k) ==
  /\ voided' = voided \cup {k}
  /\ UNCHANGED <<submitted, executed, outcome>>

(* The broker executes a push at most once, and nothing that was not       *)
(* pushed.                                                                 *)
Execute(k, n) ==
  /\ n \in 1..submitted[k]
  /\ \A i \in DOMAIN executed : executed[i] # <<k[1], k[2], n>>
  /\ executed' = Append(executed, <<k[1], k[2], n>>)
  /\ UNCHANGED <<submitted, outcome, voided>>

(* A decision is settled once, after it was submitted, and as filled only  *)
(* after the broker executed it.                                           *)
Settle(l, status) ==
  /\ outcome[l] = "none"
  /\ \E a \in Attempts : submitted[<<l, a>>] > 0
  /\ status = "filled" => \E i \in DOMAIN executed : executed[i][1] = l
  /\ outcome' = [outcome EXCEPT ![l] = status]
  /\ UNCHANGED <<submitted, executed, voided>>

Next ==
  \/ \E k \in Keys : Submit(k) \/ Void(k)
  \/ \E k \in Keys : \E n \in 1..submitted[k] : Execute(k, n)
  \/ \E l \in Lineages, status \in {"filled", "rejected"} : Settle(l, status)

Spec == Init /\ [][Next]_vars
=============================================================================
