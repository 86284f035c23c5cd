---------------------------- MODULE PositionSync ----------------------------
(***************************************************************************)
(* The snapshot of open positions: SendPositionsSnapshot of the Expert     *)
(* Advisor, POST /positions of the proxy and PositionSyncWorker            *)
(* (trading/position_sync.py).  Only tickets matter here: a row is open or *)
(* closed, and the broker never uses a ticket again once it is closed.     *)
(***************************************************************************)
EXTENDS Naturals, Sequences, FiniteSets

CONSTANTS
  Tickets,     \* positions the account may have
  MaxList,     \* bound: snapshots waiting in mt5:positions
  MaxFaults,   \* bound: calls that raise, requests that arrive late
  MaxCrashes   \* bound: restarts of the API process

(* What the theorems assume of the constants; MCOrders has TLC check it.   *)
BoundsOK == MaxList \in Nat \ {0} /\ MaxFaults \in Nat /\ MaxCrashes \in Nat

VARIABLES
  account,   \* positions open at the broker
  unopened,  \* tickets the broker has not used yet
  delayed,   \* snapshots whose POST timed out at the terminal
  list,      \* mt5:positions, newest first
  sync,      \* the worker: step and the snapshot it works on
  position,  \* the positions table
  \* history and bounds
  swapped,   \* a delayed snapshot was pushed after a younger one
  budget

vars == <<account, unopened, delayed, list, sync, position, swapped, budget>>

Snapshots == SUBSET Tickets
At(pc, snapshot) == [pc |-> pc, snapshot |-> snapshot]

Spend(what) ==
  /\ budget[what] > 0
  /\ budget' = [budget EXCEPT ![what] = @ - 1]

Init ==
  /\ account  = {}
  /\ unopened = Tickets
  /\ delayed  = {}
  /\ list     = <<>>
  /\ sync     = At("idle", {})
  /\ position = [t \in Tickets |-> "none"]
  /\ swapped  = FALSE
  /\ budget   = [faults |-> MaxFaults, crashes |-> MaxCrashes]

-----------------------------------------------------------------------------
(* The account and the terminal *)

BrokerOpens(t) ==
  /\ t \in unopened
  /\ unopened' = unopened \ {t}
  /\ account' = account \cup {t}
  /\ UNCHANGED <<delayed, list, sync, position, swapped, budget>>

BrokerCloses(t) ==
  /\ t \in account
  /\ account' = account \ {t}
  /\ UNCHANGED <<unopened, delayed, list, sync, position, swapped, budget>>

(* SendPositionsSnapshot: sent whether or not there is a position.         *)
SendSnapshot ==
  /\ Len(list) < MaxList
  /\ list' = <<account>> \o list
  /\ UNCHANGED <<account, unopened, delayed, sync, position, swapped, budget>>

(* WebRequest gives up after 3 s and the terminal goes on; the proxy may   *)
(* still serve the request, now or after the next one.                     *)
SnapshotTimesOut ==
  /\ Spend("faults")
  /\ delayed' = delayed \cup {account}
  /\ UNCHANGED <<account, unopened, list, sync, position, swapped>>

DelayedArrives(s) ==
  /\ s \in delayed
  /\ Len(list) < MaxList
  /\ delayed' = delayed \ {s}
  /\ list' = <<s>> \o list
  /\ swapped' = TRUE
  /\ UNCHANGED <<account, unopened, sync, position, budget>>

-----------------------------------------------------------------------------
(* PositionSyncWorker._sync_once *)

(* LRANGE; index 0 is the newest.  _upsert_positions returns at once for   *)
(* an empty snapshot: the last position of an account is never closed.     *)
Read ==
  /\ sync.pc = "idle"
  /\ list # <<>>
  /\ sync' = At(IF Head(list) = {} THEN "delete" ELSE "upsert", Head(list))
  /\ UNCHANGED <<account, unopened, delayed, list, position, swapped, budget>>

(* Bug variant of Upsert: rows that left the snapshot stay open.           *)
UpsertOnly ==
  /\ sync.pc = "upsert"
  /\ position' = [t \in Tickets |->
                    IF t \in sync.snapshot THEN "open" ELSE position[t]]
  /\ sync' = [sync EXCEPT !.pc = "delete"]
  /\ UNCHANGED <<account, unopened, delayed, list, swapped, budget>>

(* One transaction: every ticket of the snapshot becomes an open row, and  *)
(* every other open row is closed.                                         *)
Upsert ==
  /\ sync.pc = "upsert"
  /\ position' = [t \in Tickets |->
                    IF t \in sync.snapshot THEN "open"
                    ELSE IF position[t] = "open" THEN "closed" ELSE position[t]]
  /\ sync' = [sync EXCEPT !.pc = "delete"]
  /\ UNCHANGED <<account, unopened, delayed, list, swapped, budget>>

(* Bug variant of Delete: LPOP of the snapshot that was read.              *)
DeleteNewest ==
  /\ sync.pc = "delete"
  /\ list' = Tail(list)
  /\ sync' = At("idle", {})
  /\ UNCHANGED <<account, unopened, delayed, position, swapped, budget>>

(* DEL: also what was pushed since LRANGE.                                 *)
Delete ==
  /\ sync.pc = "delete"
  /\ list' = <<>>
  /\ sync' = At("idle", {})
  /\ UNCHANGED <<account, unopened, delayed, position, swapped, budget>>

(* The database or Redis raises: logged, and the list stays for the next   *)
(* cycle.                                                                  *)
CycleFails ==
  /\ sync.pc # "idle"
  /\ Spend("faults")
  /\ sync' = At("idle", {})
  /\ UNCHANGED <<account, unopened, delayed, list, position, swapped>>

(* The process restarts: start() begins a new cycle.                       *)
Crash ==
  /\ sync.pc # "idle"
  /\ Spend("crashes")
  /\ sync' = At("idle", {})
  /\ UNCHANGED <<account, unopened, delayed, list, position, swapped>>

Worker == Read \/ Upsert \/ Delete

Next ==
  \/ \E t \in Tickets : BrokerOpens(t) \/ BrokerCloses(t)
  \/ SendSnapshot \/ SnapshotTimesOut \/ \E s \in delayed : DelayedArrives(s)
  \/ Worker \/ CycleFails \/ Crash

Spec == Init /\ [][Next]_vars

(* The terminal sends every 10 s and the worker's loop survives every      *)
(* exception; a request that reached the proxy is served.                  *)
Fairness ==
  /\ WF_vars(SendSnapshot)
  /\ WF_vars(Worker)
  /\ WF_vars(\E s \in delayed : DelayedArrives(s))

-----------------------------------------------------------------------------
(* Properties *)

TypeOK ==
  /\ account \subseteq Tickets
  /\ unopened \subseteq Tickets \ account
  /\ delayed \subseteq Snapshots
  /\ list \in Seq(Snapshots)
  /\ Len(list) <= MaxList
  /\ sync \in [pc : {"idle", "upsert", "delete"}, snapshot : Snapshots]
  /\ position \in [Tickets -> {"none", "open", "closed"}]
  /\ swapped \in BOOLEAN
  /\ budget \in [faults : 0..MaxFaults, crashes : 0..MaxCrashes]

(* A row that was closed is opened again only for a position that is open, *)
(* unless a delayed snapshot overtook a younger one: snapshots that the    *)
(* DEL drops unread, failed cycles and restarts never revive a position.   *)
ClosedStaysClosed ==
  [][\A t \in Tickets :
       position[t] = "closed" /\ position'[t] = "open" => swapped]_vars

OpenRows == {t \in Tickets : position[t] = "open"}

(* Lost, repeated and delayed snapshots heal: once the account is quiet    *)
(* the table agrees with it, unless the account is empty.                  *)
SyncConverges == <>[](account = {} \/ OpenRows = account)
=============================================================================
