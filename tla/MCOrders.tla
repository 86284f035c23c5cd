------------------------------ MODULE MCOrders ------------------------------
(***************************************************************************)
(* OrderLifecycle, PositionSync and Bars on small instances.  They share   *)
(* no state of the program: orders, positions and bars are tables of their *)
(* own, the lists in Redis are different keys, and whatever an order does  *)
(* to the account is among the changes PositionSync allows at any time.    *)
(* So each behaviour moves one of them, and the state spaces add up.       *)
(***************************************************************************)
EXTENDS OrderLifecycle, Collector

CONSTANTS
  second,  \* one of the orders
  Tickets, MaxList, MaxSyncFaults, MaxSyncCrashes,
  LastSlot, MaxHeard, Bucket, MaxSeeds, MaxBarFaults

VARIABLES
  moving,      \* the component this behaviour moves
  account, unopened, delayed, list, sync, position, swapped, syncBudget,
  now, heard, builder, flush, rows, fives, seed, seeds, faults

Sync == INSTANCE PositionSync
          WITH MaxFaults <- MaxSyncFaults, MaxCrashes <- MaxSyncCrashes,
               budget <- syncBudget

ASSUME SyncBounds == Sync!BoundsOK

Bar == INSTANCE Bars WITH MaxFaults <- MaxBarFaults

ASSUME BarBounds == Bar!BoundsOK

(* data/collector.py on every sequence of up to four ticks, two prices and *)
(* four times, in and out of order.                                        *)
Ticks == [ts : 0..3, last : {1, 2}, volume : {1}]
ASSUME CollectorKeepsItsPromises ==
  \A n \in 0..4 : \A ticks \in [1..n -> Ticks] :
    /\ \A size \in {1, 2} : OrderedTicksMakeBars(ticks, size)
    /\ NoVolumeIsLost(ticks, 2)
    /\ \A t \in 0..4 : ResamplingCommutes(ticks, 1, 2, t)

syncVars == <<account, unopened, delayed, list, sync, position, swapped, syncBudget>>
barVars  == <<now, heard, builder, flush, rows, fives, seed, seeds, faults>>
allVars  == <<moving, vars, syncVars, barVars>>

MCInit ==
  /\ moving \in {"alone", "edited", "failing", "positions", "bars"}
  /\ Init /\ Sync!Init /\ Bar!Init

(* One order with all edits, faults and crashes; two of them with one edit *)
(* and one crash; two with one fault and one crash.                        *)
InBounds ==
  \/ moving = "alone" /\ request[second] = "new"
  \/ /\ moving = "edited"
     /\ budget.edits >= MaxEdits - 1 /\ budget.faults = MaxFaults
     /\ budget.crashes >= MaxCrashes - 1
  \/ /\ moving = "failing"
     /\ budget.edits = MaxEdits /\ budget.faults >= MaxFaults - 1
     /\ budget.crashes >= MaxCrashes - 1

OrdersStep    == UNCHANGED <<moving, syncVars, barVars>> /\ Next /\ InBounds'
PositionsStep == moving = "positions" /\ Sync!Next /\ UNCHANGED <<moving, vars, barVars>>
BarsStep      == moving = "bars" /\ Bar!Next /\ UNCHANGED <<moving, vars, syncVars>>

SnapshotSent    == moving = "positions" /\ Sync!SendSnapshot
SyncWorks       == moving = "positions" /\ Sync!Worker
DelayedReceived == moving = "positions" /\ \E s \in delayed : Sync!DelayedArrives(s)

(* Fairness and Sync!Fairness, the latter only where positions move; the   *)
(* fair actions of OrderLifecycle are disabled until orders move.          *)
MCSpec ==
  /\ MCInit /\ [][OrdersStep \/ PositionsStep \/ BarsStep]_allVars
  /\ Fairness
  /\ WF_syncVars(SnapshotSent) /\ WF_syncVars(SyncWorks) /\ WF_syncVars(DelayedReceived)

TypesOK           == TypeOK /\ Sync!TypeOK /\ Bar!TypeOK
ClosedStaysClosed == Sync!ClosedStaysClosed
SyncConverges     == Sync!SyncConverges
BarsAreReal       == Bar!BarsAreReal
=============================================================================
