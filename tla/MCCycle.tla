------------------------------ MODULE MCCycle ------------------------------
(***************************************************************************)
(* The decision cycle, the LLM gateway and the anchors of the lineage      *)
(* chain on small instances.  They share no state (what the cycle sees of  *)
(* an anchor is whether write_lineage raises), so each behaviour moves one *)
(* of them.                                                                *)
(***************************************************************************)
EXTENDS DecisionCycle, Sequences

CONSTANTS
  Calls, Models, Providers, Provider, Alternates, Degraded, Production,
  MaxConcurrent, RateLimit, Threshold, MaxHops, DailyBudget, Cost, MaxMinutes,
  Writers, Places, EveryRows, EveryTicks, MaxPassed, MaxTrouble,
  first, second   \* the cycles

VARIABLES
  moving,  \* the component this behaviour moves
  call, original, model, hops, current, recent, circuit, spent, usage, minutes,
  local, rows, stamped, txn, anchors, state, worm, passed, trouble

Gateway == INSTANCE LlmGateway WITH pc <- call
Anchors == INSTANCE Anchoring
             WITH MaxTicks <- MaxPassed, MaxFaults <- MaxTrouble,
                  minutes <- passed, faults <- trouble

ASSUME OtherBounds == Gateway!BoundsOK /\ Anchors!BoundsOK

-----------------------------------------------------------------------------
(* Values of the constants                                                 *)

OneWorkflow == [c \in Cycles |-> "w"]

(* A loss of 2% of 100 at a stop of 2 pips is one lot, 20% of the equity;  *)
(* the limits leave room for one and a half.                               *)
Book == [equity |-> 100, entry |-> 20, atr |-> 1, atrMultiplier |-> 2, pipValue |-> 1,
         risk |-> 20, minVolume |-> 10, maxVolume |-> 5000, total |-> 0, correlated |-> 0,
         isCorrelated |-> TRUE, dailyPnl |-> 0, positions |-> 0, strategy |-> 0,
         killSwitch |-> FALSE]
SmallBook  == [Book EXCEPT !.atr = 20, !.minVolume = 100]
NoEquity   == [Book EXCEPT !.equity = 0]
ThreeBooks == {Book, SmallBook, NoEquity}

Risk == [perTrade |-> 300, total |-> 500, correlated |-> 400, dailyLoss |-> 30,
         positions |-> 10, strategy |-> {600}]

Policy == [k \in {<<"calm", "high">>, <<"trend", "high">>} |-> IF k[1] = "calm" THEN 5 ELSE 20]

ProviderOf   == [m \in Models |-> IF m = "kimi" THEN "b" ELSE "a"]
AlternatesOf == [m \in Models |-> IF m = "gpt" THEN <<"qwen", "kimi">> ELSE <<>>]
DegradedOf   == [m \in Models |-> IF m = "kimi" THEN <<"gpt">> ELSE <<>>]

-----------------------------------------------------------------------------

gatewayVars == <<call, original, model, hops, current, recent, circuit, spent, usage, minutes>>
anchorVars == <<local, rows, stamped, txn, anchors, state, worm, passed, trouble>>
allVars == <<moving, vars, gatewayVars, anchorVars>>

MCInit ==
  /\ moving \in {"pair", "solo", "gateway", "anchors"}
  /\ Init
  /\ \A c \in Cycles : input[c] = Book \/ (moving = "solo" /\ c = first)
  /\ \A c \in Cycles :
       spend[c] = "under" \/ (moving = "solo" /\ c = first /\ input[c] = Book)
  /\ Gateway!Init
  /\ original \in [Calls -> IF moving = "gateway" THEN {"gpt", Gateway!Absent} ELSE {"gpt"}]
  /\ Anchors!Init
  /\ local \/ moving = "anchors"

(* One cycle with everything that may happen to it.  Two of them, on time, *)
(* with one book, one route and one fault; of two analysts that run        *)
(* together, let technical be the one that answers last.                   *)
InBounds ==
  \/ moving = "solo" /\ pc[second] = "idle"
  \/ /\ moving = "pair"
     /\ faults >= MaxFaults - 1
     /\ \A c \in Cycles :
          /\ left[c] = 3 /\ draft[c].multiplier = One
          /\ \A s \in Stages : task[c][s].route = 1
          /\ task[c]["technical"].at \in {"idle", "calling"}
             \/ task[c]["macro"].at \in {"done", "failed"}

(* The two cycles of the pair start alike: let the one that meets the one  *)
(* fault be the first.                                                     *)
FaultIsFirsts ==
  faults' = faults \/ (pc'[second] = pc[second] /\ task'[second] = task[second])

CycleStep ==
  /\ UNCHANGED <<moving, gatewayVars, anchorVars>>
  /\ Next /\ InBounds'
  /\ moving = "pair" => FaultIsFirsts

GatewayStep == moving = "gateway" /\ Gateway!Next /\ UNCHANGED <<moving, vars, anchorVars>>
AnchorsStep == moving = "anchors" /\ Anchors!Next /\ UNCHANGED <<moving, vars, gatewayVars>>

(* Every await of a cycle comes back, for the calls of the gateway and of  *)
(* the database time out; then the cycle takes a step.                     *)
SoloGoesOn ==
  moving = "solo" /\ GoesOn(first) /\ UNCHANGED <<moving, gatewayVars, anchorVars>>

MCSpec ==
  /\ MCInit /\ [][CycleStep \/ GatewayStep \/ AnchorsStep]_allVars
  /\ WF_allVars(SoloGoesOn)

-----------------------------------------------------------------------------

TypesOK            == TypeOK /\ Gateway!TypeOK /\ Anchors!TypeOK
PermitsAreReturned == Gateway!PermitsAreReturned
AnchorsHold        == Anchors!AnchorsHold

(* A cycle that began ends, whatever its stages do.  Cycles wait for       *)
(* nothing of each other, so the instance with one says it of all.         *)
CycleEnds ==
  (moving = "solo" /\ pc[first] # "idle") ~> (pc[first] \in Ended)
=============================================================================
