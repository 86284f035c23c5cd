--------------------------- MODULE OrderLifecycle ---------------------------
(***************************************************************************)
(* Orders entered over REST: the handlers of api/routers/orders.py and the *)
(* bulk cancel of portfolio.py, MT5Bridge (trading/mt5_bridge.py), the     *)
(* Expert Advisor behind the HTTP proxy, the result handler and the deals  *)
(* worker of api/app.py.                                                   *)
(*                                                                         *)
(* A fill reaches the orders table on two paths: the result that the       *)
(* terminal publishes once, to whoever listens at that moment, and the     *)
(* history snapshot of deals that the terminal repeats every 30 s.  The    *)
(* result carries the ticket of the order and the snapshot the ticket of   *)
(* the deal, so the second path adds a row of its own (dealRows).          *)
(***************************************************************************)
EXTENDS Naturals, Sequences, FiniteSets

CONSTANTS
  Orders,          \* orders an operator enters
  ResultQueueMax,  \* RESULT_QUEUE_MAX of the Expert Advisor
  MaxSnapshots,    \* bound: deal snapshots waiting in mt5:deals
  MaxEdits,        \* bound: cancel, cancel-all and modify requests
  MaxFaults,       \* bound: calls that raise or lose their answer
  MaxCrashes       \* bound: restarts of the API process or of the terminal

ASSUME QueueHoldsOne == ResultQueueMax \in Nat \ {0}
ASSUME SnapshotsPositive == MaxSnapshots \in Nat \ {0}
ASSUME BoundsAreNaturals ==
  MaxEdits \in Nat /\ MaxFaults \in Nat /\ MaxCrashes \in Nat

VARIABLES
  row,        \* the orders table
  request,    \* per order: where its create_order handler stands
  editor,     \* the one cancel or modify request between its read and write
  commands,   \* mt5:commands, oldest first
  results,    \* g_resultQueue of the Expert Advisor
  placed,     \* orders the broker took but did not fill yet
  executed,   \* per order: how often the broker executed it
  listener,   \* the subscription of MT5Bridge; "down": no API process
  inbox,      \* messages the subscription holds
  handler,    \* the row _handle_order_fill has read, or nothing
  dealQueue,  \* mt5:deals
  batch,      \* the snapshot the deals worker has popped
  dealRows,   \* per deal: rows inserted for it
  \* history and bounds
  excused,    \* orders whose fill may be missing from their row
  budget

vars == <<row, request, editor, commands, results, placed, executed, listener,
          inbox, handler, dealQueue, batch, dealRows, excused, budget>>

tableVars    == <<row, request, editor>>
terminalVars == <<results, placed, executed>>
listenVars   == <<listener, inbox, handler>>
dealVars     == <<dealQueue, batch, dealRows>>

Statuses == {"absent", "pending", "filled", "cancelled"}
Prices   == {"asked", "amended", "fill"}
Kinds    == {"market", "resting"}
Rows     == [kind : Kinds, status : Statuses, price : Prices]
Outcomes == {"FILLED", "PLACED", "REJECTED", "ERROR"}
Messages == [order : Orders, status : Outcomes]
NoEdit   == [op |-> "none", seen |-> <<>>]

Spend(what) ==
  /\ budget[what] > 0
  /\ budget' = [budget EXCEPT ![what] = @ - 1]

Up == listener # "down"

Init ==
  /\ row       = [o \in Orders |->
                  [kind |-> "market", status |-> "absent", price |-> "asked"]]
  /\ request   = [o \in Orders |-> "new"]
  /\ editor    = NoEdit
  /\ commands  = <<>>
  /\ results   = <<>>
  /\ placed    = {}
  /\ executed  = [o \in Orders |-> 0]
  /\ listener  = "on"
  /\ inbox     = <<>>
  /\ handler   = <<>>
  /\ dealQueue = <<>>
  /\ batch     = {}
  /\ dealRows  = [o \in Orders |-> 0]
  /\ excused   = {}
  /\ budget    = [edits |-> MaxEdits, faults |-> MaxFaults, crashes |-> MaxCrashes]

-----------------------------------------------------------------------------
(* create_order *)

(* OrderRepository.create commits; only a market order goes on to the      *)
(* bridge, a limit or stop order is stored and never sent.                 *)
Create(o, kind) ==
  /\ Up
  /\ request[o] = "new"
  /\ row' = [row EXCEPT ![o].status = "pending", ![o].kind = kind]
  /\ request' = [request EXCEPT ![o] = IF kind = "market" THEN "push" ELSE "done"]
  /\ UNCHANGED <<editor, commands, terminalVars, listenVars, dealVars, excused,
                 budget>>

(* send_command: SET NX answers None, never False, for a key that exists,  *)
(* so nothing is ever refused; then LPUSH.                                 *)
Push(o) ==
  /\ request[o] = "push"
  /\ commands' = Append(commands, o)
  /\ request' = [request EXCEPT ![o] = "done"]
  /\ UNCHANGED <<row, editor, terminalVars, listenVars, dealVars, excused, budget>>

(* Bug variant of PushFails: the handler tries again.                      *)
PushRetries(o) ==
  /\ request[o] = "push"
  /\ Spend("faults")
  /\ commands' \in {commands, Append(commands, o)}
  /\ UNCHANGED <<tableVars, terminalVars, listenVars, dealVars, excused>>

(* A Redis call raises, with or without effect: swallowed, no second try.  *)
PushFails(o) ==
  /\ request[o] = "push"
  /\ Spend("faults")
  /\ commands' \in {commands, Append(commands, o)}
  /\ request' = [request EXCEPT ![o] = "done"]
  /\ UNCHANGED <<row, editor, terminalVars, listenVars, dealVars, excused>>

-----------------------------------------------------------------------------
(* cancel_order, cancel_all_orders, modify_order: each reads rows in its   *)
(* session and writes them back after further awaits.                      *)

(* A unit of work writes the attributes that differ from what it read.     *)
Flushed(current, seen, new) ==
  [c \in DOMAIN current |-> IF new[c] = seen[c] THEN current[c] ELSE new[c]]

Edit(op, targets) ==
  /\ Up
  /\ editor = NoEdit
  /\ targets # {}
  /\ Spend("edits")
  /\ editor' = [op |-> op, seen |-> [o \in targets |-> row[o]]]
  /\ UNCHANGED <<row, request, commands, terminalVars, listenVars, dealVars,
                 excused>>

(* cancel_order: no condition on the status.                               *)
ReadForCancel(o) == row[o].status # "absent" /\ Edit("cancel", {o})

(* modify: ValueError, answered with 409, unless the row read is pending.  *)
ReadForModify(o) == row[o].status = "pending" /\ Edit("modify", {o})

(* cancel_all_pending                                                      *)
ReadAllPending == Edit("cancel", {o \in Orders : row[o].status = "pending"})

Edited(r) == IF editor.op = "cancel" THEN [r EXCEPT !.status = "cancelled"]
                                     ELSE [r EXCEPT !.price = "amended"]

(* The commit.  Nothing is withdrawn from mt5:commands or the broker.      *)
WriteEdit ==
  LET targets == DOMAIN editor.seen
  IN /\ editor # NoEdit
     /\ row' = [o \in Orders |->
                  IF o \in targets
                  THEN Flushed(row[o], editor.seen[o], Edited(editor.seen[o]))
                  ELSE row[o]]
     /\ excused' = excused \cup
          {o \in targets : row[o].status = "filled" /\ row'[o].status # "filled"}
     /\ editor' = NoEdit
     /\ UNCHANGED <<request, commands, terminalVars, listenVars, dealVars, budget>>

-----------------------------------------------------------------------------
(* The Expert Advisor *)

(* Bug variant of QueueResult: the size is checked one result too late.    *)
QueueResultLate(m) ==
  results' = Append(IF Len(results) > ResultQueueMax THEN Tail(results) ELSE results, m)

(* QueueResult: a full queue drops its oldest result.                      *)
QueueResult(m) ==
  results' = Append(IF Len(results) >= ResultQueueMax THEN Tail(results) ELSE results, m)

DroppedByQueue ==
  IF Len(results) >= ResultQueueMax THEN {Head(results).order} ELSE {}

(* PollCommands, ProcessCommand and ExecuteOpen in one OnTimer: BRPOP,     *)
(* OrderSend, QueueResult.  OrderSend may report failure (a timeout, a     *)
(* lost connection) of a trade that went through.                          *)
Execute(outcome, trades) ==
  LET o == Head(commands)
  IN /\ commands # <<>>
     /\ trades = (outcome = "FILLED") \/ outcome = "ERROR"
     /\ commands' = Tail(commands)
     /\ executed' = IF trades THEN [executed EXCEPT ![o] = @ + 1] ELSE executed
     /\ placed' = IF outcome = "PLACED" THEN placed \cup {o} ELSE placed
     /\ QueueResult([order |-> o, status |-> outcome])
     /\ excused' = excused \cup DroppedByQueue
                     \cup (IF outcome = "FILLED" THEN {} ELSE {o})
     /\ UNCHANGED <<tableVars, listenVars, dealVars, budget>>

(* BRPOP took the command but the answer never reached the terminal.       *)
LoseCommand ==
  /\ commands # <<>>
  /\ Spend("faults")
  /\ commands' = Tail(commands)
  /\ UNCHANGED <<tableVars, terminalVars, listenVars, dealVars, excused>>

(* A PLACED order is filled later; no result is sent for that.             *)
PlacedFills(o) ==
  /\ o \in placed
  /\ placed' = placed \ {o}
  /\ executed' = [executed EXCEPT ![o] = @ + 1]
  /\ UNCHANGED <<tableVars, commands, results, listenVars, dealVars, excused, budget>>

(* PUBLISH reaches the subscription of the moment, or nobody.              *)
Publish(m) ==
  /\ inbox' = IF listener = "on" THEN Append(inbox, m) ELSE inbox
  /\ excused' = IF listener = "on" THEN excused ELSE excused \cup {m.order}
  /\ UNCHANGED <<listener, handler>>

(* FlushOneResult: the head leaves the queue when the proxy answers 200.   *)
FlushResult ==
  /\ results # <<>>
  /\ Publish(Head(results))
  /\ results' = Tail(results)
  /\ UNCHANGED <<tableVars, commands, placed, executed, dealVars, budget>>

(* Published, but the answer was lost: the same result is sent again.      *)
FlushUnanswered ==
  /\ results # <<>>
  /\ Spend("faults")
  /\ Publish(Head(results))
  /\ UNCHANGED <<tableVars, commands, terminalVars, dealVars>>

(* The queue is an array in memory.                                        *)
TerminalRestart ==
  /\ results # <<>>
  /\ Spend("crashes")
  /\ results' = <<>>
  /\ excused' = excused \cup {results[i].order : i \in DOMAIN results}
  /\ UNCHANGED <<tableVars, commands, placed, executed, listenVars, dealVars>>

-----------------------------------------------------------------------------
(* MT5Bridge.subscribe_results and _handle_order_fill *)

(* update_status reads the row of a FILLED result.                         *)
ReadResult ==
  /\ listener = "on"
  /\ inbox # <<>>
  /\ handler = <<>>
  /\ Head(inbox).status = "FILLED"
  /\ handler' = <<row[Head(inbox).order]>>
  /\ UNCHANGED <<tableVars, commands, terminalVars, listener, inbox, dealVars,
                 excused, budget>>

(* Bug variant of SkipResult: everything but a rejection counts as a fill. *)
SkipResultFillsPlaced ==
  /\ listener = "on"
  /\ inbox # <<>>
  /\ handler = <<>>
  /\ Head(inbox).status # "FILLED"
  /\ row' = IF Head(inbox).status = "REJECTED" THEN row
            ELSE [row EXCEPT ![Head(inbox).order].status = "filled"]
  /\ inbox' = Tail(inbox)
  /\ UNCHANGED <<request, editor, commands, terminalVars, listener, handler,
                 dealVars, excused, budget>>

(* Any other result changes nothing: PLACED and ERROR have no branch, and  *)
(* REJECTED raises AttributeError (result.error) into the bare except.     *)
SkipResult ==
  /\ listener = "on"
  /\ inbox # <<>>
  /\ handler = <<>>
  /\ Head(inbox).status # "FILLED"
  /\ inbox' = Tail(inbox)
  /\ UNCHANGED <<tableVars, commands, terminalVars, listener, handler, dealVars,
                 excused, budget>>

Filled(r) == [r EXCEPT !.status = "filled", !.price = "fill"]

(* Bug variant of CommitResult: only a pending row becomes filled.         *)
CommitResultIfPending ==
  LET o == Head(inbox).order
  IN /\ handler # <<>>
     /\ row' = IF handler[1].status = "pending"
               THEN [row EXCEPT ![o] = Filled(@)] ELSE row
     /\ inbox' = Tail(inbox)
     /\ handler' = <<>>
     /\ UNCHANGED <<request, editor, commands, terminalVars, listener, dealVars,
                    excused, budget>>

(* update_status commits "filled" whatever the status was.  It writes      *)
(* nothing over a row it read as filled and an operator has cancelled.     *)
CommitResult ==
  LET o == Head(inbox).order
  IN /\ handler # <<>>
     /\ row' = [row EXCEPT ![o] =
                  Flushed(@, handler[1], Filled(handler[1]))]
     /\ inbox' = Tail(inbox)
     /\ handler' = <<>>
     /\ UNCHANGED <<request, editor, commands, terminalVars, listener, dealVars,
                    excused, budget>>

(* The database raises: swallowed, the result is gone.                     *)
CommitFails ==
  /\ handler # <<>>
  /\ Spend("faults")
  /\ inbox' = Tail(inbox)
  /\ handler' = <<>>
  /\ excused' = excused \cup {Head(inbox).order}
  /\ UNCHANGED <<tableVars, commands, terminalVars, listener, dealVars>>

(* get_message raises outside the inner try: the task ends, and nobody     *)
(* starts it again in this process.                                        *)
ListenerDies ==
  /\ listener = "on"
  /\ handler = <<>>
  /\ Spend("faults")
  /\ listener' = "dead"
  /\ inbox' = <<>>
  /\ excused' = excused \cup {inbox[i].order : i \in DOMAIN inbox}
  /\ UNCHANGED <<tableVars, commands, terminalVars, handler, dealVars>>

-----------------------------------------------------------------------------
(* The deals snapshot *)

(* The deals of the account, named by the order behind them; the last 50   *)
(* of 30 days are in every snapshot.                                       *)
Deals == {o \in Orders : executed[o] > 0}

(* SendDealsSnapshot: nothing is sent when there is no deal.               *)
SendDeals ==
  /\ Deals # {}
  /\ Len(dealQueue) < MaxSnapshots
  /\ dealQueue' = Append(dealQueue, Deals)
  /\ UNCHANGED <<tableVars, commands, terminalVars, listenVars, batch,
                 dealRows, excused, budget>>

(* _deals_worker: BRPOP.                                                   *)
PopDeals ==
  /\ Up
  /\ batch = {}
  /\ dealQueue # <<>>
  /\ batch' = Head(dealQueue)
  /\ dealQueue' = Tail(dealQueue)
  /\ UNCHANGED <<tableVars, commands, terminalVars, listenVars, dealRows,
                 excused, budget>>

(* Bug variant of CommitDeals: the deal of an order that has a row is      *)
(* left to the result path.                                                *)
CommitForeignDeals ==
  /\ batch # {}
  /\ dealRows' = [d \in DOMAIN dealRows |->
                    IF d \in batch /\ dealRows[d] = 0 /\ row[d].status = "absent"
                    THEN 1 ELSE dealRows[d]]
  /\ batch' = {}
  /\ UNCHANGED <<tableVars, commands, terminalVars, listenVars, dealQueue, excused,
                 budget>>

(* A row for every deal whose ticket no row has yet, in one transaction.   *)
CommitDeals ==
  /\ batch # {}
  /\ dealRows' = [d \in DOMAIN dealRows |->
                    IF d \in batch /\ dealRows[d] = 0 THEN 1 ELSE dealRows[d]]
  /\ batch' = {}
  /\ UNCHANGED <<tableVars, commands, terminalVars, listenVars, dealQueue,
                 excused, budget>>

(* Anything raises: swallowed, and the popped batch is gone.               *)
DealsFail ==
  /\ batch # {}
  /\ Spend("faults")
  /\ batch' = {}
  /\ UNCHANGED <<tableVars, commands, terminalVars, listenVars, dealQueue,
                 dealRows, excused>>

-----------------------------------------------------------------------------
(* The API process ends: handlers, subscription and batch are gone.        *)
Crash ==
  /\ Up
  /\ Spend("crashes")
  /\ listener' = "down"
  /\ inbox' = <<>>
  /\ handler' = <<>>
  /\ batch' = {}
  /\ editor' = NoEdit
  /\ request' = [o \in Orders |-> IF request[o] = "push" THEN "done" ELSE request[o]]
  /\ excused' = excused \cup {inbox[i].order : i \in DOMAIN inbox}
  /\ UNCHANGED <<row, commands, terminalVars, dealQueue, dealRows>>

(* _lifespan starts the bridge and the deals worker.                       *)
Restart ==
  /\ listener = "down"
  /\ listener' = "on"
  /\ UNCHANGED <<tableVars, commands, terminalVars, inbox, handler, dealVars,
                 excused, budget>>

DealsWorker == PopDeals \/ CommitDeals

Next ==
  \/ \E o \in Orders :
       \/ \E kind \in Kinds : Create(o, kind)
       \/ Push(o) \/ PushFails(o)
       \/ ReadForCancel(o) \/ ReadForModify(o) \/ PlacedFills(o)
  \/ ReadAllPending \/ WriteEdit
  \/ \E outcome \in Outcomes, trades \in BOOLEAN : Execute(outcome, trades)
  \/ LoseCommand \/ FlushResult \/ FlushUnanswered \/ TerminalRestart
  \/ ReadResult \/ SkipResult \/ CommitResult \/ CommitFails \/ ListenerDies
  \/ SendDeals \/ DealsWorker \/ DealsFail
  \/ Crash \/ Restart

Spec == Init /\ [][Next]_vars

(* The terminal's timer sends the deals every 30 s, the event loop resumes *)
(* the deals worker, the container restarts a process that died.  Nothing  *)
(* is assumed of the result path.                                          *)
Fairness == WF_vars(SendDeals) /\ WF_vars(DealsWorker) /\ WF_vars(Restart)

-----------------------------------------------------------------------------
(* Properties *)

TypeOK ==
  /\ row \in [Orders -> Rows]
  /\ request \in [Orders -> {"new", "push", "done"}]
  /\ editor.op \in {"none", "cancel", "modify"}
  /\ DOMAIN editor.seen \subseteq Orders
  /\ \A o \in DOMAIN editor.seen : editor.seen[o] \in Rows
  /\ commands \in Seq(Orders)
  /\ results \in Seq(Messages)
  /\ Len(results) <= ResultQueueMax
  /\ placed \subseteq Orders
  /\ executed \in [Orders -> Nat]
  /\ listener \in {"on", "dead", "down"}
  /\ inbox \in Seq(Messages)
  /\ handler \in Seq(Rows)
  /\ dealQueue \in Seq(SUBSET Orders)
  /\ batch \subseteq Orders
  /\ dealRows \in [Orders -> Nat]
  /\ excused \subseteq Orders
  /\ budget \in [edits : 0..MaxEdits, faults : 0..MaxFaults, crashes : 0..MaxCrashes]

(* A row says filled only of an order the broker executed, whatever        *)
(* results are repeated, lost, rejected or overtaken by a cancel.          *)
NoPhantomFill ==
  \A o \in Orders : row[o].status = "filled" => executed[o] > 0

(* One REST order is executed at most once, and a resting order never,     *)
(* although a push may fail with effect and nothing checks the             *)
(* idempotency key.                                                        *)
OneExecution ==
  \A o \in Orders : executed[o] <= IF row[o].kind = "market" THEN 1 ELSE 0

FillOnItsWay(o) ==
  LET fill == [order |-> o, status |-> "FILLED"]
  IN \/ \E i \in DOMAIN results : results[i] = fill
     \/ \E i \in DOMAIN inbox : inbox[i] = fill

(* An order that was executed has a row that says so, or its FILLED result *)
(* is still on the way, or one of the known leaks took it: an outcome      *)
(* other than FILLED, a full or restarted terminal queue, a publication    *)
(* nobody heard, an error or crash of the handler, a cancel written over   *)
(* the fill.  In particular a cancel that came first does not hide it.     *)
FillAccounted ==
  \A o \in Orders : executed[o] > 0 =>
    row[o].status = "filled" \/ FillOnItsWay(o) \/ o \in excused

(* What the result path loses, the snapshots bring back: every execution   *)
(* eventually shows in the orders table.                                   *)
ExecutedIsVisible ==
  \A o \in Orders :
    executed[o] > 0 ~> row[o].status = "filled" \/ dealRows[o] > 0
=============================================================================
