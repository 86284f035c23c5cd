------------------------ MODULE OrderLifecycle_proofs ------------------------
(***************************************************************************)
(* Safety of orders entered over REST, for any number of orders, edits,    *)
(* faults and crashes.                                                     *)
(*                                                                         *)
(* Whatever says FILLED was made when the broker executed the order and    *)
(* executions are never undone, so no row can say it of another one.  An   *)
(* order is in one place at a time: before its push, in the command list,  *)
(* resting with the broker, or executed.                                   *)
(* And its result moves from one list to the next until the row says so,   *)
(* unless one of the leaks the model names takes it.                       *)
(***************************************************************************)
EXTENDS OrderLifecycle, TLAPS, SequenceTheorems

(* A FILLED result in the list s stands for an execution.                  *)
Witness(s, count) ==
  \A i \in 1..Len(s) : s[i].status = "FILLED" => count[s[i].order] > 0

(* So does every result under way, and the row a handler has read belongs  *)
(* to the first result of the subscription.                                *)
FillInv ==
  /\ Witness(results, executed)
  /\ Witness(inbox, executed)
  /\ handler # <<>> => inbox # <<>> /\ Head(inbox).status = "FILLED"

(* The handler of an order has not tried to push it.                       *)
Waits(stage) == stage \in {"new", "push"}

(* Where an order is.                                                      *)
PlaceInv ==
  /\ \A i, j \in 1..Len(commands) : commands[i] = commands[j] => i = j
  /\ \A i \in 1..Len(commands) :
       /\ ~Waits(request[commands[i]]) /\ executed[commands[i]] = 0
       /\ commands[i] \notin placed /\ row[commands[i]].kind = "market"
  /\ \A o \in Orders :
       /\ Waits(request[o]) => executed[o] = 0 /\ o \notin placed
       /\ request[o] = "push" => row[o].kind = "market"
       /\ o \in placed => executed[o] = 0 /\ row[o].kind = "market"

IInv == TypeOK /\ FillInv /\ NoPhantomFill /\ PlaceInv /\ OneExecution

-----------------------------------------------------------------------------
(* Types *)

LEMMA SpendType ==
  ASSUME TypeOK, NEW what \in {"edits", "faults", "crashes"}, Spend(what)
  PROVE  budget' \in [edits : 0..MaxEdits, faults : 0..MaxFaults, crashes : 0..MaxCrashes]
<1>1. /\ budget.edits \in 0..MaxEdits /\ budget.faults \in 0..MaxFaults
      /\ budget.crashes \in 0..MaxCrashes
      /\ budget = [edits |-> budget.edits, faults |-> budget.faults,
                   crashes |-> budget.crashes]
  BY DEF TypeOK
<1>2. CASE what = "edits"
  BY <1>1, <1>2, BoundsAreNaturals DEF Spend
<1>3. CASE what = "faults"
  BY <1>1, <1>3, BoundsAreNaturals DEF Spend
<1>4. CASE what = "crashes"
  BY <1>1, <1>4, BoundsAreNaturals DEF Spend
<1> QED
  BY <1>2, <1>3, <1>4

(* Head and tail of a list with something in it.                           *)
LEMMA Rest ==
  ASSUME NEW S, NEW s \in Seq(S), s # <<>>
  PROVE  /\ Head(s) \in S /\ Head(s) = s[1] /\ Tail(s) \in Seq(S)
         /\ Len(s) \in Nat \ {0} /\ Len(Tail(s)) = Len(s) - 1
         /\ \A i \in 1..Len(Tail(s)) : i + 1 \in 1..Len(s) /\ Tail(s)[i] = s[i + 1]
<1>1. Len(s) \in Nat \ {0} /\ Head(s) = s[1]
  BY EmptySeq
<1>2. /\ Head(s) \in S /\ Tail(s) \in Seq(S) /\ Len(Tail(s)) = Len(s) - 1
      /\ \A i \in 1..Len(Tail(s)) : Tail(s)[i] = s[i + 1]
  BY HeadTailProperties
<1>3. \A i \in 1..(Len(s) - 1) : i + 1 \in 1..Len(s)
  BY <1>1
<1> QED
  BY <1>1, <1>2, <1>3

LEMMA FirstMessage ==
  ASSUME NEW s \in Seq(Messages), s # <<>>
  PROVE  /\ Head(s) \in Messages /\ Head(s).order \in Orders /\ Head(s).status \in Outcomes
         /\ Head(s) = s[1] /\ 1 \in 1..Len(s) /\ Tail(s) \in Seq(Messages)
<1>1. /\ Head(s) \in Messages /\ Head(s) = s[1] /\ Tail(s) \in Seq(Messages)
      /\ Len(s) \in Nat \ {0}
  BY Rest
<1>2. 1 \in 1..Len(s)
  BY <1>1
<1> QED
  BY <1>1, <1>2 DEF Messages

(* What a unit of work makes of a row.                                     *)
LEMMA FlushedRow ==
  ASSUME NEW current \in Rows, NEW seen \in Rows, NEW new \in Rows
  PROVE  /\ Flushed(current, seen, new) \in Rows
         /\ Flushed(current, seen, new).kind =
              IF new.kind = seen.kind THEN current.kind ELSE new.kind
         /\ Flushed(current, seen, new).status =
              IF new.status = seen.status THEN current.status ELSE new.status
<1>1. /\ DOMAIN current = {"kind", "status", "price"}
      /\ current.kind \in Kinds /\ current.status \in Statuses /\ current.price \in Prices
      /\ seen.kind \in Kinds /\ seen.status \in Statuses /\ seen.price \in Prices
      /\ new.kind \in Kinds /\ new.status \in Statuses /\ new.price \in Prices
  BY DEF Rows
<1> DEFINE F == Flushed(current, seen, new)
<1>2. F = [c \in {"kind", "status", "price"} |->
             IF new[c] = seen[c] THEN current[c] ELSE new[c]]
  BY <1>1 DEF Flushed
<1>3. /\ F.kind = IF new.kind = seen.kind THEN current.kind ELSE new.kind
      /\ F.status = IF new.status = seen.status THEN current.status ELSE new.status
      /\ F.price = IF new.price = seen.price THEN current.price ELSE new.price
  BY <1>2
<1>4. F = [kind |-> F.kind, status |-> F.status, price |-> F.price]
  BY <1>2
<1>5. F.kind \in Kinds /\ F.status \in Statuses /\ F.price \in Prices
  BY <1>1, <1>3
<1> HIDE DEF F
<1>6. F \in Rows
  BY <1>4, <1>5 DEF Rows
<1> QED
  BY <1>3, <1>6 DEF F

LEMMA NewRows ==
  ASSUME NEW r \in Rows
  PROVE  /\ Edited(r) \in Rows /\ Edited(r).kind = r.kind
         /\ Edited(r).status \in {"cancelled", r.status}
         /\ Filled(r) \in Rows /\ Filled(r).kind = r.kind /\ Filled(r).status = "filled"
<1>1. /\ r = [kind |-> r.kind, status |-> r.status, price |-> r.price]
      /\ r.kind \in Kinds /\ r.status \in Statuses /\ r.price \in Prices
  BY DEF Rows
<1>2. CASE editor.op = "cancel"
  BY <1>1, <1>2 DEF Edited, Filled, Rows, Statuses, Prices
<1>3. CASE editor.op # "cancel"
  BY <1>1, <1>3 DEF Edited, Filled, Rows, Statuses, Prices
<1> QED
  BY <1>2, <1>3

-----------------------------------------------------------------------------
(* Initial states *)

LEMMA InitInv == Init => IInv
<1> SUFFICES ASSUME Init PROVE IInv
  OBVIOUS
<1>1. TypeOK
  <2>1. /\ row \in [Orders -> Rows] /\ request \in [Orders -> {"new", "push", "done"}]
        /\ executed \in [Orders -> Nat] /\ dealRows \in [Orders -> Nat]
    BY DEF Init, Rows, Kinds, Statuses, Prices
  <2>2. editor.op = "none" /\ editor.seen = <<>> /\ DOMAIN <<>> = {}
    BY DEF Init, NoEdit
  <2>3. /\ commands \in Seq(Orders) /\ results \in Seq(Messages) /\ inbox \in Seq(Messages)
        /\ handler \in Seq(Rows) /\ dealQueue \in Seq(SUBSET Orders)
    BY EmptySeq DEF Init
  <2>4. Len(results) <= ResultQueueMax
    BY EmptySeq, QueueHoldsOne DEF Init
  <2>5. budget \in [edits : 0..MaxEdits, faults : 0..MaxFaults, crashes : 0..MaxCrashes]
    BY BoundsAreNaturals DEF Init
  <2>6. placed = {} /\ listener = "on" /\ batch = {} /\ excused = {}
    BY DEF Init
  <2> QED
    BY <2>1, <2>2, <2>3, <2>4, <2>5, <2>6 DEF TypeOK
<1>2. Len(results) = 0 /\ Len(inbox) = 0 /\ Len(commands) = 0 /\ handler = <<>>
  BY DEF Init
<1>3. FillInv
  BY <1>2 DEF FillInv, Witness
<1>4. PlaceInv
  BY <1>2 DEF PlaceInv, Init, Waits
<1>5. NoPhantomFill /\ OneExecution
  BY DEF Init, NoPhantomFill, OneExecution
<1> QED
  BY <1>1, <1>3, <1>4, <1>5 DEF IInv

-----------------------------------------------------------------------------
(* Every step keeps the types *)

(* The terminal's queue has room again after its oldest result was dropped. *)
LEMMA QueueResultType ==
  ASSUME TypeOK, NEW m \in Messages, QueueResult(m)
  PROVE  results' \in Seq(Messages) /\ Len(results') <= ResultQueueMax
<1>1. results \in Seq(Messages) /\ Len(results) \in Nat /\ Len(results) <= ResultQueueMax
  BY LenProperties DEF TypeOK
<1>2. CASE Len(results) >= ResultQueueMax
  <2>1. results # <<>>
    BY <1>2, QueueHoldsOne
  <2>2. Tail(results) \in Seq(Messages) /\ Len(Tail(results)) = Len(results) - 1
    BY <1>1, <2>1, Rest
  <2>3. results' = Append(Tail(results), m)
    BY <1>2 DEF QueueResult
  <2>4. results' \in Seq(Messages) /\ Len(results') = Len(Tail(results)) + 1
    BY <2>2, <2>3, AppendProperties
  <2>5. Len(results') = Len(results)
    BY <1>1, <2>2, <2>4
  <2> QED
    BY <1>1, <2>4, <2>5
<1>3. CASE ~(Len(results) >= ResultQueueMax)
  <2>1. results' = Append(results, m)
    BY <1>3 DEF QueueResult
  <2>2. results' \in Seq(Messages) /\ Len(results') = Len(results) + 1
    BY <1>1, <2>1, AppendProperties
  <2> QED
    BY <1>1, <1>3, <2>2, QueueHoldsOne
<1> QED
  BY <1>2, <1>3

LEMMA PublishType ==
  ASSUME TypeOK, NEW m \in Messages, Publish(m)
  PROVE  /\ inbox' \in Seq(Messages) /\ excused' \subseteq Orders
         /\ listener' \in {"on", "dead", "down"} /\ handler' \in Seq(Rows)
<1>1. m.order \in Orders /\ Append(inbox, m) \in Seq(Messages)
  BY AppendProperties DEF TypeOK, Messages
<1> QED
  BY <1>1 DEF TypeOK, Publish

(* Orders of the results of a list.                                        *)
LEMMA OrdersOf ==
  ASSUME NEW s \in Seq(Messages)
  PROVE  {s[i].order : i \in DOMAIN s} \subseteq Orders
<1>1. \A i \in DOMAIN s : s[i] \in Messages
  BY ElementOfSeq, LenProperties
<1> QED
  BY <1>1 DEF Messages

LEMMA TypeStep == TypeOK /\ FillInv /\ [Next]_vars => TypeOK'
<1> SUFFICES ASSUME TypeOK, FillInv, [Next]_vars PROVE TypeOK'
  OBVIOUS
<1> USE DEF tableVars, terminalVars, listenVars, dealVars
<1>1. CASE UNCHANGED vars
  BY <1>1 DEF TypeOK, vars
<1>2. ASSUME NEW o \in Orders, NEW kind \in Kinds, Create(o, kind) PROVE TypeOK'
  <2>1. row' \in [Orders -> Rows]
    <3>1. row \in [Orders -> Rows] /\ row[o] \in Rows
      BY DEF TypeOK
    <3>2. [[row[o] EXCEPT !.status = "pending"] EXCEPT !.kind = kind] \in Rows
      BY <3>1 DEF Rows, Statuses
    <3>3. row' = [p \in Orders |->
                    IF p = o THEN [[row[o] EXCEPT !.status = "pending"] EXCEPT !.kind = kind]
                             ELSE row[p]]
      BY <1>2, <3>1 DEF Create
    <3> QED
      BY <3>1, <3>2, <3>3
  <2>2. request' \in [Orders -> {"new", "push", "done"}]
    BY <1>2 DEF Create, TypeOK
  <2> QED
    BY <1>2, <2>1, <2>2 DEF Create, TypeOK
<1>3. ASSUME NEW o \in Orders, Push(o) PROVE TypeOK'
  BY <1>3, AppendProperties DEF Push, TypeOK
<1>4. ASSUME NEW o \in Orders, PushFails(o) PROVE TypeOK'
  <2>1. budget' \in [edits : 0..MaxEdits, faults : 0..MaxFaults, crashes : 0..MaxCrashes]
    BY <1>4, SpendType DEF PushFails
  <2>2. commands' \in Seq(Orders)
    <3>1. commands \in Seq(Orders) /\ Append(commands, o) \in Seq(Orders)
      BY AppendProperties DEF TypeOK
    <3> QED
      BY <1>4, <3>1 DEF PushFails
  <2> QED
    BY <1>4, <2>1, <2>2 DEF PushFails, TypeOK
<1>5. ASSUME NEW op \in {"cancel", "modify"}, NEW targets \in SUBSET Orders, Edit(op, targets)
      PROVE  TypeOK'
  <2>1. budget' \in [edits : 0..MaxEdits, faults : 0..MaxFaults, crashes : 0..MaxCrashes]
    BY <1>5, SpendType DEF Edit
  <2>2. /\ editor'.op \in {"none", "cancel", "modify"} /\ DOMAIN editor'.seen \subseteq Orders
        /\ \A p \in DOMAIN editor'.seen : editor'.seen[p] \in Rows
    BY <1>5 DEF Edit, TypeOK
  <2> QED
    BY <1>5, <2>1, <2>2 DEF Edit, TypeOK
<1>6. CASE WriteEdit
  <2>1. \A p \in DOMAIN editor.seen : Flushed(row[p], editor.seen[p], Edited(editor.seen[p])) \in Rows
    BY FlushedRow, NewRows DEF TypeOK
  <2>2. row' \in [Orders -> Rows]
    BY <1>6, <2>1 DEF WriteEdit, TypeOK
  <2>3. editor'.op = "none" /\ editor'.seen = <<>> /\ DOMAIN <<>> = {}
    BY <1>6 DEF WriteEdit, NoEdit
  <2>4. excused' \subseteq Orders
    BY <1>6 DEF WriteEdit, TypeOK
  <2> QED
    BY <1>6, <2>2, <2>3, <2>4 DEF WriteEdit, TypeOK
<1>7. ASSUME NEW outcome \in Outcomes, NEW trades \in BOOLEAN, Execute(outcome, trades)
      PROVE  TypeOK'
  <2>1. /\ Head(commands) \in Orders /\ commands' \in Seq(Orders)
        /\ [order |-> Head(commands), status |-> outcome] \in Messages
    BY <1>7, Rest DEF Execute, TypeOK, Messages
  <2>2. results' \in Seq(Messages) /\ Len(results') <= ResultQueueMax
    BY <1>7, <2>1, QueueResultType DEF Execute
  <2>3. executed' \in [Orders -> Nat] /\ placed' \subseteq Orders
    <3>1. executed \in [Orders -> Nat] /\ placed \subseteq Orders
      BY DEF TypeOK
    <3>2. executed' = IF trades THEN [executed EXCEPT ![Head(commands)] = @ + 1] ELSE executed
      BY <1>7 DEF Execute
    <3>3. placed' = IF outcome = "PLACED" THEN placed \cup {Head(commands)} ELSE placed
      BY <1>7 DEF Execute
    <3> QED
      BY <2>1, <3>1, <3>2, <3>3
  <2>4. DroppedByQueue \subseteq Orders
    <3>1. CASE Len(results) >= ResultQueueMax
      <4>1. results # <<>>
        BY <3>1, QueueHoldsOne
      <4>2. Head(results) \in Messages
        BY <4>1, Rest DEF TypeOK
      <4> QED
        BY <4>2 DEF DroppedByQueue, Messages
    <3> QED
      BY <3>1 DEF DroppedByQueue
  <2>5. excused' \subseteq Orders
    BY <1>7, <2>1, <2>4 DEF Execute, TypeOK
  <2> QED
    BY <1>7, <2>1, <2>2, <2>3, <2>5 DEF Execute, TypeOK
<1>8. CASE LoseCommand
  <2>1. budget' \in [edits : 0..MaxEdits, faults : 0..MaxFaults, crashes : 0..MaxCrashes]
    BY <1>8, SpendType DEF LoseCommand
  <2>2. commands' \in Seq(Orders)
    BY <1>8, Rest DEF LoseCommand, TypeOK
  <2> QED
    BY <1>8, <2>1, <2>2 DEF LoseCommand, TypeOK
<1>9. ASSUME NEW o \in Orders, PlacedFills(o) PROVE TypeOK'
  BY <1>9 DEF PlacedFills, TypeOK
<1>10. CASE FlushResult
  <2>1. /\ Head(results) \in Messages /\ results' \in Seq(Messages)
        /\ Len(results) \in Nat /\ Len(Tail(results)) = Len(results) - 1
    BY <1>10, Rest DEF FlushResult, TypeOK
  <2>2. Len(results') <= ResultQueueMax
    <3>1. Len(results) <= ResultQueueMax /\ Len(results') = Len(results) - 1
      BY <1>10, <2>1 DEF FlushResult, TypeOK
    <3> QED
      BY <2>1, <3>1, QueueHoldsOne
  <2>3. /\ inbox' \in Seq(Messages) /\ excused' \subseteq Orders
        /\ listener' \in {"on", "dead", "down"} /\ handler' \in Seq(Rows)
    BY <1>10, <2>1, PublishType DEF FlushResult
  <2> QED
    BY <1>10, <2>1, <2>2, <2>3 DEF FlushResult, TypeOK
<1>11. CASE FlushUnanswered
  <2>1. Head(results) \in Messages
    BY <1>11, Rest DEF FlushUnanswered, TypeOK
  <2>2. budget' \in [edits : 0..MaxEdits, faults : 0..MaxFaults, crashes : 0..MaxCrashes]
    BY <1>11, SpendType DEF FlushUnanswered
  <2>3. /\ inbox' \in Seq(Messages) /\ excused' \subseteq Orders
        /\ listener' \in {"on", "dead", "down"} /\ handler' \in Seq(Rows)
    BY <1>11, <2>1, PublishType DEF FlushUnanswered
  <2> QED
    BY <1>11, <2>2, <2>3 DEF FlushUnanswered, TypeOK
<1>12. CASE TerminalRestart
  <2>1. budget' \in [edits : 0..MaxEdits, faults : 0..MaxFaults, crashes : 0..MaxCrashes]
    BY <1>12, SpendType DEF TerminalRestart
  <2>2. excused' \subseteq Orders
    BY <1>12, OrdersOf DEF TerminalRestart, TypeOK
  <2>3. results' \in Seq(Messages) /\ Len(results') <= ResultQueueMax
    BY <1>12, EmptySeq, QueueHoldsOne DEF TerminalRestart
  <2> QED
    BY <1>12, <2>1, <2>2, <2>3 DEF TerminalRestart, TypeOK
<1>13. CASE ReadResult
  <2>1. Head(inbox).order \in Orders
    BY <1>13, FirstMessage DEF ReadResult, TypeOK
  <2>2. row[Head(inbox).order] \in Rows
    BY <2>1 DEF TypeOK
  <2>3. handler' \in Seq(Rows)
    BY <1>13, <2>2 DEF ReadResult
  <2> QED
    BY <1>13, <2>3 DEF ReadResult, TypeOK
<1>14. CASE SkipResult
  BY <1>14, Rest DEF SkipResult, TypeOK
<1>15. CASE CommitResult
  <2>1. handler # <<>> /\ inbox # <<>>
    BY <1>15 DEF CommitResult, FillInv
  <2>2. handler[1] \in Rows
    BY <2>1, Rest DEF TypeOK
  <2>3. Head(inbox).order \in Orders /\ Tail(inbox) \in Seq(Messages)
    BY <2>1, FirstMessage DEF TypeOK
  <2>4. Flushed(row[Head(inbox).order], handler[1], Filled(handler[1])) \in Rows
    BY <2>2, <2>3, FlushedRow, NewRows DEF TypeOK
  <2>5. row' \in [Orders -> Rows]
    BY <1>15, <2>3, <2>4 DEF CommitResult, TypeOK
  <2> QED
    BY <1>15, <2>3, <2>5, EmptySeq DEF CommitResult, TypeOK
<1>16. CASE CommitFails
  <2>1. inbox # <<>>
    BY <1>16 DEF CommitFails, FillInv
  <2>2. Head(inbox).order \in Orders /\ Tail(inbox) \in Seq(Messages)
    BY <2>1, FirstMessage DEF TypeOK
  <2>3. budget' \in [edits : 0..MaxEdits, faults : 0..MaxFaults, crashes : 0..MaxCrashes]
    BY <1>16, SpendType DEF CommitFails
  <2> QED
    BY <1>16, <2>2, <2>3, EmptySeq DEF CommitFails, TypeOK
<1>17. CASE ListenerDies
  <2>1. budget' \in [edits : 0..MaxEdits, faults : 0..MaxFaults, crashes : 0..MaxCrashes]
    BY <1>17, SpendType DEF ListenerDies
  <2>2. excused' \subseteq Orders
    BY <1>17, OrdersOf DEF ListenerDies, TypeOK
  <2> QED
    BY <1>17, <2>1, <2>2, EmptySeq DEF ListenerDies, TypeOK
<1>18. CASE SendDeals
  <2>1. Append(dealQueue, Deals) \in Seq(SUBSET Orders)
    BY AppendProperties DEF TypeOK, Deals
  <2> QED
    BY <1>18, <2>1 DEF SendDeals, TypeOK
<1>19. CASE PopDeals
  <2>1. Head(dealQueue) \in SUBSET Orders /\ Tail(dealQueue) \in Seq(SUBSET Orders)
    BY <1>19, Rest DEF PopDeals, TypeOK
  <2> QED
    BY <1>19, <2>1 DEF PopDeals, TypeOK
<1>20. CASE CommitDeals
  BY <1>20 DEF CommitDeals, TypeOK
<1>21. CASE DealsFail
  <2>1. budget' \in [edits : 0..MaxEdits, faults : 0..MaxFaults, crashes : 0..MaxCrashes]
    BY <1>21, SpendType DEF DealsFail
  <2> QED
    BY <1>21, <2>1 DEF DealsFail, TypeOK
<1>22. CASE Crash
  <2>1. budget' \in [edits : 0..MaxEdits, faults : 0..MaxFaults, crashes : 0..MaxCrashes]
    BY <1>22, SpendType DEF Crash
  <2>2. excused' \subseteq Orders
    BY <1>22, OrdersOf DEF Crash, TypeOK
  <2>3. editor'.op = "none" /\ editor'.seen = <<>> /\ DOMAIN <<>> = {}
    BY <1>22 DEF Crash, NoEdit
  <2>4. request' \in [Orders -> {"new", "push", "done"}]
    BY <1>22 DEF Crash, TypeOK
  <2> QED
    BY <1>22, <2>1, <2>2, <2>3, <2>4, EmptySeq DEF Crash, TypeOK
<1>23. CASE Restart
  BY <1>23 DEF Restart, TypeOK
<1>24. ASSUME NEW o \in Orders, ReadForCancel(o) \/ ReadForModify(o) PROVE TypeOK'
  BY <1>5, <1>24 DEF ReadForCancel, ReadForModify
<1>25. CASE ReadAllPending
  BY <1>5, <1>25 DEF ReadAllPending
<1> QED
  BY <1>1, <1>2, <1>3, <1>4, <1>6, <1>7, <1>8, <1>9, <1>10, <1>11, <1>12, <1>13,
     <1>14, <1>15, <1>16, <1>17, <1>18, <1>19, <1>20, <1>21, <1>22, <1>23, <1>24, <1>25
  DEF Next, DealsWorker

-----------------------------------------------------------------------------
(* Whatever says FILLED was executed *)

LEMMA WitnessTail ==
  ASSUME NEW s \in Seq(Messages), s # <<>>, NEW count, Witness(s, count)
  PROVE  Witness(Tail(s), count)
  BY Rest DEF Witness

LEMMA WitnessAppend ==
  ASSUME NEW s \in Seq(Messages), NEW m \in Messages, NEW count, Witness(s, count),
         m.status = "FILLED" => count[m.order] > 0
  PROVE  Witness(Append(s, m), count)
<1>1. /\ Len(Append(s, m)) = Len(s) + 1 /\ Len(s) \in Nat
      /\ \A i \in 1..Len(s) : Append(s, m)[i] = s[i]
      /\ Append(s, m)[Len(s) + 1] = m
  BY AppendProperties, LenProperties
<1>2. \A i \in 1..(Len(s) + 1) : i \in 1..Len(s) \/ i = Len(s) + 1
  BY <1>1
<1> QED
  BY <1>1, <1>2 DEF Witness

(* An execution is never undone.                                           *)
Grows == \A o \in Orders : executed[o] > 0 => executed'[o] > 0

LEMMA WitnessGrows ==
  ASSUME NEW s \in Seq(Messages), Grows, Witness(s, executed)
  PROVE  Witness(s, executed')
<1>1. \A i \in 1..Len(s) : s[i].order \in Orders
  <2>1. \A i \in 1..Len(s) : s[i] \in Messages
    BY ElementOfSeq
  <2> QED
    BY <2>1 DEF Messages
<1> QED
  BY <1>1 DEF Witness, Grows

LEMMA NothingUndone ==
  ASSUME TypeOK, [Next]_vars
  PROVE  Grows
<1> USE DEF tableVars, terminalVars, listenVars, dealVars
<1>1. ASSUME NEW outcome \in Outcomes, NEW trades \in BOOLEAN, Execute(outcome, trades)
      PROVE  Grows
  <2>1. executed' = IF trades THEN [executed EXCEPT ![Head(commands)] = @ + 1] ELSE executed
    BY <1>1 DEF Execute
  <2> QED
    BY <2>1 DEF TypeOK, Grows
<1>2. ASSUME NEW o \in Orders, PlacedFills(o) PROVE Grows
  BY <1>2 DEF PlacedFills, TypeOK, Grows
<1>3. CASE UNCHANGED executed
  BY <1>3 DEF Grows
<1>4. CASE \/ FlushResult \/ FlushUnanswered \/ TerminalRestart \/ LoseCommand
           \/ ReadResult \/ SkipResult \/ CommitResult \/ CommitFails \/ ListenerDies
  BY <1>3, <1>4 DEF FlushResult, FlushUnanswered, TerminalRestart, LoseCommand, ReadResult,
       SkipResult, CommitResult, CommitFails, ListenerDies
<1>5. CASE \/ SendDeals \/ DealsWorker \/ DealsFail \/ Crash \/ Restart \/ WriteEdit
           \/ ReadAllPending
  BY <1>3, <1>5 DEF SendDeals, DealsWorker, PopDeals, CommitDeals, DealsFail, Crash, Restart,
       WriteEdit, ReadAllPending, Edit
<1>6. ASSUME NEW o \in Orders,
             \/ \E kind \in Kinds : Create(o, kind)
             \/ Push(o) \/ PushFails(o) \/ ReadForCancel(o) \/ ReadForModify(o)
      PROVE  Grows
  BY <1>3, <1>6 DEF Create, Push, PushFails, ReadForCancel, ReadForModify, Edit
<1>7. CASE UNCHANGED vars
  BY <1>3, <1>7 DEF vars
<1> QED
  BY <1>1, <1>2, <1>4, <1>5, <1>6, <1>7 DEF Next

LEMMA PublishWitness ==
  ASSUME TypeOK, FillInv, NEW m \in Messages, Publish(m),
         m.status = "FILLED" => executed[m.order] > 0, UNCHANGED executed
  PROVE  /\ Witness(inbox', executed')
         /\ handler' # <<>> => inbox' # <<>> /\ Head(inbox').status = "FILLED"
<1>1. inbox \in Seq(Messages) /\ Witness(inbox, executed)
  BY DEF TypeOK, FillInv
<1>2. Witness(inbox', executed')
  BY <1>1, WitnessAppend DEF Publish
<1>3. inbox # <<>> => Append(inbox, m) # <<>> /\ Head(Append(inbox, m)) = Head(inbox)
  <2> SUFFICES ASSUME inbox # <<>>
               PROVE  Append(inbox, m) # <<>> /\ Head(Append(inbox, m)) = Head(inbox)
    OBVIOUS
  <2>1. 1 \in 1..Len(inbox) /\ Head(inbox) = inbox[1]
    BY <1>1, FirstMessage
  <2>2. Append(inbox, m) \in Seq(Messages) /\ Append(inbox, m) # <<>>
        /\ Append(inbox, m)[1] = inbox[1]
    BY <1>1, <2>1, AppendProperties
  <2>3. Head(Append(inbox, m)) = Append(inbox, m)[1]
    BY <2>2, FirstMessage
  <2> QED
    BY <2>1, <2>2, <2>3
<1> QED
  BY <1>2, <1>3 DEF FillInv, Publish

LEMMA FillStep == TypeOK /\ FillInv /\ [Next]_vars => FillInv'
<1> SUFFICES ASSUME TypeOK, FillInv, [Next]_vars PROVE FillInv'
  OBVIOUS
<1> USE DEF tableVars, terminalVars, listenVars, dealVars
<1>1. Grows
  BY NothingUndone
<1>2. /\ results \in Seq(Messages) /\ inbox \in Seq(Messages)
      /\ Witness(results, executed') /\ Witness(inbox, executed')
      /\ Witness(results, executed) /\ Witness(inbox, executed)
      /\ handler # <<>> => inbox # <<>> /\ Head(inbox).status = "FILLED"
  BY <1>1, WitnessGrows DEF TypeOK, FillInv
<1>3. Witness(<<>>, executed')
  BY DEF Witness
<1>4. CASE UNCHANGED <<results, inbox, handler>>
  BY <1>2, <1>4 DEF FillInv
<1>5. ASSUME NEW outcome \in Outcomes, NEW trades \in BOOLEAN, Execute(outcome, trades)
      PROVE  FillInv'
  <2> DEFINE m == [order |-> Head(commands), status |-> outcome]
  <2>1. Head(commands) \in Orders /\ m \in Messages /\ QueueResult(m)
    BY <1>5, Rest DEF Execute, TypeOK, Messages
  <2>2. m.status = "FILLED" => executed'[m.order] > 0
    <3>1. executed' = IF trades THEN [executed EXCEPT ![Head(commands)] = @ + 1] ELSE executed
      BY <1>5 DEF Execute
    <3>2. outcome = "FILLED" => trades
      BY <1>5 DEF Execute
    <3> QED
      BY <2>1, <3>1, <3>2 DEF TypeOK
  <2>3. Len(results) >= ResultQueueMax => results # <<>>
    BY QueueHoldsOne
  <2>4. Len(results) >= ResultQueueMax =>
          Tail(results) \in Seq(Messages) /\ Witness(Tail(results), executed')
    BY <1>2, <2>3, FirstMessage, WitnessTail
  <2> HIDE DEF m
  <2>5. Witness(results', executed')
    BY <1>2, <2>1, <2>2, <2>4, WitnessAppend DEF QueueResult
  <2>6. UNCHANGED <<inbox, handler>>
    BY <1>5 DEF Execute
  <2> QED
    BY <1>2, <2>5, <2>6 DEF FillInv
<1>6. ASSUME results # <<>>, Publish(Head(results)), UNCHANGED executed,
             results' \in {results, Tail(results)}
      PROVE  FillInv'
  <2>1. Head(results) \in Messages /\ Head(results) = results[1] /\ 1 \in 1..Len(results)
    BY <1>2, <1>6, FirstMessage
  <2>2. Head(results).status = "FILLED" => executed[Head(results).order] > 0
    BY <1>2, <2>1 DEF Witness
  <2>3. /\ Witness(inbox', executed')
        /\ handler' # <<>> => inbox' # <<>> /\ Head(inbox').status = "FILLED"
    BY <1>6, <2>1, <2>2, PublishWitness
  <2>4. Witness(results', executed')
    BY <1>2, <1>6, WitnessTail
  <2> QED
    BY <2>3, <2>4 DEF FillInv
<1>7. CASE FlushResult \/ FlushUnanswered
  BY <1>6, <1>7 DEF FlushResult, FlushUnanswered
<1>8. CASE TerminalRestart
  BY <1>2, <1>3, <1>8 DEF TerminalRestart, FillInv
<1>9. CASE ReadResult
  BY <1>2, <1>9 DEF ReadResult, FillInv
<1>10. CASE SkipResult \/ CommitResult \/ CommitFails
  <2>1. inbox # <<>>
    BY <1>2, <1>10 DEF SkipResult, CommitResult, CommitFails
  <2>2. inbox' = Tail(inbox) /\ handler' = <<>> /\ UNCHANGED results
    BY <1>10 DEF SkipResult, CommitResult, CommitFails
  <2>3. Witness(inbox', executed')
    BY <1>2, <2>1, <2>2, WitnessTail
  <2> QED
    BY <1>2, <2>2, <2>3 DEF FillInv
<1>11. CASE ListenerDies \/ Crash
  <2>1. inbox' = <<>> /\ handler' = <<>> /\ UNCHANGED results
    BY <1>11 DEF ListenerDies, Crash
  <2> QED
    BY <1>2, <1>3, <2>1 DEF FillInv
<1>12. CASE \/ LoseCommand \/ SendDeals \/ DealsWorker \/ DealsFail \/ Restart
            \/ WriteEdit \/ ReadAllPending
  BY <1>4, <1>12 DEF LoseCommand, SendDeals, DealsWorker, PopDeals, CommitDeals, DealsFail,
       Restart, WriteEdit, ReadAllPending, Edit
<1>13. ASSUME NEW o \in Orders,
              \/ \E kind \in Kinds : Create(o, kind)
              \/ Push(o) \/ PushFails(o) \/ ReadForCancel(o) \/ ReadForModify(o)
              \/ PlacedFills(o)
       PROVE  FillInv'
  BY <1>4, <1>13 DEF Create, Push, PushFails, ReadForCancel, ReadForModify, Edit, PlacedFills
<1>14. CASE UNCHANGED vars
  BY <1>4, <1>14 DEF vars
<1> QED
  BY <1>5, <1>7, <1>8, <1>9, <1>10, <1>11, <1>12, <1>13, <1>14 DEF Next

(* Rows become filled by a FILLED result only: creating, cancelling and    *)
(* modifying an order never does it.                                       *)
LEMMA PhantomStep ==
  TypeOK /\ FillInv /\ NoPhantomFill /\ [Next]_vars => NoPhantomFill'
<1> SUFFICES ASSUME TypeOK, FillInv, NoPhantomFill, [Next]_vars,
                    NEW o \in Orders, row'[o].status = "filled"
             PROVE  executed'[o] > 0
  BY DEF NoPhantomFill
<1> USE DEF tableVars, terminalVars, listenVars, dealVars
<1>1. Grows /\ (row[o].status = "filled" => executed[o] > 0)
  BY NothingUndone DEF NoPhantomFill
<1>2. CASE row'[o].status = row[o].status
  BY <1>1, <1>2 DEF Grows
<1>3. ASSUME NEW p \in Orders, NEW kind \in Kinds, Create(p, kind) PROVE executed'[o] > 0
  <2>1. row \in [Orders -> Rows] /\ row[o] \in Rows
    BY DEF TypeOK
  <2>2. p # o
    <3> SUFFICES ASSUME p = o PROVE FALSE
      OBVIOUS
    <3>1. row'[o] = [[row[o] EXCEPT !.status = "pending"] EXCEPT !.kind = kind]
      BY <1>3, <2>1 DEF Create
    <3>2. row'[o].status = "pending"
      BY <2>1, <3>1 DEF Rows
    <3> QED
      BY <3>2
  <2>3. row'[o] = row[o]
    BY <1>3, <2>1, <2>2 DEF Create
  <2> QED
    BY <1>2, <2>3
<1>4. CASE WriteEdit
  <2>1. row'[o] = IF o \in DOMAIN editor.seen
                  THEN Flushed(row[o], editor.seen[o], Edited(editor.seen[o])) ELSE row[o]
    BY <1>4 DEF WriteEdit
  <2>2. ASSUME o \in DOMAIN editor.seen PROVE row'[o].status = row[o].status
    <3>1. row[o] \in Rows /\ editor.seen[o] \in Rows
      BY <2>2 DEF TypeOK
    <3>2. Edited(editor.seen[o]) \in Rows
          /\ Edited(editor.seen[o]).status \in {"cancelled", editor.seen[o].status}
      BY <3>1, NewRows
    <3>3. row'[o].status = IF Edited(editor.seen[o]).status = editor.seen[o].status
                           THEN row[o].status ELSE Edited(editor.seen[o]).status
      BY <2>1, <2>2, <3>1, <3>2, FlushedRow
    <3> QED
      BY <3>2, <3>3
  <2> QED
    BY <1>2, <2>1, <2>2
<1>5. CASE CommitResult
  <2>1. inbox # <<>> /\ Head(inbox).status = "FILLED"
    BY <1>5 DEF CommitResult, FillInv
  <2>2. 1 \in 1..Len(inbox) /\ inbox[1] = Head(inbox)
    BY <2>1, FirstMessage DEF TypeOK
  <2>3. executed[Head(inbox).order] > 0
    BY <2>1, <2>2 DEF FillInv, Witness
  <2>4. o # Head(inbox).order => row'[o] = row[o]
    BY <1>5 DEF CommitResult, TypeOK
  <2>5. UNCHANGED executed
    BY <1>5 DEF CommitResult
  <2> QED
    BY <1>2, <2>3, <2>4, <2>5
<1>6. CASE UNCHANGED row
  BY <1>2, <1>6
<1>7. CASE \/ \E outcome \in Outcomes, trades \in BOOLEAN : Execute(outcome, trades)
           \/ FlushResult \/ FlushUnanswered \/ TerminalRestart \/ LoseCommand
           \/ ReadResult \/ SkipResult \/ CommitFails \/ ListenerDies
  BY <1>6, <1>7 DEF Execute, FlushResult, FlushUnanswered, TerminalRestart, LoseCommand,
       ReadResult, SkipResult, CommitFails, ListenerDies
<1>8. CASE \/ SendDeals \/ DealsWorker \/ DealsFail \/ Crash \/ Restart \/ ReadAllPending
  BY <1>6, <1>8 DEF SendDeals, DealsWorker, PopDeals, CommitDeals, DealsFail, Crash, Restart,
       ReadAllPending, Edit
<1>9. ASSUME NEW p \in Orders,
             Push(p) \/ PushFails(p) \/ ReadForCancel(p) \/ ReadForModify(p) \/ PlacedFills(p)
      PROVE  executed'[o] > 0
  BY <1>6, <1>9 DEF Push, PushFails, ReadForCancel, ReadForModify, Edit, PlacedFills
<1>10. CASE UNCHANGED vars
  BY <1>6, <1>10 DEF vars
<1> QED
  BY <1>3, <1>4, <1>5, <1>7, <1>8, <1>9, <1>10 DEF Next

-----------------------------------------------------------------------------
(* Where an order is *)

(* No row changes its kind but the one being created.                      *)
LEMMA KindStays ==
  ASSUME TypeOK, FillInv, WriteEdit \/ CommitResult
  PROVE  \A o \in Orders : row'[o].kind = row[o].kind
<1> SUFFICES ASSUME NEW o \in Orders PROVE row'[o].kind = row[o].kind
  OBVIOUS
<1>1. CASE WriteEdit
  <2>1. row'[o] = IF o \in DOMAIN editor.seen
                  THEN Flushed(row[o], editor.seen[o], Edited(editor.seen[o])) ELSE row[o]
    BY <1>1 DEF WriteEdit
  <2>2. ASSUME o \in DOMAIN editor.seen PROVE row'[o].kind = row[o].kind
    <3>1. row[o] \in Rows /\ editor.seen[o] \in Rows
      BY <2>2 DEF TypeOK
    <3>2. Edited(editor.seen[o]) \in Rows /\ Edited(editor.seen[o]).kind = editor.seen[o].kind
      BY <3>1, NewRows
    <3> QED
      BY <2>1, <2>2, <3>1, <3>2, FlushedRow
  <2> QED
    BY <2>1, <2>2
<1>2. CASE CommitResult
  <2>1. handler # <<>> /\ handler \in Seq(Rows) /\ row[o] \in Rows
    BY <1>2 DEF CommitResult, TypeOK
  <2>2. handler[1] \in Rows
    BY <2>1, Rest
  <2>3. Filled(handler[1]) \in Rows /\ Filled(handler[1]).kind = handler[1].kind
    BY <2>2, NewRows
  <2>4. row'[o] = row[o] \/ row'[o] = Flushed(row[o], handler[1], Filled(handler[1]))
    BY <1>2 DEF CommitResult, TypeOK
  <2> QED
    BY <2>1, <2>2, <2>3, <2>4, FlushedRow
<1> QED
  BY <1>1, <1>2

(* A step by which commands at most leave the list and handlers at most    *)
(* end keeps the invariant.                                                *)
LEMMA QuietPlaces ==
  ASSUME TypeOK, PlaceInv, OneExecution,
         \/ commands' = commands
         \/ commands # <<>> /\ commands' = Tail(commands),
         UNCHANGED <<placed, executed>>,
         \A o \in Orders : row'[o].kind = row[o].kind,
         \A o \in Orders : request'[o] \in {request[o], "done"}
  PROVE  PlaceInv' /\ OneExecution'
<1>1. \A o \in Orders : Waits(request'[o]) => Waits(request[o])
  BY DEF Waits
<1>2. \E k \in {0, 1} : \A i \in 1..Len(commands') :
        i + k \in 1..Len(commands) /\ commands'[i] = commands[i + k]
  <2>1. CASE commands' = commands
    <3>1. Len(commands) \in Nat
      BY LenProperties DEF TypeOK
    <3>2. \A i \in 1..Len(commands) : i + 0 = i
      BY <3>1
    <3> QED
      BY <2>1, <3>2
  <2>2. CASE commands # <<>> /\ commands' = Tail(commands)
    <3>1. \A i \in 1..Len(commands') : i + 1 \in 1..Len(commands) /\ commands'[i] = commands[i + 1]
      BY <2>2, Rest DEF TypeOK
    <3> QED
      BY <3>1
  <2> QED
    BY <2>1, <2>2
<1>3. PICK k \in {0, 1} : \A i \in 1..Len(commands') :
        i + k \in 1..Len(commands) /\ commands'[i] = commands[i + k]
  BY <1>2
<1>4. \A i, j \in 1..Len(commands') : commands'[i] = commands'[j] => i = j
  <2> SUFFICES ASSUME NEW i \in 1..Len(commands'), NEW j \in 1..Len(commands'),
                      commands'[i] = commands'[j]
               PROVE  i = j
    OBVIOUS
  <2>1. i + k = j + k
    BY <1>3 DEF PlaceInv
  <2>2. i \in Int /\ j \in Int
    OBVIOUS
  <2> QED
    BY <1>3, <2>1, <2>2
<1>5. \A i \in 1..Len(commands') :
        /\ ~Waits(request'[commands'[i]]) /\ executed'[commands'[i]] = 0
        /\ commands'[i] \notin placed' /\ row'[commands'[i]].kind = "market"
  <2> SUFFICES ASSUME NEW i \in 1..Len(commands')
               PROVE  /\ ~Waits(request'[commands'[i]]) /\ executed'[commands'[i]] = 0
                      /\ commands'[i] \notin placed' /\ row'[commands'[i]].kind = "market"
    OBVIOUS
  <2>1. i + k \in 1..Len(commands) /\ commands'[i] = commands[i + k]
    BY <1>3
  <2>2. commands[i + k] \in Orders
    BY <2>1, ElementOfSeq DEF TypeOK
  <2>3. /\ ~Waits(request[commands[i + k]]) /\ executed[commands[i + k]] = 0
        /\ commands[i + k] \notin placed /\ row[commands[i + k]].kind = "market"
    BY <2>1 DEF PlaceInv
  <2> QED
    BY <1>1, <2>1, <2>2, <2>3
<1>6. \A o \in Orders :
        /\ Waits(request'[o]) => executed'[o] = 0 /\ o \notin placed'
        /\ request'[o] = "push" => row'[o].kind = "market"
        /\ o \in placed' => executed'[o] = 0 /\ row'[o].kind = "market"
  BY <1>1 DEF PlaceInv
<1>7. OneExecution'
  BY DEF OneExecution
<1> QED
  BY <1>4, <1>5, <1>6, <1>7 DEF PlaceInv

LEMMA PlaceStep ==
  TypeOK /\ FillInv /\ PlaceInv /\ OneExecution /\ [Next]_vars => PlaceInv' /\ OneExecution'
<1> SUFFICES ASSUME TypeOK, FillInv, PlaceInv, OneExecution, [Next]_vars
             PROVE  PlaceInv' /\ OneExecution'
  OBVIOUS
<1> USE DEF tableVars, terminalVars, listenVars, dealVars
<1>1. ASSUME NEW o \in Orders, NEW kind \in Kinds, Create(o, kind)
      PROVE  PlaceInv' /\ OneExecution'
  <2>1. /\ UNCHANGED <<commands, placed, executed>> /\ request[o] = "new"
        /\ request' = [request EXCEPT ![o] = IF kind = "market" THEN "push" ELSE "done"]
    BY <1>1 DEF Create
  <2>2. row'[o].kind = kind /\ \A p \in Orders \ {o} : row'[p] = row[p]
    <3>1. row \in [Orders -> Rows] /\ row[o] \in Rows
      BY DEF TypeOK
    <3>2. row'[o] = [[row[o] EXCEPT !.status = "pending"] EXCEPT !.kind = kind]
      BY <1>1, <3>1 DEF Create
    <3>3. row'[o].kind = kind
      BY <3>1, <3>2 DEF Rows
    <3>4. \A p \in Orders \ {o} : row'[p] = row[p]
      BY <1>1, <3>1 DEF Create
    <3> QED
      BY <3>3, <3>4
  <2>3. Waits(request[o]) /\ executed[o] = 0 /\ o \notin placed
    BY <2>1 DEF Waits, PlaceInv
  <2>4. \A p \in Orders : Waits(request'[p]) => Waits(request[p])
    BY <2>1, <2>3 DEF Waits, TypeOK
  <2>5. \A i \in 1..Len(commands) : commands[i] \in Orders \ {o}
    <3>1. \A i \in 1..Len(commands) : commands[i] \in Orders /\ ~Waits(request[commands[i]])
      BY ElementOfSeq DEF TypeOK, PlaceInv
    <3> QED
      BY <2>3, <3>1
  <2>6. \A i \in 1..Len(commands') :
          /\ ~Waits(request'[commands'[i]]) /\ executed'[commands'[i]] = 0
          /\ commands'[i] \notin placed' /\ row'[commands'[i]].kind = "market"
    BY <2>1, <2>2, <2>4, <2>5 DEF PlaceInv
  <2>7. \A p \in Orders : request'[p] = "push" => row'[p].kind = "market"
    BY <2>1, <2>2 DEF PlaceInv, TypeOK
  <2>8. PlaceInv'
    BY <2>1, <2>2, <2>3, <2>4, <2>6, <2>7 DEF PlaceInv
  <2>9. OneExecution'
    BY <2>1, <2>2, <2>3 DEF OneExecution, Kinds
  <2> QED
    BY <2>8, <2>9
<1>2. ASSUME NEW o \in Orders, Push(o) \/ PushFails(o) PROVE PlaceInv' /\ OneExecution'
  <2>1. /\ UNCHANGED <<row, placed, executed>> /\ request[o] = "push"
        /\ request' = [request EXCEPT ![o] = "done"]
        /\ commands' \in {commands, Append(commands, o)}
    BY <1>2 DEF Push, PushFails
  <2>2. \A p \in Orders : request'[p] \in {request[p], "done"}
    BY <2>1 DEF TypeOK
  <2>3. CASE commands' = commands
    BY <2>1, <2>2, <2>3, QuietPlaces
  <2>4. CASE commands' = Append(commands, o)
    <3>1. /\ Waits(request[o]) /\ executed[o] = 0 /\ o \notin placed /\ row[o].kind = "market"
          /\ ~Waits(request'[o])
      BY <2>1 DEF Waits, PlaceInv, TypeOK
    <3>2. \A p \in Orders : Waits(request'[p]) => Waits(request[p])
      BY <2>2 DEF Waits
    <3>3. /\ Len(commands) \in Nat /\ Len(commands') = Len(commands) + 1
          /\ \A i \in 1..Len(commands) : commands'[i] = commands[i] /\ commands[i] \in Orders
          /\ commands'[Len(commands) + 1] = o
      <4>1. commands \in Seq(Orders)
        BY DEF TypeOK
      <4> QED
        BY <2>4, <4>1, AppendProperties, LenProperties, ElementOfSeq
    <3>4. \A i \in 1..Len(commands') : i \in 1..Len(commands) \/ i = Len(commands) + 1
      BY <3>3
    <3>5. \A i \in 1..Len(commands) : commands'[i] # o
      BY <3>1, <3>3 DEF PlaceInv
    <3>6. \A i, j \in 1..Len(commands') : commands'[i] = commands'[j] => i = j
      <4> SUFFICES ASSUME NEW i \in 1..Len(commands'), NEW j \in 1..Len(commands'),
                          commands'[i] = commands'[j]
                   PROVE  i = j
        OBVIOUS
      <4>1. CASE i \in 1..Len(commands) /\ j \in 1..Len(commands)
        BY <3>3, <4>1 DEF PlaceInv
      <4> QED
        BY <3>3, <3>4, <3>5, <4>1
    <3>7. \A i \in 1..Len(commands) :
            /\ ~Waits(request'[commands[i]]) /\ executed'[commands[i]] = 0
            /\ commands[i] \notin placed' /\ row'[commands[i]].kind = "market"
      BY <2>1, <3>2, <3>3 DEF PlaceInv
    <3>8. \A i \in 1..Len(commands') :
            /\ ~Waits(request'[commands'[i]]) /\ executed'[commands'[i]] = 0
            /\ commands'[i] \notin placed' /\ row'[commands'[i]].kind = "market"
      <4> SUFFICES ASSUME NEW i \in 1..Len(commands')
                   PROVE  /\ ~Waits(request'[commands'[i]]) /\ executed'[commands'[i]] = 0
                          /\ commands'[i] \notin placed' /\ row'[commands'[i]].kind = "market"
        OBVIOUS
      <4>1. CASE i \in 1..Len(commands)
        BY <3>3, <3>7, <4>1
      <4>2. CASE i = Len(commands) + 1
        <5>1. commands'[i] = o
          BY <3>3, <4>2
        <5> QED
          BY <2>1, <3>1, <5>1
      <4> QED
        BY <3>4, <4>1, <4>2
    <3>9. \A p \in Orders :
            /\ Waits(request'[p]) => executed'[p] = 0 /\ p \notin placed'
            /\ request'[p] = "push" => row'[p].kind = "market"
            /\ p \in placed' => executed'[p] = 0 /\ row'[p].kind = "market"
      BY <2>1, <2>2, <3>2 DEF PlaceInv
    <3>10. OneExecution'
      BY <2>1 DEF OneExecution
    <3> QED
      BY <3>6, <3>8, <3>9, <3>10 DEF PlaceInv
  <2> QED
    BY <2>1, <2>3, <2>4
<1>3. ASSUME NEW outcome \in Outcomes, NEW trades \in BOOLEAN, Execute(outcome, trades)
      PROVE  PlaceInv' /\ OneExecution'
  <2> DEFINE o == Head(commands)
  <2>1. /\ o \in Orders /\ o = commands[1] /\ Len(commands) \in Nat \ {0}
        /\ \A i \in 1..Len(Tail(commands)) :
             i + 1 \in 1..Len(commands) /\ Tail(commands)[i] = commands[i + 1]
    BY <1>3, Rest DEF Execute, TypeOK
  <2>2. 1 \in 1..Len(commands)
    BY <2>1
  <2>3. /\ ~Waits(request[o]) /\ executed[o] = 0 /\ o \notin placed /\ row[o].kind = "market"
    BY <2>1, <2>2 DEF PlaceInv
  <2>4. /\ commands' = Tail(commands) /\ UNCHANGED <<row, request>>
        /\ executed' = IF trades THEN [executed EXCEPT ![o] = @ + 1] ELSE executed
        /\ placed' = IF outcome = "PLACED" THEN placed \cup {o} ELSE placed
    BY <1>3 DEF Execute
  <2>5. outcome = "PLACED" => ~trades
    BY <1>3 DEF Execute
  <2> HIDE DEF o
  <2>6. \A p \in Orders \ {o} : executed'[p] = executed[p] /\ (p \in placed' <=> p \in placed)
    BY <2>1, <2>4 DEF TypeOK
  <2>7. /\ executed'[o] \in {0, 1}
        /\ o \in placed' => executed'[o] = 0
    BY <2>1, <2>3, <2>4, <2>5 DEF TypeOK
  <2>8. \A i \in 1..Len(commands') :
          i + 1 \in 1..Len(commands) /\ commands'[i] = commands[i + 1]
          /\ commands'[i] \in Orders \ {o}
    <3> SUFFICES ASSUME NEW i \in 1..Len(commands')
                 PROVE  /\ i + 1 \in 1..Len(commands) /\ commands'[i] = commands[i + 1]
                        /\ commands'[i] \in Orders \ {o}
      OBVIOUS
    <3>1. i + 1 \in 1..Len(commands) /\ commands'[i] = commands[i + 1]
      BY <2>1, <2>4
    <3>2. commands[i + 1] \in Orders
      BY <3>1, ElementOfSeq DEF TypeOK
    <3>3. i + 1 # 1
      OBVIOUS
    <3>4. commands[i + 1] # commands[1]
      BY <2>2, <3>1, <3>3 DEF PlaceInv
    <3> QED
      BY <2>1, <3>1, <3>2, <3>4
  <2>9. \A i, j \in 1..Len(commands') : commands'[i] = commands'[j] => i = j
    <3> SUFFICES ASSUME NEW i \in 1..Len(commands'), NEW j \in 1..Len(commands'),
                        commands'[i] = commands'[j]
                 PROVE  i = j
      OBVIOUS
    <3>1. i + 1 = j + 1
      BY <2>8 DEF PlaceInv
    <3> QED
      BY <3>1
  <2>10. \A i \in 1..Len(commands') :
           /\ ~Waits(request'[commands'[i]]) /\ executed'[commands'[i]] = 0
           /\ commands'[i] \notin placed' /\ row'[commands'[i]].kind = "market"
    BY <2>4, <2>6, <2>8 DEF PlaceInv, Waits
  <2>11. \A p \in Orders :
           /\ Waits(request'[p]) => executed'[p] = 0 /\ p \notin placed'
           /\ request'[p] = "push" => row'[p].kind = "market"
           /\ p \in placed' => executed'[p] = 0 /\ row'[p].kind = "market"
    BY <2>3, <2>4, <2>6, <2>7 DEF PlaceInv, Waits
  <2>12. OneExecution'
    BY <2>3, <2>4, <2>6, <2>7 DEF OneExecution
  <2> QED
    BY <2>9, <2>10, <2>11, <2>12 DEF PlaceInv
<1>4. ASSUME NEW o \in Orders, PlacedFills(o) PROVE PlaceInv' /\ OneExecution'
  <2>1. /\ o \in placed /\ UNCHANGED <<row, request, commands>> /\ placed' = placed \ {o}
        /\ executed' = [executed EXCEPT ![o] = @ + 1]
    BY <1>4 DEF PlacedFills
  <2>2. executed[o] = 0 /\ row[o].kind = "market" /\ ~Waits(request[o])
    BY <2>1 DEF PlaceInv
  <2>3. executed'[o] = 1 /\ \A p \in Orders \ {o} : executed'[p] = executed[p]
    BY <2>1, <2>2 DEF TypeOK
  <2>4. \A i \in 1..Len(commands) : commands[i] \in Orders \ {o}
    <3>1. \A i \in 1..Len(commands) : commands[i] \in Orders /\ commands[i] \notin placed
      BY ElementOfSeq DEF TypeOK, PlaceInv
    <3> QED
      BY <2>1, <3>1
  <2>5. PlaceInv'
    BY <2>1, <2>2, <2>3, <2>4 DEF PlaceInv, Waits
  <2>6. OneExecution'
    BY <2>1, <2>2, <2>3 DEF OneExecution
  <2> QED
    BY <2>5, <2>6
<1>5. CASE WriteEdit \/ CommitResult
  <2>1. UNCHANGED <<commands, request, placed, executed>>
    BY <1>5 DEF WriteEdit, CommitResult
  <2> QED
    BY <1>5, <2>1, KindStays, QuietPlaces
<1>6. CASE LoseCommand
  BY <1>6, QuietPlaces DEF LoseCommand
<1>7. CASE Crash
  BY <1>7, QuietPlaces DEF Crash
<1>8. CASE UNCHANGED <<row, request, commands, placed, executed>>
  BY <1>8, QuietPlaces
<1>9. CASE \/ FlushResult \/ FlushUnanswered \/ TerminalRestart
           \/ ReadResult \/ SkipResult \/ CommitFails \/ ListenerDies
  BY <1>8, <1>9 DEF FlushResult, FlushUnanswered, TerminalRestart, ReadResult, SkipResult,
       CommitFails, ListenerDies
<1>10. CASE SendDeals \/ DealsWorker \/ DealsFail \/ Restart \/ ReadAllPending
  BY <1>8, <1>10 DEF SendDeals, DealsWorker, PopDeals, CommitDeals, DealsFail, Restart,
       ReadAllPending, Edit
<1>11. ASSUME NEW o \in Orders, ReadForCancel(o) \/ ReadForModify(o)
       PROVE  PlaceInv' /\ OneExecution'
  BY <1>8, <1>11 DEF ReadForCancel, ReadForModify, Edit
<1>12. CASE UNCHANGED vars
  BY <1>8, <1>12 DEF vars
<1> QED
  BY <1>1, <1>2, <1>3, <1>4, <1>5, <1>6, <1>7, <1>9, <1>10, <1>11, <1>12 DEF Next

-----------------------------------------------------------------------------
(* No fill disappears but through a known leak *)

(* The FILLED result of order o is in the list s.                          *)
In(s, o) == \E i \in 1..Len(s) : s[i] = [order |-> o, status |-> "FILLED"]

(* Beside the property itself: an order that rests with the broker will    *)
(* fill without a result, and a handler that has read a filled row writes  *)
(* nothing over a cancel that came after.                                  *)
AccountInv ==
  /\ FillAccounted
  /\ placed \subseteq excused
  /\ handler # <<>> /\ handler[1].status = "filled" =>
       row[Head(inbox).order].status = "filled" \/ Head(inbox).order \in excused

LEMMA InTail ==
  ASSUME NEW s \in Seq(Messages), s # <<>>, NEW o, In(s, o)
  PROVE  In(Tail(s), o) \/ Head(s) = [order |-> o, status |-> "FILLED"]
<1>1. PICK i \in 1..Len(s) : s[i] = [order |-> o, status |-> "FILLED"]
  BY DEF In
<1>2. /\ Len(s) \in Nat \ {0} /\ Head(s) = s[1] /\ Len(Tail(s)) = Len(s) - 1
      /\ \A j \in 1..Len(Tail(s)) : Tail(s)[j] = s[j + 1]
  BY Rest
<1>3. CASE i = 1
  BY <1>1, <1>2, <1>3
<1>4. CASE i # 1
  <2>1. i - 1 \in 1..(Len(s) - 1) /\ (i - 1) + 1 = i
    BY <1>2, <1>4
  <2>2. Tail(s)[i - 1] = s[i]
    BY <1>2, <2>1
  <2> QED
    BY <1>1, <1>2, <2>1, <2>2 DEF In
<1> QED
  BY <1>3, <1>4

LEMMA InAppend ==
  ASSUME NEW s \in Seq(Messages), NEW m \in Messages
  PROVE  /\ \A o : In(s, o) => In(Append(s, m), o)
         /\ m.status = "FILLED" => In(Append(s, m), m.order)
<1>1. /\ Len(Append(s, m)) = Len(s) + 1 /\ Len(s) \in Nat
      /\ \A i \in 1..Len(s) : Append(s, m)[i] = s[i]
      /\ Append(s, m)[Len(s) + 1] = m
  BY AppendProperties, LenProperties
<1>2. /\ \A i \in 1..Len(s) : i \in 1..(Len(s) + 1)
      /\ Len(s) + 1 \in 1..(Len(s) + 1)
  BY <1>1
<1>3. m = [order |-> m.order, status |-> m.status]
  BY DEF Messages
<1> QED
  BY <1>1, <1>2, <1>3 DEF In

LEMMA OnItsWay ==
  TypeOK => \A o \in Orders : FillOnItsWay(o) <=> In(results, o) \/ In(inbox, o)
<1> SUFFICES ASSUME TypeOK, NEW o \in Orders
             PROVE  FillOnItsWay(o) <=> In(results, o) \/ In(inbox, o)
  OBVIOUS
<1>1. DOMAIN results = 1..Len(results) /\ DOMAIN inbox = 1..Len(inbox)
  BY LenProperties DEF TypeOK
<1> QED
  BY <1>1 DEF FillOnItsWay, In

LEMMA OnItsWayNext ==
  (TypeOK => \A o \in Orders : FillOnItsWay(o) <=> In(results, o) \/ In(inbox, o))'
  BY OnItsWay, PTL

(* A step that loses a fill only to the leaks keeps the account.           *)
LEMMA Kept ==
  ASSUME TypeOK, TypeOK', FillAccounted, excused \subseteq excused',
         \A o \in Orders : row[o].status = "filled" =>
           row'[o].status = "filled" \/ o \in excused',
         \A o \in Orders : In(results, o) =>
           In(results', o) \/ In(inbox', o) \/ o \in excused',
         \A o \in Orders : In(inbox, o) =>
           In(inbox', o) \/ row'[o].status = "filled" \/ o \in excused',
         \A o \in Orders : executed'[o] > 0 =>
           executed[o] > 0 \/ In(results', o) \/ o \in excused'
  PROVE  FillAccounted'
<1> SUFFICES ASSUME NEW o \in Orders, executed'[o] > 0
             PROVE  row'[o].status = "filled" \/ FillOnItsWay(o)' \/ o \in excused'
  BY DEF FillAccounted
<1>1. FillOnItsWay(o) <=> In(results, o) \/ In(inbox, o)
  BY OnItsWay
<1>2. FillOnItsWay(o)' <=> In(results', o) \/ In(inbox', o)
  BY OnItsWayNext
<1> QED
  BY <1>1, <1>2 DEF FillAccounted

LEMMA QueueKeeps ==
  ASSUME TypeOK, NEW m \in Messages, QueueResult(m)
  PROVE  /\ \A o \in Orders : In(results, o) => In(results', o) \/ o \in DroppedByQueue
         /\ m.status = "FILLED" => In(results', m.order)
<1>1. results \in Seq(Messages)
  BY DEF TypeOK
<1>2. CASE Len(results) >= ResultQueueMax
  <2>1. results # <<>>
    BY <1>2, QueueHoldsOne
  <2>2. Tail(results) \in Seq(Messages) /\ results' = Append(Tail(results), m)
    BY <1>1, <1>2, <2>1, Rest DEF QueueResult
  <2>3. DroppedByQueue = {Head(results).order}
    BY <1>2 DEF DroppedByQueue
  <2>4. ASSUME NEW o \in Orders, In(results, o) PROVE In(results', o) \/ o \in DroppedByQueue
    <3>1. In(Tail(results), o) \/ Head(results) = [order |-> o, status |-> "FILLED"]
      BY <1>1, <2>1, <2>4, InTail
    <3>2. In(Tail(results), o) => In(Append(Tail(results), m), o)
      BY <2>2, InAppend
    <3> QED
      BY <2>2, <2>3, <3>1, <3>2
  <2>5. m.status = "FILLED" => In(Append(Tail(results), m), m.order)
    BY <2>2, InAppend
  <2> QED
    BY <2>2, <2>4, <2>5
<1>3. CASE ~(Len(results) >= ResultQueueMax)
  BY <1>1, <1>3, InAppend DEF QueueResult
<1> QED
  BY <1>2, <1>3

LEMMA PublishKeeps ==
  ASSUME TypeOK, AccountInv, NEW m \in Messages, Publish(m), FillInv
  PROVE  /\ \A o \in Orders : In(inbox, o) => In(inbox', o)
         /\ m.status = "FILLED" => In(inbox', m.order) \/ m.order \in excused'
         /\ excused \subseteq excused'
         /\ handler # <<>> => Head(inbox') = Head(inbox)
<1>1. inbox \in Seq(Messages)
  BY DEF TypeOK
<1>2. CASE listener = "on"
  <2>1. inbox' = Append(inbox, m) /\ excused' = excused
    BY <1>2 DEF Publish
  <2>2. handler # <<>> => Head(Append(inbox, m)) = Head(inbox)
    <3> SUFFICES ASSUME handler # <<>> PROVE Head(Append(inbox, m)) = Head(inbox)
      OBVIOUS
    <3>1. inbox # <<>>
      BY DEF FillInv
    <3>2. 1 \in 1..Len(inbox) /\ Head(inbox) = inbox[1]
      BY <1>1, <3>1, FirstMessage
    <3>3. Append(inbox, m) \in Seq(Messages) /\ Append(inbox, m) # <<>>
          /\ Append(inbox, m)[1] = inbox[1]
      BY <1>1, <3>2, AppendProperties
    <3>4. Head(Append(inbox, m)) = Append(inbox, m)[1]
      BY <3>3, FirstMessage
    <3> QED
      BY <3>2, <3>3, <3>4
  <2> QED
    BY <1>1, <2>1, <2>2, InAppend
<1>3. CASE listener # "on"
  BY <1>3 DEF Publish
<1> QED
  BY <1>2, <1>3

LEMMA LostOrders ==
  ASSUME NEW s \in Seq(Messages), NEW o, In(s, o)
  PROVE  o \in {s[i].order : i \in DOMAIN s}
<1>1. DOMAIN s = 1..Len(s)
  BY LenProperties
<1> QED
  BY <1>1 DEF In

LEMMA AccountStep ==
  IInv /\ AccountInv /\ [Next]_vars => AccountInv'
<1> SUFFICES ASSUME IInv, AccountInv, [Next]_vars PROVE AccountInv'
  OBVIOUS
<1> USE DEF tableVars, terminalVars, listenVars, dealVars
<1>1. TypeOK /\ TypeOK' /\ FillInv /\ PlaceInv /\ FillAccounted /\ placed \subseteq excused
  BY TypeStep DEF IInv, AccountInv
<1>2. results \in Seq(Messages) /\ inbox \in Seq(Messages)
  BY <1>1 DEF TypeOK
<1>3. CASE UNCHANGED <<row, results, placed, executed, inbox, handler, excused>>
  <2>1. FillAccounted'
    BY <1>1, <1>3, Kept
  <2> QED
    BY <1>3, <2>1 DEF AccountInv
<1>4. ASSUME NEW o \in Orders, NEW kind \in Kinds, Create(o, kind) PROVE AccountInv'
  <2>1. /\ UNCHANGED <<results, placed, executed, inbox, handler, excused>>
        /\ \A p \in Orders \ {o} : row'[p] = row[p]
    BY <1>1, <1>4 DEF Create, TypeOK
  <2>2. executed[o] = 0
    BY <1>1, <1>4 DEF Create, PlaceInv, Waits
  <2>3. row[o].status # "filled" /\ ~In(inbox, o)
    <3>1. row[o].status # "filled"
      BY <2>2 DEF IInv, NoPhantomFill
    <3>2. ASSUME In(inbox, o) PROVE FALSE
      <4>1. PICK i \in 1..Len(inbox) : inbox[i] = [order |-> o, status |-> "FILLED"]
        BY <3>2 DEF In
      <4>2. inbox[i].status = "FILLED" /\ inbox[i].order = o
        BY <4>1
      <4>3. executed[o] > 0
        BY <1>1, <4>2 DEF FillInv, Witness
      <4> QED
        BY <2>2, <4>3
    <3> QED
      BY <3>1, <3>2
  <2>4. FillAccounted'
    BY <1>1, <2>1, <2>3, Kept
  <2>5. handler # <<>> => Head(inbox).order \in Orders \ {o}
    <3> SUFFICES ASSUME handler # <<>> PROVE Head(inbox).order \in Orders \ {o}
      OBVIOUS
    <3>1. inbox # <<>> /\ Head(inbox).status = "FILLED"
      BY <1>1 DEF FillInv
    <3>2. Head(inbox).order \in Orders /\ Head(inbox) = inbox[1] /\ 1 \in 1..Len(inbox)
      BY <1>2, <3>1, FirstMessage
    <3>3. executed[Head(inbox).order] > 0
      BY <1>1, <3>1, <3>2 DEF FillInv, Witness
    <3> QED
      BY <2>2, <3>2, <3>3
  <2> QED
    BY <2>1, <2>4, <2>5 DEF AccountInv
<1>5. CASE WriteEdit
  <2>1. /\ UNCHANGED <<results, placed, executed, inbox, handler>>
        /\ excused' = excused \cup
             {o \in DOMAIN editor.seen : row[o].status = "filled" /\ row'[o].status # "filled"}
        /\ \A o \in Orders \ DOMAIN editor.seen : row'[o] = row[o]
    BY <1>5 DEF WriteEdit
  <2>2. \A o \in Orders : row[o].status = "filled" =>
          row'[o].status = "filled" \/ o \in excused'
    BY <2>1
  <2>3. FillAccounted'
    BY <1>1, <2>1, <2>2, Kept
  <2>4. handler # <<>> => Head(inbox).order \in Orders
    BY <1>1, <1>2, FirstMessage DEF FillInv
  <2> QED
    BY <2>1, <2>2, <2>3, <2>4 DEF AccountInv
<1>6. ASSUME NEW outcome \in Outcomes, NEW trades \in BOOLEAN, Execute(outcome, trades)
      PROVE  AccountInv'
  <2> DEFINE o == Head(commands)
             m == [order |-> o, status |-> outcome]
  <2>1. o \in Orders /\ m \in Messages /\ QueueResult(m) /\ m.order = o /\ m.status = outcome
    BY <1>1, <1>6, Rest DEF Execute, TypeOK, Messages
  <2>2. /\ UNCHANGED <<row, inbox, handler>>
        /\ executed' = IF trades THEN [executed EXCEPT ![o] = @ + 1] ELSE executed
        /\ placed' = IF outcome = "PLACED" THEN placed \cup {o} ELSE placed
        /\ excused' = excused \cup DroppedByQueue
                        \cup (IF outcome = "FILLED" THEN {} ELSE {o})
    BY <1>6 DEF Execute
  <2> HIDE DEF o, m
  <2>3. /\ \A p \in Orders : In(results, p) => In(results', p) \/ p \in DroppedByQueue
        /\ outcome = "FILLED" => In(results', o)
    BY <1>1, <2>1, QueueKeeps
  <2>4. \A p \in Orders : executed'[p] > 0 => executed[p] > 0 \/ p = o
    BY <1>1, <2>1, <2>2 DEF TypeOK
  <2>5. \A p \in Orders : executed'[p] > 0 => executed[p] > 0 \/ In(results', p) \/ p \in excused'
    BY <2>2, <2>3, <2>4
  <2>6. FillAccounted'
    BY <1>1, <2>2, <2>3, <2>5, Kept
  <2> QED
    BY <1>1, <2>2, <2>6 DEF AccountInv
<1>7. ASSUME NEW o \in Orders, PlacedFills(o) PROVE AccountInv'
  <2>1. /\ UNCHANGED <<row, results, inbox, handler, excused>> /\ o \in excused
        /\ placed' = placed \ {o} /\ executed' = [executed EXCEPT ![o] = @ + 1]
    BY <1>1, <1>7 DEF PlacedFills
  <2>2. \A p \in Orders : executed'[p] > 0 => executed[p] > 0 \/ p = o
    BY <1>1, <2>1 DEF TypeOK
  <2>3. FillAccounted'
    BY <1>1, <2>1, <2>2, Kept
  <2> QED
    BY <1>1, <2>1, <2>3 DEF AccountInv
<1>8. ASSUME results # <<>>, Publish(Head(results)), results' \in {results, Tail(results)},
             UNCHANGED <<row, placed, executed>>
      PROVE  AccountInv'
  <2>1. Head(results) \in Messages
    BY <1>2, <1>8, FirstMessage
  <2>2. /\ \A o \in Orders : In(inbox, o) => In(inbox', o)
        /\ Head(results).status = "FILLED" =>
             In(inbox', Head(results).order) \/ Head(results).order \in excused'
        /\ excused \subseteq excused'
        /\ handler # <<>> => Head(inbox') = Head(inbox)
    BY <1>1, <1>8, <2>1, PublishKeeps
  <2>3. \A o \in Orders : In(results, o) => In(results', o) \/ In(inbox', o) \/ o \in excused'
    <3> SUFFICES ASSUME NEW o \in Orders, In(results, o), results' = Tail(results)
                 PROVE  In(results', o) \/ In(inbox', o) \/ o \in excused'
      BY <1>8
    <3>1. In(Tail(results), o) \/ Head(results) = [order |-> o, status |-> "FILLED"]
      BY <1>2, <1>8, InTail
    <3> QED
      BY <2>2, <3>1
  <2>4. FillAccounted'
    BY <1>1, <1>8, <2>2, <2>3, Kept
  <2>5. UNCHANGED handler
    BY <1>8 DEF Publish
  <2> QED
    BY <1>1, <1>8, <2>2, <2>4, <2>5 DEF AccountInv
<1>9. CASE FlushResult \/ FlushUnanswered
  BY <1>8, <1>9 DEF FlushResult, FlushUnanswered
<1>10. CASE TerminalRestart
  <2>1. /\ UNCHANGED <<row, placed, executed, inbox, handler>>
        /\ excused' = excused \cup {results[i].order : i \in DOMAIN results}
    BY <1>10 DEF TerminalRestart
  <2>2. \A o \in Orders : In(results, o) => o \in excused'
    BY <1>2, <2>1, LostOrders
  <2>3. FillAccounted'
    BY <1>1, <2>1, <2>2, Kept
  <2> QED
    BY <1>1, <2>1, <2>3 DEF AccountInv
<1>11. CASE ReadResult
  <2>1. /\ UNCHANGED <<row, results, placed, executed, inbox, excused>>
        /\ handler' = <<row[Head(inbox).order]>>
    BY <1>11 DEF ReadResult
  <2>2. FillAccounted'
    BY <1>1, <2>1, Kept
  <2>3. handler'[1] = row[Head(inbox).order]
    BY <2>1
  <2> QED
    BY <1>1, <2>1, <2>2, <2>3 DEF AccountInv
<1>12. CASE SkipResult
  <2>1. /\ UNCHANGED <<row, results, placed, executed, handler, excused>> /\ handler = <<>>
        /\ inbox # <<>> /\ inbox' = Tail(inbox) /\ Head(inbox).status # "FILLED"
    BY <1>12 DEF SkipResult
  <2>2. \A o \in Orders : In(inbox, o) => In(inbox', o)
    BY <1>2, <2>1, InTail
  <2>3. FillAccounted'
    BY <1>1, <2>1, <2>2, Kept
  <2> QED
    BY <1>1, <2>1, <2>3 DEF AccountInv
<1>13. CASE CommitResult
  <2> DEFINE o == Head(inbox).order
  <2>1. /\ UNCHANGED <<results, placed, executed, excused>> /\ handler # <<>>
        /\ inbox' = Tail(inbox) /\ handler' = <<>>
        /\ row' = [row EXCEPT ![o] = Flushed(@, handler[1], Filled(handler[1]))]
    BY <1>13 DEF CommitResult
  <2>2. inbox # <<>> /\ o \in Orders
    BY <1>1, <1>2, <2>1, FirstMessage DEF FillInv
  <2>3. handler[1] \in Rows /\ row[o] \in Rows
    BY <1>1, <2>1, <2>2, Rest DEF TypeOK
  <2>4. row'[o] = Flushed(row[o], handler[1], Filled(handler[1]))
        /\ \A p \in Orders \ {o} : row'[p] = row[p]
    BY <1>1, <2>1, <2>2 DEF TypeOK
  <2>5. Filled(handler[1]) \in Rows /\ Filled(handler[1]).status = "filled"
    BY <2>3, NewRows
  <2>6. row'[o].status = IF handler[1].status = "filled" THEN row[o].status ELSE "filled"
    BY <2>3, <2>4, <2>5, FlushedRow
  <2>7. handler[1].status = "filled" => row[o].status = "filled" \/ o \in excused
    BY <2>1 DEF AccountInv
  <2>8. row'[o].status = "filled" \/ o \in excused
    BY <2>6, <2>7
  <2>9. \A p \in Orders : In(inbox, p) =>
          In(inbox', p) \/ row'[p].status = "filled" \/ p \in excused
    <3> SUFFICES ASSUME NEW p \in Orders, In(inbox, p)
                 PROVE  In(Tail(inbox), p) \/ row'[p].status = "filled" \/ p \in excused
      BY <2>1
    <3>1. In(Tail(inbox), p) \/ Head(inbox) = [order |-> p, status |-> "FILLED"]
      BY <1>2, <2>2, InTail
    <3>2. Head(inbox) = [order |-> p, status |-> "FILLED"] => o = p
      OBVIOUS
    <3> QED
      BY <2>8, <3>1, <3>2
  <2>10. \A p \in Orders : row[p].status = "filled" => row'[p].status = "filled" \/ p \in excused
    BY <2>4, <2>8
  <2>11. FillAccounted'
    BY <1>1, <2>1, <2>9, <2>10, Kept
  <2> QED
    BY <1>1, <2>1, <2>11 DEF AccountInv
<1>14. CASE CommitFails
  <2>1. /\ UNCHANGED <<row, results, placed, executed>> /\ handler # <<>>
        /\ inbox' = Tail(inbox) /\ handler' = <<>>
        /\ excused' = excused \cup {Head(inbox).order}
    BY <1>14 DEF CommitFails
  <2>2. inbox # <<>>
    BY <1>1, <2>1 DEF FillInv
  <2>3. \A p \in Orders : In(inbox, p) => In(inbox', p) \/ p \in excused'
    BY <1>2, <2>1, <2>2, InTail
  <2>4. FillAccounted'
    BY <1>1, <2>1, <2>3, Kept
  <2> QED
    BY <1>1, <2>1, <2>4 DEF AccountInv
<1>15. CASE ListenerDies \/ Crash
  <2>1. /\ UNCHANGED <<row, results, placed, executed>>
        /\ inbox' = <<>> /\ handler' = <<>>
        /\ excused' = excused \cup {inbox[i].order : i \in DOMAIN inbox}
    BY <1>15 DEF ListenerDies, Crash
  <2>2. \A o \in Orders : In(inbox, o) => o \in excused'
    BY <1>2, <2>1, LostOrders
  <2>3. FillAccounted'
    BY <1>1, <2>1, <2>2, Kept
  <2> QED
    BY <1>1, <2>1, <2>3 DEF AccountInv
<1>16. CASE \/ LoseCommand \/ SendDeals \/ DealsWorker \/ DealsFail \/ Restart \/ ReadAllPending
            \/ UNCHANGED vars
  BY <1>3, <1>16 DEF LoseCommand, SendDeals, DealsWorker, PopDeals, CommitDeals, DealsFail,
       Restart, ReadAllPending, Edit, vars
<1>17. ASSUME NEW o \in Orders, Push(o) \/ PushFails(o) \/ ReadForCancel(o) \/ ReadForModify(o)
       PROVE  AccountInv'
  BY <1>3, <1>17 DEF Push, PushFails, ReadForCancel, ReadForModify, Edit
<1> QED
  BY <1>4, <1>5, <1>6, <1>7, <1>9, <1>10, <1>11, <1>12, <1>13, <1>14, <1>15, <1>16, <1>17
  DEF Next

-----------------------------------------------------------------------------
(* Theorems *)

LEMMA Invariance == Spec => []IInv
<1>1. Init => IInv
  BY InitInv
<1>2. IInv /\ [Next]_vars => IInv'
  BY TypeStep, FillStep, PhantomStep, PlaceStep DEF IInv
<1> QED
  BY <1>1, <1>2, PTL DEF Spec

(* Every variable keeps its type; the terminal's queue of results keeps    *)
(* its limit.                                                              *)
THEOREM TypeCorrect == Spec => []TypeOK
<1>1. IInv => TypeOK
  BY DEF IInv
<1> QED
  BY <1>1, Invariance, PTL

(* The orders table never shows a fill of an order that the broker did not *)
(* execute (update_status, cancel and modify, in any order, with repeated, *)
(* lost and late results).                                                 *)
THEOREM FillsAreReal == Spec => []NoPhantomFill
<1>1. IInv => NoPhantomFill
  BY DEF IInv
<1> QED
  BY <1>1, Invariance, PTL

(* No order entered over REST is executed twice, and a resting order not   *)
(* at all: each command is pushed once and popped once.                    *)
THEOREM ExecutedOnce == Spec => []OneExecution
<1>1. IInv => OneExecution
  BY DEF IInv
<1> QED
  BY <1>1, Invariance, PTL

(* An executed order has a row that says so, or its FILLED result is still *)
(* under way, or one of the leaks the model names took it.                 *)
THEOREM FillsAreAccounted == Spec => []FillAccounted
<1>1. Init => AccountInv
  BY DEF Init, AccountInv, FillAccounted
<1>2. IInv /\ AccountInv /\ [Next]_vars => AccountInv'
  BY AccountStep
<1>3. AccountInv => FillAccounted
  BY DEF AccountInv
<1> QED
  BY <1>1, <1>2, <1>3, Invariance, PTL DEF Spec
=============================================================================
