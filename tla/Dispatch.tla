------------------------------ MODULE Dispatch ------------------------------
(***************************************************************************)
(* The path of one approved decision from ExecutionRouter.dispatch         *)
(* (trade_core/execution_router.py) through BridgeClient.send_and_wait     *)
(* (bridge/client.py) and Redis to the MT5 terminal and back.              *)
(*                                                                         *)
(* A dispatch call is a coroutine that awaits PostgreSQL, Redis and the    *)
(* pub/sub connection in turn; every await is a separate action here, so   *)
(* calls for the same lineage interleave at every point where the event    *)
(* loop or another API process may run.                                    *)
(*                                                                         *)
(* A key is <<lineage_id, attempt>>: it names both the Redis claim         *)
(* mt5:dedup:{order}:{attempt} and the command_id "{lineage}:{attempt}".   *)
(* A token <<lineage_id, attempt, n>> is the n-th LPUSH of that command;   *)
(* n is history, the wire format carries the command_id only.              *)
(***************************************************************************)
EXTENDS Naturals, Sequences

CONSTANTS
  Lineages,     \* approved decisions, one lineage_id each
  Attempts,     \* values of dispatch's `attempt` argument in use
  Callers,      \* concurrent dispatch calls (tasks of one or more processes)
  MaxCalls,     \* bound: dispatch calls over the whole behaviour
  MaxFaults,    \* bound: aborts, lost deliveries and database failures
  MaxExpiries,  \* bound: claims that reach their 3600 s TTL
  MaxForeign    \* bound: results of other producers on the shared channel

ASSUME BoundsAreNaturals ==
  /\ MaxCalls \in Nat
  /\ MaxFaults \in Nat
  /\ MaxExpiries \in Nat
  /\ MaxForeign \in Nat

VARIABLES
  processed,   \* processed_commands: lineage -> stored result, or "none"
  fills,       \* lineages with a committed fills row
  claims,      \* dedup keys present in Redis
  commands,    \* the Redis LIST mt5:commands, oldest first
  outbox,      \* results the terminal has not published yet
  executions,  \* the broker's deals in order: the token each one executed
  call,        \* per caller: where its dispatch coroutine stands
  \* bounded counters and history
  sends,       \* key -> number of LPUSHes so far
  reopened,    \* keys whose claim was deleted or expired at least once
  budget       \* what is left of every bound

vars == <<processed, fills, claims, commands, outbox, executions, call,
          sends, reopened, budget>>

Keys     == Lineages \X Attempts
Tokens   == Lineages \X Attempts \X (Nat \ {0})
Statuses == {"filled", "rejected"}
KeyOf(token) == <<token[1], token[2]>>

NoKey == <<>>

(* A message on mt5:results: a BridgeResult names its command; anything a  *)
(* BridgeResult cannot be validated from is `Foreign`.                     *)
Foreign == [key |-> NoKey, status |-> "foreign"]
Message == [key : Keys, status : Statuses] \cup {Foreign}

(* Where a dispatch coroutine can be suspended.                            *)
Phases == {"idle", "lookup", "claim", "push", "subscribe", "wait",
           "persist", "release"}
(* The phases between a granted claim and the end of the call.             *)
Holding == {"push", "subscribe", "wait", "persist", "release"}

Idle  == [pc |-> "idle", key |-> NoKey, tca |-> FALSE, inbox |-> <<>>,
          status |-> "none"]

Move(c, from, to) ==
  /\ call[c].pc = from
  /\ call' = [call EXCEPT ![c].pc = to]

(* Bug variant of Finish: key and result of the call survive it.           *)
FinishKeepingFrame(c) == call' = [call EXCEPT ![c].pc = "idle"]

(* The call returns or raises: its frame is gone.                          *)
Finish(c) == call' = [call EXCEPT ![c] = Idle]

Spend(what) ==
  /\ budget[what] > 0
  /\ budget' = [budget EXCEPT ![what] = @ - 1]

Init ==
  /\ processed  = [l \in Lineages |-> "none"]
  /\ fills      = {}
  /\ claims     = {}
  /\ commands   = <<>>
  /\ outbox     = <<>>
  /\ executions = <<>>
  /\ call       = [c \in Callers |-> Idle]
  /\ sends      = [k \in Keys |-> 0]
  /\ reopened   = {}
  /\ budget     = [calls |-> MaxCalls, faults |-> MaxFaults,
                   expiries |-> MaxExpiries, foreign |-> MaxForeign]

-----------------------------------------------------------------------------
(* ExecutionRouter.dispatch                                                *)

(* WHO: the orchestrator, or whoever retries a decision.  The TCA context  *)
(* is present only when the cycle knows broker and account.                *)
StartDispatch(c) ==
  /\ call[c].pc = "idle"
  /\ Spend("calls")
  /\ \E k \in Keys, t \in BOOLEAN :
       call' = [call EXCEPT ![c] =
                  [pc |-> "lookup", key |-> k, tca |-> t, inbox |-> <<>>,
                   status |-> "none"]]
  /\ UNCHANGED <<processed, fills, claims, commands, outbox, executions,
                 sends, reopened>>

(* Step 1, session.get(ProcessedCommand): a hit is returned as a replay.   *)
Lookup(c) ==
  /\ call[c].pc = "lookup"
  /\ \/ /\ processed[call[c].key[1]] = "none"
        /\ Move(c, "lookup", "claim")
     \/ /\ processed[call[c].key[1]] # "none"
        /\ Finish(c)
  /\ UNCHANGED <<processed, fills, claims, commands, outbox, executions,
                 sends, reopened, budget>>

(* Step 2, SET key NX EX 3600: the loser raises IdempotencyError.          *)
Claim(c) ==
  /\ call[c].pc = "claim"
  /\ \/ /\ call[c].key \notin claims
        /\ claims' = claims \cup {call[c].key}
        /\ Move(c, "claim", "push")
     \/ /\ call[c].key \in claims
        /\ Finish(c)
        /\ UNCHANGED claims
  /\ UNCHANGED <<processed, fills, commands, outbox, executions, sends,
                 reopened, budget>>

(* Step 3a, BridgeClient.send_command: LPUSH.                              *)
Push(c) ==
  LET k == call[c].key
      n == sends[k] + 1
  IN /\ Move(c, "push", "subscribe")
     /\ sends' = [sends EXCEPT ![k] = n]
     /\ commands' = Append(commands, <<k[1], k[2], n>>)
     /\ UNCHANGED <<processed, fills, claims, outbox, executions, reopened,
                    budget>>

(* Step 3b, receive_result: SUBSCRIBE comes after the LPUSH, so a result   *)
(* published in between finds no subscriber.                               *)
Subscribe(c) ==
  /\ Move(c, "subscribe", "wait")
  /\ UNCHANGED <<processed, fills, claims, commands, outbox, executions,
                 sends, reopened, budget>>

(* Bug variant of Receive: the first result on the channel is taken for    *)
(* the awaited one.                                                        *)
ReceiveAnyCommand(c) ==
  /\ call[c].pc = "wait"
  /\ call[c].inbox # <<>>
  /\ Head(call[c].inbox) # Foreign
  /\ call' = [call EXCEPT ![c].pc = "persist", ![c].inbox = <<>>,
                          ![c].status = Head(call[c].inbox).status]
  /\ UNCHANGED <<processed, fills, claims, commands, outbox, executions,
                 sends, reopened, budget>>

(* Step 3c, one round of the get_message loop.  A message that does not    *)
(* validate as a BridgeResult raises out of dispatch; the claim stays.     *)
Receive(c) ==
  /\ call[c].pc = "wait"
  /\ call[c].inbox # <<>>
  /\ LET m == Head(call[c].inbox)
     IN \/ /\ m = Foreign
           /\ Finish(c)
        \/ /\ m # Foreign
           /\ m.key = call[c].key
           /\ call' = [call EXCEPT ![c].pc = "persist", ![c].inbox = <<>>,
                                   ![c].status = m.status]
        \/ /\ m # Foreign
           /\ m.key # call[c].key
           /\ call' = [call EXCEPT ![c].inbox = Tail(@)]
  /\ UNCHANGED <<processed, fills, claims, commands, outbox, executions,
                 sends, reopened, budget>>

(* Bug variant of Timeout: the claim is deleted as after a failed persist. *)
TimeoutReleasing(c) ==
  /\ call[c].pc = "wait"
  /\ Finish(c)
  /\ claims' = claims \ {call[c].key}
  /\ UNCHANGED <<processed, fills, commands, outbox, executions, sends,
                 reopened, budget>>

(* Bug variant of Timeout: the deadline is looked at only when a message   *)
(* has arrived.                                                            *)
TimeoutOnMessage(c) ==
  /\ call[c].pc = "wait"
  /\ call[c].inbox # <<>>
  /\ Finish(c)
  /\ UNCHANGED <<processed, fills, claims, commands, outbox, executions,
                 sends, reopened, budget>>

(* BridgeTimeoutError -> ExecutionError; neither the claim nor the command *)
(* is withdrawn.  The 30 s deadline may beat a message already buffered.   *)
Timeout(c) ==
  /\ call[c].pc = "wait"
  /\ Finish(c)
  /\ UNCHANGED <<processed, fills, claims, commands, outbox, executions,
                 sends, reopened, budget>>

(* Step 4, the one transaction with fills, tca and processed_commands.     *)
(* processed_commands has lineage_id as its primary key.                   *)
CommitRecord(l, status, tca) ==
  /\ processed[l] = "none"
  /\ processed' = [processed EXCEPT ![l] = status]
  /\ fills' = IF tca /\ status = "filled" THEN fills \cup {l} ELSE fills

Record(c) ==
  /\ call[c].pc = "persist"
  /\ CommitRecord(call[c].key[1], call[c].status, call[c].tca)
  /\ Finish(c)
  /\ UNCHANGED <<claims, commands, outbox, executions, sends, reopened,
                 budget>>

(* The primary key is taken, so commit raises and is rolled back.          *)
RecordConflicts(c) ==
  /\ Move(c, "persist", "release")
  /\ processed[call[c].key[1]] # "none"
  /\ UNCHANGED <<processed, fills, claims, commands, outbox, executions,
                 sends, reopened, budget>>

(* Any other exception of step 4: missing price or volume, no TCA          *)
(* benchmark, a database error.  The last disjunct is a COMMIT that took   *)
(* effect while its acknowledgement was lost.                              *)
RecordFails(c) ==
  /\ Move(c, "persist", "release")
  /\ Spend("faults")
  /\ \/ UNCHANGED <<processed, fills>>
     \/ CommitRecord(call[c].key[1], call[c].status, call[c].tca)
  /\ UNCHANGED <<claims, commands, outbox, executions, sends, reopened>>

(* DELETE of the dedup key, then ExecutionError.                           *)
Release(c) ==
  /\ call[c].pc = "release"
  /\ claims' = claims \ {call[c].key}
  /\ reopened' = reopened \cup {call[c].key}
  /\ Finish(c)
  /\ UNCHANGED <<processed, fills, commands, outbox, executions, sends,
                 budget>>

(* The process dies, the task is cancelled, or a Redis call raises: no     *)
(* handler runs, the transaction rolls back, the claim stays.  Suppressed  *)
(* failure of the DELETE is the case call[c].pc = "release".               *)
Abort(c) ==
  /\ call[c].pc # "idle"
  /\ Spend("faults")
  /\ Finish(c)
  /\ UNCHANGED <<processed, fills, claims, commands, outbox, executions,
                 sends, reopened>>

(* The TTL runs out.  3600 s is two orders of magnitude above the longest  *)
(* dispatch (30 s wait plus a transaction), so no call for the key is      *)
(* still running.                                                          *)
ExpireClaim(k) ==
  /\ k \in claims
  /\ \A c \in Callers : call[c].key # k
  /\ Spend("expiries")
  /\ claims' = claims \ {k}
  /\ reopened' = reopened \cup {k}
  /\ UNCHANGED <<processed, fills, commands, outbox, executions, call, sends>>

-----------------------------------------------------------------------------
(* The terminal behind the HTTP proxy: BRPOP, act once, PUBLISH.           *)

(* Bug variant of Serve: the command is read without being removed.        *)
ServePeeking ==
  /\ commands # <<>>
  /\ executions' = Append(executions, Head(commands))
  /\ outbox' = Append(outbox, [key |-> KeyOf(Head(commands)), status |-> "filled"])
  /\ UNCHANGED <<processed, fills, claims, commands, call, sends, reopened, budget>>

(* The command reached the terminal.  It fills or rejects the order and    *)
(* answers with a BridgeResult, the contract of bridge/types.py and        *)
(* mt5-integration.md, or it answers without a command_id: LumineEA.mq5    *)
(* does so, and for BUY and SELL it always reports an unknown action.      *)
Serve ==
  /\ commands # <<>>
  /\ commands' = Tail(commands)
  /\ LET t == Head(commands)
         k == KeyOf(t)
     IN \/ /\ executions' = Append(executions, t)
           /\ outbox' = Append(outbox, [key |-> k, status |-> "filled"])
        \/ /\ outbox' = Append(outbox, [key |-> k, status |-> "rejected"])
           /\ UNCHANGED executions
        \/ /\ outbox' = Append(outbox, Foreign)
           /\ UNCHANGED executions
  /\ UNCHANGED <<processed, fills, claims, call, sends, reopened, budget>>

(* BRPOP removed the command but the HTTP response never arrived.          *)
LoseCommand ==
  /\ commands # <<>>
  /\ Spend("faults")
  /\ commands' = Tail(commands)
  /\ UNCHANGED <<processed, fills, claims, outbox, executions, call, sends,
                 reopened>>

(* PUBLISH reaches exactly the connections subscribed at that moment.      *)
Deliver(m) ==
  call' = [c \in Callers |->
             IF call[c].pc = "wait"
             THEN [call[c] EXCEPT !.inbox = Append(@, m)]
             ELSE call[c]]

PublishResult ==
  /\ outbox # <<>>
  /\ Deliver(Head(outbox))
  /\ outbox' = Tail(outbox)
  /\ UNCHANGED <<processed, fills, claims, commands, executions, sends,
                 reopened, budget>>

(* The proxy published but its 200 was lost: the terminal keeps the result *)
(* at the head of its queue and will post it again.                        *)
PublishAgain ==
  /\ outbox # <<>>
  /\ Spend("faults")
  /\ Deliver(Head(outbox))
  /\ UNCHANGED <<processed, fills, claims, commands, outbox, executions,
                 sends, reopened>>

(* The terminal restarts: its result queue lives in memory.                *)
TerminalRestart ==
  /\ outbox # <<>>
  /\ Spend("faults")
  /\ outbox' = <<>>
  /\ UNCHANGED <<processed, fills, claims, commands, executions, call, sends,
                 reopened>>

(* MT5Bridge shares mt5:results; its results carry no command_id.          *)
ForeignResult ==
  /\ \E c \in Callers : call[c].pc = "wait"
  /\ Spend("foreign")
  /\ Deliver(Foreign)
  /\ UNCHANGED <<processed, fills, claims, commands, outbox, executions,
                 sends, reopened>>

-----------------------------------------------------------------------------
(* The steps a running coroutine takes without outside help.               *)
CallStep(c) ==
  \/ Lookup(c) \/ Claim(c) \/ Push(c) \/ Subscribe(c)
  \/ Receive(c) \/ Timeout(c)
  \/ Record(c) \/ RecordConflicts(c) \/ Release(c)

Next ==
  \/ \E c \in Callers :
       \/ StartDispatch(c) \/ CallStep(c) \/ RecordFails(c) \/ Abort(c)
  \/ \E k \in Keys : ExpireClaim(k)
  \/ Serve \/ LoseCommand
  \/ PublishResult \/ PublishAgain \/ TerminalRestart \/ ForeignResult

Spec == Init /\ [][Next]_vars

(* asyncio resumes every ready coroutine and the wait has a deadline.      *)
Fairness == \A c \in Callers : WF_vars(CallStep(c))
FairSpec == Spec /\ Fairness

-----------------------------------------------------------------------------
(* Properties *)

CallFrame ==
  [pc : Phases \ {"idle"}, key : Keys, tca : BOOLEAN, inbox : Seq(Message),
   status : Statuses \cup {"none"}]

Budget == [calls : 0..MaxCalls, faults : 0..MaxFaults,
           expiries : 0..MaxExpiries, foreign : 0..MaxForeign]

(* Every variable has its type; a coroutine that persists has a result.    *)
TypeOK ==
  /\ processed \in [Lineages -> Statuses \cup {"none"}]
  /\ fills \in SUBSET Lineages
  /\ claims \in SUBSET Keys
  /\ commands \in Seq(Tokens)
  /\ outbox \in Seq(Message)
  /\ executions \in Seq(Tokens)
  /\ call \in [Callers -> CallFrame \cup {Idle}]
  /\ \A c \in Callers : call[c].pc = "persist" => call[c].status \in Statuses
  /\ sends \in [Keys -> Nat]
  /\ reopened \in SUBSET Keys
  /\ budget \in Budget

(* Two dispatch calls for one order attempt are never between a granted    *)
(* claim and their end at the same time, and the claim of a call in that   *)
(* interval is still in Redis: so the unconditional DELETE of the failure  *)
(* path never removes the claim of another call.                           *)
ClaimIsExclusive ==
  \A c \in Callers : call[c].pc \in Holding =>
    /\ call[c].key \in claims
    /\ \A d \in Callers \ {c} :
         call[d].pc \in Holding => call[d].key # call[c].key

(* The order window of D8-9: as long as the claim of an order attempt was  *)
(* neither deleted by a failed persist nor expired, the broker executes    *)
(* the order at most once, whatever callers retry, abort or time out, and  *)
(* whatever commands and results are lost or repeated on the way.          *)
OneExecutionPerWindow ==
  \A i, j \in DOMAIN executions :
    i # j /\ KeyOf(executions[i]) = KeyOf(executions[j])
      => KeyOf(executions[i]) \in reopened

(* The ledger never invents a trade: a decision stored as filled was       *)
(* executed by the broker for that very lineage, and a fills row exists    *)
(* only beside such a record.  Late, repeated and foreign results on the   *)
(* shared channel must not be taken for the awaited one.                   *)
RecordedFillIsReal ==
  \A l \in Lineages :
    /\ l \in fills => processed[l] = "filled"
    /\ processed[l] = "filled" => \E i \in DOMAIN executions : executions[i][1] = l

(* No dispatch call hangs: whatever the terminal does or does not answer,  *)
(* the call returns or raises.                                             *)
DispatchTerminates ==
  \A c \in Callers : call[c].pc # "idle" ~> call[c].pc = "idle"

(* The promise of the module docstring and of redis-roles.md taken at its  *)
(* word: within the window an order is not dispatched twice to the broker. *)
NoDuplicateExecution ==
  \A i, j \in DOMAIN executions :
    KeyOf(executions[i]) = KeyOf(executions[j]) => i = j

(* The dispatch path implements the order ledger.                          *)
Ledger == INSTANCE OrderLedger WITH submitted <- sends, executed <- executions,
                                    outcome <- processed, voided <- reopened
LedgerSpec == Ledger!Spec
=============================================================================
