------------------------------ MODULE RpcQueue ------------------------------
(***************************************************************************)
(* Operational commands: the producers of api/routers/rpc.py and of the    *)
(* decision scheduler in api/app.py, the Redis stream rpc:commands with    *)
(* its consumer group (rpc/queue.py), the worker loop (rpc/worker.py) and  *)
(* the Redis kill switch that the worker, the admin endpoint and           *)
(* reconciliation.arm_kill_switch write.                                   *)
(*                                                                         *)
(* A command is produced once; its command_id is the command itself here.  *)
(* Every await of the producers and of the worker is an action.  One API   *)
(* process (uvicorn without --workers) hosts the request handlers, the     *)
(* scheduler and the one consumer worker-1.  The 24 h TTL of receipts and  *)
(* results is beyond the horizon of the model.                             *)
(***************************************************************************)
EXTENDS Naturals, Sequences, FiniteSets

CONSTANTS
  Cycles,      \* run_decision_cycle commands
  Halts,       \* halt_trading commands
  Resumes,     \* resume_trading commands
  Cancels,     \* cancel_order commands
  BatchSize,   \* XREADGROUP count
  MaxCrashes,  \* bound: process crashes and redeployments
  MaxFaults,   \* bound: Redis calls that raise
  MaxAdmin     \* bound: kill switch writes from outside the queue

ASSUME BatchSizeIsPositive == BatchSize \in Nat \ {0}
ASSUME BoundsAreNaturals ==
  MaxCrashes \in Nat /\ MaxFaults \in Nat /\ MaxAdmin \in Nat
ASSUME KindsAreDisjoint ==
  /\ (Cycles \cup Halts) \cap (Resumes \cup Cancels) = {}
  /\ Cycles \cap Halts = {}
  /\ Resumes \cap Cancels = {}

Cmds == Cycles \cup Halts \cup Resumes \cup Cancels

VARIABLES
  producer,    \* per command: where its request handler stands
  stream,      \* entries of rpc:commands, oldest first
  delivered,   \* last-delivered-id of the group, as an index
  pending,     \* the group's pending entries list
  receipt,     \* rpc:receipts:{id} status
  result,      \* rpc:results:{id} status
  worker,      \* the consumer loop: its batch and the step it is at
  killSwitch,  \* the value behind kill:switch
  schedLock,   \* lumine:decision_cycle_lock is set
  \* history and bounds
  applied,     \* handlers that ran, in the order of their effects
  unreported,  \* commands whose processing raised out of _process
  budget

vars == <<producer, stream, delivered, pending, receipt, result, worker,
          killSwitch, schedLock, applied, unreported, budget>>

Terminal == {"completed", "failed"}

(* A hash once halted or resumed; a plain string after arm_kill_switch, on *)
(* which every hash command raises WRONGTYPE.                              *)
SwitchValues == {"unset", "armed", "disarmed", "string"}

At(pc) == [pc |-> pc, batch |-> <<>>, outcome |-> "none"]

(* "down": no process; "dead": the process lives, its worker task ended.   *)
Stopped == {"down", "dead"}

Spend(what) ==
  /\ budget[what] > 0
  /\ budget' = [budget EXCEPT ![what] = @ - 1]

Init ==
  /\ producer   = [c \in Cmds |-> "new"]
  /\ stream     = <<>>
  /\ delivered  = 0
  /\ pending    = {}
  /\ receipt    = [c \in Cmds |-> "none"]
  /\ result     = [c \in Cmds |-> "none"]
  /\ worker     = At("poll")
  /\ killSwitch = "unset"
  /\ schedLock  = FALSE
  /\ applied    = <<>>
  /\ unreported = {}
  /\ budget     = [crashes |-> MaxCrashes, faults |-> MaxFaults, admin |-> MaxAdmin]

-----------------------------------------------------------------------------
(* Producers *)

queueVars   == <<stream, delivered, pending, receipt, result>>
historyVars == <<applied, unreported>>

(* POST /rpc/run-decision-cycle: refused while armed, and refused with an  *)
(* error when HGET meets a string.  The other endpoints have no gate.      *)
Request(c) ==
  /\ producer[c] = "new"
  /\ producer' = [producer EXCEPT ![c] =
                    IF c \in Cycles /\ killSwitch \in {"armed", "string"}
                    THEN "refused" ELSE "xadd"]
  /\ UNCHANGED <<queueVars, worker, killSwitch, schedLock, historyVars, budget>>

(* _decision_scheduler: SET NX EX 240 and enqueue; no kill switch check.   *)
Schedule(c) ==
  /\ c \in Cycles
  /\ producer[c] = "new"
  /\ ~schedLock
  /\ schedLock' = TRUE
  /\ producer' = [producer EXCEPT ![c] = "xadd"]
  /\ UNCHANGED <<queueVars, worker, killSwitch, historyVars, budget>>

SchedLockExpires ==
  /\ schedLock
  /\ schedLock' = FALSE
  /\ UNCHANGED <<producer, queueVars, worker, killSwitch, historyVars, budget>>

(* enqueue_command, first await: XADD.                                     *)
AddToStream(c) ==
  /\ producer[c] = "xadd"
  /\ stream' = Append(stream, c)
  /\ producer' = [producer EXCEPT ![c] = "receipt"]
  /\ UNCHANGED <<delivered, pending, receipt, result, worker, killSwitch,
                 schedLock, historyVars, budget>>

(* enqueue_command, second await: HSET of the receipt, however far the     *)
(* worker has got in the meantime.                                         *)
WriteReceipt(c) ==
  /\ producer[c] = "receipt"
  /\ receipt' = [receipt EXCEPT ![c] = "queued"]
  /\ producer' = [producer EXCEPT ![c] = "done"]
  /\ UNCHANGED <<stream, delivered, pending, result, worker, killSwitch,
                 schedLock, historyVars, budget>>

(* A Redis call of the request raises: the client sees an error, and what  *)
(* was already written stays.                                              *)
RequestFails(c) ==
  /\ producer[c] \in {"xadd", "receipt"}
  /\ Spend("faults")
  /\ producer' = [producer EXCEPT ![c] = "done"]
  /\ UNCHANGED <<queueVars, worker, killSwitch, schedLock, historyVars>>

(* Bug variant of StatusOf: the receipt alone.                             *)
ReceiptOf(c) == receipt[c]

(* get_result: the result record if there is one, else the receipt.        *)
StatusOf(c) == IF result[c] # "none" THEN result[c] ELSE receipt[c]

-----------------------------------------------------------------------------
(* The worker loop *)

Current == Head(worker.batch)

(* Bug variant of NextBatch: nothing until COUNT entries are there.        *)
NextBatchWhenFull ==
  IF Len(stream) - delivered < BatchSize THEN <<>>
  ELSE SubSeq(stream, delivered + 1, delivered + BatchSize)

(* The next entries XREADGROUP ">" returns: those no consumer ever got.    *)
NextBatch ==
  LET n == Len(stream) - delivered
  IN SubSeq(stream, delivered + 1, delivered + IF n < BatchSize THEN n ELSE BatchSize)

(* Bug variant of HandOut: XREADGROUP with NOACK.                          *)
HandOutNoAck(batch) ==
  /\ worker.pc = "poll"
  /\ batch # <<>>
  /\ delivered' = delivered + Len(batch)
  /\ UNCHANGED <<producer, stream, pending, receipt, result, killSwitch,
                 schedLock, historyVars>>

(* The entries move to the consumer and into its pending list.             *)
HandOut(batch) ==
  /\ worker.pc = "poll"
  /\ batch # <<>>
  /\ delivered' = delivered + Len(batch)
  /\ pending' = pending \cup {batch[i] : i \in DOMAIN batch}
  /\ UNCHANGED <<producer, stream, receipt, result, killSwitch, schedLock,
                 historyVars>>

ReadGroup ==
  /\ HandOut(NextBatch)
  /\ worker' = [pc |-> "check", batch |-> NextBatch, outcome |-> "none"]
  /\ UNCHANGED budget

(* XREADGROUP took effect but its answer was lost; the loop sleeps and     *)
(* polls again.                                                            *)
ReadLost ==
  /\ HandOut(NextBatch)
  /\ Spend("faults")
  /\ UNCHANGED worker

(* _process: a command whose outcome is stored is not executed again.      *)
Check ==
  /\ worker.pc = "check"
  /\ worker' = [worker EXCEPT !.pc =
                  IF StatusOf(Current) \in Terminal THEN "ack" ELSE "handle"]
  /\ UNCHANGED <<producer, queueVars, killSwitch, schedLock, historyVars, budget>>

(* get_result raises before the try of _process: logged and acknowledged.  *)
CheckFails ==
  /\ worker.pc = "check"
  /\ Spend("faults")
  /\ worker' = [worker EXCEPT !.pc = "ack"]
  /\ unreported' = unreported \cup {Current}
  /\ UNCHANGED <<producer, queueVars, killSwitch, schedLock, applied>>

(* HSET on the kill switch key.                                            *)
SwitchAfter(c) ==
  IF c \in Halts THEN "armed" ELSE IF c \in Resumes THEN "disarmed" ELSE killSwitch

(* The handler.  halt and resume raise on a string key; the decision cycle *)
(* reports its own failures inside a completed result.                     *)
Handle ==
  LET raises == Current \in Halts \cup Resumes /\ killSwitch = "string"
  IN /\ worker.pc = "handle"
     /\ worker' = [worker EXCEPT !.pc = "store",
                     !.outcome = IF raises THEN "failed" ELSE "completed"]
     /\ killSwitch' = IF raises THEN killSwitch ELSE SwitchAfter(Current)
     /\ applied' = Append(applied, Current)
     /\ UNCHANGED <<producer, queueVars, schedLock, unreported, budget>>

(* The HSET of halt or resume raises on a connection error, with or        *)
(* without having taken effect.                                            *)
HandleFails ==
  /\ worker.pc = "handle"
  /\ Current \in Halts \cup Resumes
  /\ killSwitch # "string"
  /\ Spend("faults")
  /\ worker' = [worker EXCEPT !.pc = "store", !.outcome = "failed"]
  /\ killSwitch' \in {killSwitch, SwitchAfter(Current)}
  /\ applied' = Append(applied, Current)
  /\ UNCHANGED <<producer, queueVars, schedLock, unreported>>

(* set_result: SET of the result record, then HSET of the receipt.         *)
StoreResult ==
  /\ worker.pc = "store"
  /\ result' = [result EXCEPT ![Current] = worker.outcome]
  /\ worker' = [worker EXCEPT !.pc = "mark"]
  /\ UNCHANGED <<producer, stream, delivered, pending, receipt, killSwitch,
                 schedLock, historyVars, budget>>

MarkReceipt ==
  /\ worker.pc = "mark"
  /\ receipt' = [receipt EXCEPT ![Current] = worker.outcome]
  /\ worker' = [worker EXCEPT !.pc = "ack"]
  /\ UNCHANGED <<producer, stream, delivered, pending, result, killSwitch,
                 schedLock, historyVars, budget>>

(* set_result raises.  After a successful handler the except branch stores *)
(* "failed" over it; when that raises too, the loop logs and acknowledges. *)
StoreFails ==
  /\ worker.pc \in {"store", "mark"}
  /\ Spend("faults")
  /\ \/ /\ worker.outcome = "completed"
        /\ worker' = [worker EXCEPT !.pc = "store", !.outcome = "failed"]
        /\ UNCHANGED unreported
     \/ /\ worker.outcome = "failed"
        /\ worker' = [worker EXCEPT !.pc = "ack"]
        /\ unreported' = unreported \cup {Current}
  /\ UNCHANGED <<producer, queueVars, killSwitch, schedLock, applied>>

(* Bug variant of Ack: the end of the batch goes unnoticed.                *)
AckPastEnd ==
  /\ worker.pc = "ack"
  /\ pending' = pending \ {Current}
  /\ worker' = [pc |-> "check", batch |-> Tail(worker.batch), outcome |-> "none"]
  /\ UNCHANGED <<producer, stream, delivered, receipt, result, killSwitch,
                 schedLock, historyVars, budget>>

(* XACK, then the next message of the batch or the next poll.              *)
Ack ==
  LET rest == Tail(worker.batch)
  IN /\ worker.pc = "ack"
     /\ pending' = pending \ {Current}
     /\ worker' = IF rest = <<>> THEN At("poll")
                  ELSE [pc |-> "check", batch |-> rest, outcome |-> "none"]
     /\ UNCHANGED <<producer, stream, delivered, receipt, result, killSwitch,
                    schedLock, historyVars, budget>>

(* XACK stands outside the try: when it raises, with or without effect,    *)
(* the worker task ends and nobody starts it again in this process.        *)
LoopDies ==
  /\ worker.pc = "ack"
  /\ Spend("faults")
  /\ pending' \in {pending, pending \ {Current}}
  /\ worker' = At("dead")
  /\ UNCHANGED <<producer, stream, delivered, receipt, result, killSwitch,
                 schedLock, historyVars>>

(* The process dies or is redeployed: batch and request handlers are gone. *)
Crash ==
  /\ worker.pc # "down"
  /\ Spend("crashes")
  /\ worker' = At("down")
  /\ producer' = [c \in Cmds |-> IF producer[c] \in {"xadd", "receipt"}
                                THEN "done" ELSE producer[c]]
  /\ UNCHANGED <<queueVars, killSwitch, schedLock, historyVars>>

(* Bug variant of Restart: the loop starts from the beginning of the       *)
(* stream again.                                                           *)
RestartFromZero ==
  /\ worker.pc = "down"
  /\ worker' = At("poll")
  /\ delivered' = 0
  /\ UNCHANGED <<producer, stream, pending, receipt, result, killSwitch,
                 schedLock, historyVars, budget>>

(* restart: unless-stopped of the api service.  run_worker starts over:    *)
(* XGROUP CREATE fails harmlessly, ">" is polled again, nothing reads the  *)
(* pending entries.                                                        *)
Restart ==
  /\ worker.pc = "down"
  /\ worker' = At("poll")
  /\ UNCHANGED <<producer, queueVars, killSwitch, schedLock, historyVars, budget>>

-----------------------------------------------------------------------------
(* Other writers of the kill switch *)

(* POST /admin/kill-switch: HSET, which raises on a string.                *)
SetKillSwitch ==
  /\ killSwitch # "string"
  /\ Spend("admin")
  /\ killSwitch' \in {"armed", "disarmed"}
  /\ UNCHANGED <<producer, queueVars, worker, schedLock, historyVars>>

(* reconciliation.arm_kill_switch: SET, which replaces a hash.  The        *)
(* operation is public; nothing in the repository calls it yet.            *)
ArmOnDrift ==
  /\ Spend("admin")
  /\ killSwitch' = "string"
  /\ UNCHANGED <<producer, queueVars, worker, schedLock, historyVars>>

-----------------------------------------------------------------------------
WorkerStep ==
  \/ ReadGroup \/ Check \/ Handle \/ StoreResult \/ MarkReceipt \/ Ack
  \/ Restart

Next ==
  \/ \E c \in Cmds :
       \/ Request(c) \/ Schedule(c) \/ AddToStream(c)
       \/ WriteReceipt(c) \/ RequestFails(c)
  \/ SchedLockExpires
  \/ WorkerStep
  \/ ReadLost \/ CheckFails \/ HandleFails \/ StoreFails \/ LoopDies \/ Crash
  \/ SetKillSwitch \/ ArmOnDrift

Spec == Init /\ [][Next]_vars

(* The event loop resumes the worker task, Redis answers, the container    *)
(* restarts a process that died; a dead task is not restarted.             *)
FairSpec == Spec /\ WF_vars(WorkerStep)

-----------------------------------------------------------------------------
(* Properties *)

InStream(c)  == \E i \in DOMAIN stream : stream[i] = c
InBatch(c)   == \E i \in DOMAIN worker.batch : worker.batch[i] = c
Delivered(c) == \E i \in 1..delivered : stream[i] = c

TypeOK ==
  /\ producer \in [Cmds -> {"new", "refused", "xadd", "receipt", "done"}]
  /\ stream \in Seq(Cmds)
  /\ delivered \in 0..Len(stream)
  /\ pending \in SUBSET Cmds
  /\ receipt \in [Cmds -> Terminal \cup {"none", "queued"}]
  /\ result \in [Cmds -> Terminal \cup {"none"}]
  /\ worker \in {At(pc) : pc \in Stopped \cup {"poll"}}
       \cup [pc : {"check", "handle", "store", "mark", "ack"},
             batch : Seq(Cmds) \ {<<>>}, outcome : Terminal \cup {"none"}]
  /\ killSwitch \in SwitchValues
  /\ schedLock \in BOOLEAN
  /\ applied \in Seq(Cmds)
  /\ unreported \in SUBSET Cmds
  /\ budget \in [crashes : 0..MaxCrashes, faults : 0..MaxFaults, admin : 0..MaxAdmin]

(* A command takes effect at most once, crashes between its handler and    *)
(* the stored result included; handlers such as the decision cycle are not *)
(* idempotent by themselves.                                               *)
EffectAtMostOnce ==
  \A i, j \in DOMAIN applied : applied[i] = applied[j] => i = j

(* No command leaves the pending list unanswered: it has a stored outcome, *)
(* or a Redis error left _process and went to the log.                     *)
AckedIsAnswered ==
  \A c \in Cmds :
    Delivered(c) /\ c \notin pending => result[c] # "none" \/ c \in unreported

(* A client that polls the command never sees a finished command go back   *)
(* to queued, although the producer may write its receipt last.            *)
FinishedStaysFinished ==
  [][\A c \in Cmds : StatusOf(c) \in Terminal => StatusOf(c)' \in Terminal]_vars

(* Every command in the stream is eventually acknowledged, except those    *)
(* stranded in the pending list by a crash or a lost read, and unless an   *)
(* XACK error has ended the worker task.                                   *)
CommandsSettle ==
  \A c \in Cmds :
    InStream(c) ~> \/ Delivered(c) /\ c \notin pending
                   \/ c \in pending /\ ~ InBatch(c)
                   \/ worker.pc = "dead"

(* The delivery guarantee the module comments state: the handler of every  *)
(* command that entered the stream eventually runs.                        *)
AtLeastOnce ==
  \A c \in Cmds : InStream(c) ~> \E i \in DOMAIN applied : applied[i] = c

(* What the documents state of the kill switch: it is read on every cycle. *)
NoCycleWhileArmed ==
  [][\A c \in Cycles :
       applied' = Append(applied, c) => killSwitch \notin {"armed", "string"}]_vars
=============================================================================
