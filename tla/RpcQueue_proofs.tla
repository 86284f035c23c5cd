--------------------------- MODULE RpcQueue_proofs ---------------------------
(***************************************************************************)
(* Safety of the command queue for any commands, batches, crashes and      *)
(* Redis errors.                                                           *)
(*                                                                         *)
(* A command enters the stream once.  The batch of the worker is the end   *)
(* of what was delivered, so whatever has taken effect lies before the     *)
(* command at hand and nothing is handled twice.  A command leaves the     *)
(* pending list only at the step "ack", which is reached with an outcome   *)
(* stored or an error reported.                                            *)
(***************************************************************************)
EXTENDS RpcQueue, TLAPS, SequenceTheorems

Working == {"check", "handle", "store", "mark", "ack"}

(* Entries of the stream that the worker is done with, or for good.        *)
Passed ==
  delivered - Len(worker.batch) + IF worker.pc \in {"store", "mark", "ack"} THEN 1 ELSE 0

StreamInv ==
  /\ \A i, j \in 1..Len(stream) : stream[i] = stream[j] => i = j
  /\ \A i \in 1..Len(stream) : producer[stream[i]] \in {"receipt", "done"}

BatchInv ==
  /\ Len(worker.batch) <= delivered
  /\ \A i \in 1..Len(worker.batch) :
       worker.batch[i] = stream[delivered - Len(worker.batch) + i]

EffectInv ==
  \A k \in DOMAIN applied : \E i \in 1..Passed : stream[i] = applied[k]

AnswerInv ==
  /\ \A c \in Cmds : receipt[c] \in Terminal => result[c] \in Terminal
  /\ worker.pc \in {"store", "mark"} => worker.outcome \in Terminal
  /\ worker.pc = "mark" => result[Current] # "none"
  /\ worker.pc = "ack" => result[Current] # "none" \/ Current \in unreported

IInv ==
  /\ TypeOK /\ StreamInv /\ BatchInv
  /\ EffectInv /\ EffectAtMostOnce
  /\ AnswerInv /\ AckedIsAnswered

-----------------------------------------------------------------------------
(* Types *)

LEMMA WorkerType ==
  ASSUME TypeOK
  PROVE  /\ worker = [pc |-> worker.pc, batch |-> worker.batch, outcome |-> worker.outcome]
         /\ worker.pc \in Working \cup Stopped \cup {"poll"}
         /\ worker.batch \in Seq(Cmds)
         /\ worker.outcome \in Terminal \cup {"none"}
         /\ worker.pc \in Working <=> worker.batch # <<>>
<1>1. CASE worker \in {At(pc) : pc \in Stopped \cup {"poll"}}
  <2>1. PICK pc \in Stopped \cup {"poll"} : worker = At(pc)
    BY <1>1
  <2>2. /\ worker = [pc |-> pc, batch |-> <<>>, outcome |-> "none"]
        /\ worker.pc = pc /\ worker.batch = <<>> /\ worker.outcome = "none"
    BY <2>1 DEF At
  <2>3. worker.batch \in Seq(Cmds)
    BY <2>2, EmptySeq
  <2>4. pc \notin Working
    BY DEF Stopped, Working
  <2> QED
    BY <2>2, <2>3, <2>4
<1>2. CASE worker \in [pc : Working, batch : Seq(Cmds) \ {<<>>},
                       outcome : Terminal \cup {"none"}]
  BY <1>2
<1> QED
  BY <1>1, <1>2 DEF TypeOK, Working

LEMMA CurrentType ==
  ASSUME TypeOK, worker.pc \in Working
  PROVE  /\ worker.batch # <<>> /\ Current \in Cmds /\ Current = worker.batch[1]
         /\ Len(worker.batch) \in Nat \ {0}
         /\ Tail(worker.batch) \in Seq(Cmds)
         /\ Len(Tail(worker.batch)) = Len(worker.batch) - 1
         /\ \A i \in 1..Len(Tail(worker.batch)) : Tail(worker.batch)[i] = worker.batch[i + 1]
         /\ Tail(worker.batch) = <<>> <=> Len(worker.batch) = 1
<1>1. worker.batch \in Seq(Cmds) /\ worker.batch # <<>>
  BY WorkerType
<1>2. /\ Len(worker.batch) \in Nat \ {0}
      /\ Head(worker.batch) = worker.batch[1]
      /\ worker.batch[1] \in Cmds
  BY <1>1
<1>3. /\ Tail(worker.batch) \in Seq(Cmds)
      /\ Len(Tail(worker.batch)) = Len(worker.batch) - 1
      /\ \A i \in 1..Len(Tail(worker.batch)) : Tail(worker.batch)[i] = worker.batch[i + 1]
  BY <1>1, HeadTailProperties
<1>4. Tail(worker.batch) = <<>> <=> Len(Tail(worker.batch)) = 0
  BY <1>3, EmptySeq
<1>5. Tail(worker.batch) = <<>> <=> Len(worker.batch) = 1
  BY <1>2, <1>3, <1>4
<1> QED
  BY <1>1, <1>2, <1>3, <1>5 DEF Current

LEMMA SpendType ==
  ASSUME TypeOK, NEW what \in {"crashes", "faults", "admin"}, Spend(what)
  PROVE  budget' \in [crashes : 0..MaxCrashes, faults : 0..MaxFaults, admin : 0..MaxAdmin]
<1>1. /\ budget.crashes \in 0..MaxCrashes /\ budget.faults \in 0..MaxFaults
      /\ budget.admin \in 0..MaxAdmin
      /\ budget = [crashes |-> budget.crashes, faults |-> budget.faults,
                   admin |-> budget.admin]
  BY DEF TypeOK
<1>2. CASE what = "crashes"
  BY <1>1, <1>2, BoundsAreNaturals DEF Spend
<1>3. CASE what = "faults"
  BY <1>1, <1>3, BoundsAreNaturals DEF Spend
<1>4. CASE what = "admin"
  BY <1>1, <1>4, BoundsAreNaturals DEF Spend
<1> QED
  BY <1>2, <1>3, <1>4

(* What XREADGROUP returns is the part of the stream after delivered.      *)
LEMMA NextBatchType ==
  ASSUME TypeOK
  PROVE  /\ NextBatch \in Seq(Cmds)
         /\ delivered + Len(NextBatch) \in 0..Len(stream)
         /\ \A i \in 1..Len(NextBatch) : NextBatch[i] = stream[delivered + i]
<1>1. /\ stream \in Seq(Cmds) /\ delivered \in 0..Len(stream) /\ Len(stream) \in Nat
  BY DEF TypeOK
<1> DEFINE n == IF Len(stream) - delivered < BatchSize THEN Len(stream) - delivered
                ELSE BatchSize
<1>2. n \in Nat /\ delivered + n <= Len(stream)
  BY <1>1, BatchSizeIsPositive
<1>3. NextBatch = SubSeq(stream, delivered + 1, delivered + n)
  BY <1>1 DEF NextBatch
<1>4. \A i \in (delivered + 1)..(delivered + n) : stream[i] \in Cmds
  BY <1>1, <1>2
<1> HIDE DEF n
<1>5. /\ NextBatch \in Seq(Cmds)
      /\ Len(NextBatch) = n
      /\ \A i \in 1..n : NextBatch[i] = stream[delivered + i]
  BY <1>1, <1>2, <1>3, SubSeqProperties
<1> QED
  BY <1>1, <1>2, <1>5

LEMMA InitInv ==
  ASSUME Init
  PROVE  IInv
<1>1. TypeOK
  <2>1. stream \in Seq(Cmds) /\ applied \in Seq(Cmds) /\ delivered \in 0..Len(stream)
    BY EmptySeq DEF Init
  <2>2. worker \in {At(pc) : pc \in Stopped \cup {"poll"}}
    BY DEF Init
  <2>3. budget \in [crashes : 0..MaxCrashes, faults : 0..MaxFaults, admin : 0..MaxAdmin]
    BY BoundsAreNaturals DEF Init
  <2>4. /\ producer \in [Cmds -> {"new", "refused", "xadd", "receipt", "done"}]
        /\ receipt \in [Cmds -> Terminal \cup {"none", "queued"}]
        /\ result \in [Cmds -> Terminal \cup {"none"}]
    BY DEF Init
  <2> QED
    BY <2>1, <2>2, <2>3, <2>4 DEF Init, TypeOK, SwitchValues
<1>2. Len(stream) = 0 /\ DOMAIN applied = {} /\ Len(worker.batch) = 0 /\ worker.pc = "poll"
  BY DEF Init, At
<1> QED
  BY <1>1, <1>2 DEF Init, IInv, StreamInv, BatchInv, EffectInv, EffectAtMostOnce,
                    AnswerInv, AckedIsAnswered, Delivered, Terminal

-----------------------------------------------------------------------------
(* Type correctness *)

(* A step of the worker from one working point to another.                 *)
LEMMA WorkerMoves ==
  ASSUME TypeOK, worker.pc \in Working, NEW pc \in Working,
         NEW outcome \in Terminal \cup {"none"},
         worker' = [worker EXCEPT !.pc = pc, !.outcome = outcome]
  PROVE  /\ worker' = [pc |-> pc, batch |-> worker.batch, outcome |-> outcome]
         /\ worker' \in [pc : Working, batch : Seq(Cmds) \ {<<>>},
                         outcome : Terminal \cup {"none"}]
<1>1. /\ worker = [pc |-> worker.pc, batch |-> worker.batch, outcome |-> worker.outcome]
      /\ worker.batch \in Seq(Cmds) \ {<<>>}
  BY WorkerType
<1> QED
  BY <1>1

WorkerTypes ==
  {At(pc) : pc \in Stopped \cup {"poll"}}
    \cup [pc : Working, batch : Seq(Cmds) \ {<<>>}, outcome : Terminal \cup {"none"}]

(* What each action of the worker makes of it.                             *)
LEMMA WorkerSteps ==
  ASSUME TypeOK
  PROVE  /\ ReadGroup => worker' = [pc |-> "check", batch |-> NextBatch, outcome |-> "none"]
         /\ Check \/ CheckFails \/ Handle \/ HandleFails \/ StoreResult \/ MarkReceipt
              \/ StoreFails =>
              /\ worker.pc \in Working
              /\ \E pc \in Working, outcome \in Terminal \cup {"none"} :
                   worker' = [worker EXCEPT !.pc = pc, !.outcome = outcome]
<1>1. worker = [pc |-> worker.pc, batch |-> worker.batch, outcome |-> worker.outcome]
      /\ worker.outcome \in Terminal \cup {"none"}
  BY WorkerType
<1>2. ASSUME NEW pc \in Working, worker' = [worker EXCEPT !.pc = pc]
      PROVE  \E p \in Working, outcome \in Terminal \cup {"none"} :
               worker' = [worker EXCEPT !.pc = p, !.outcome = outcome]
  <2>1. worker' = [worker EXCEPT !.pc = pc, !.outcome = worker.outcome]
    BY <1>1, <1>2
  <2> QED
    BY <1>1, <2>1
<1>3. Check \/ CheckFails \/ StoreResult \/ MarkReceipt =>
        worker.pc \in Working /\ \E pc \in Working : worker' = [worker EXCEPT !.pc = pc]
  BY DEF Check, CheckFails, StoreResult, MarkReceipt, Working
<1>4. Handle \/ HandleFails \/ StoreFails =>
        /\ worker.pc \in Working
        /\ \E pc \in Working, outcome \in Terminal :
             worker' = [worker EXCEPT !.pc = pc, !.outcome = outcome]
  <2>1. Handle \/ HandleFails =>
          /\ worker.pc \in Working
          /\ \E pc \in Working, outcome \in Terminal :
               worker' = [worker EXCEPT !.pc = pc, !.outcome = outcome]
    BY DEF Handle, HandleFails, Working, Terminal
  <2>2. StoreFails /\ worker.outcome = "completed" =>
          worker.pc \in Working /\
          worker' = [worker EXCEPT !.pc = "store", !.outcome = "failed"]
    BY DEF StoreFails, Working
  <2>3. StoreFails /\ worker.outcome # "completed" =>
          worker.pc \in Working /\ worker.outcome = "failed"
            /\ worker' = [worker EXCEPT !.pc = "ack"]
    BY DEF StoreFails, Working
  <2>4. worker.outcome = "failed" =>
          [worker EXCEPT !.pc = "ack"] = [worker EXCEPT !.pc = "ack", !.outcome = "failed"]
    BY <1>1
  <2> QED
    BY <2>1, <2>2, <2>3, <2>4 DEF Working, Terminal
<1> QED
  BY <1>2, <1>3, <1>4 DEF ReadGroup

LEMMA WorkerTypeStep ==
  ASSUME TypeOK, [Next]_vars
  PROVE  worker' \in WorkerTypes
<1>1. worker \in WorkerTypes
  BY DEF TypeOK, WorkerTypes, Working
<1>2. CASE Check \/ CheckFails \/ Handle \/ HandleFails \/ StoreResult \/ MarkReceipt
             \/ StoreFails
  BY <1>2, WorkerSteps, WorkerMoves DEF WorkerTypes
<1>3. CASE ReadGroup
  <2>1. NextBatch \in Seq(Cmds) \ {<<>>}
    BY <1>3, NextBatchType DEF ReadGroup, HandOut
  <2>2. worker' = [pc |-> "check", batch |-> NextBatch, outcome |-> "none"]
    BY <1>3 DEF ReadGroup
  <2>3. "check" \in Working /\ "none" \in Terminal \cup {"none"}
    BY DEF Working
  <2> QED
    BY <2>1, <2>2, <2>3 DEF WorkerTypes
<1>4. CASE Ack
  <2>1. Tail(worker.batch) \in Seq(Cmds)
    BY <1>4, CurrentType DEF Ack, Working
  <2>2. \/ worker' = At("poll")
        \/ /\ Tail(worker.batch) # <<>>
           /\ worker' = [pc |-> "check", batch |-> Tail(worker.batch), outcome |-> "none"]
    BY <1>4 DEF Ack
  <2>3. At("poll") \in WorkerTypes
    BY DEF WorkerTypes
  <2>4. Tail(worker.batch) # <<>> =>
          [pc |-> "check", batch |-> Tail(worker.batch), outcome |-> "none"] \in WorkerTypes
    BY <2>1 DEF WorkerTypes, Working
  <2> QED
    BY <2>2, <2>3, <2>4
<1>5. CASE LoopDies \/ Crash \/ Restart
  BY <1>5 DEF LoopDies, Crash, Restart, WorkerTypes, Stopped
<1>6. CASE \/ \E c \in Cmds :
                \/ Request(c) \/ Schedule(c) \/ AddToStream(c)
                \/ WriteReceipt(c) \/ RequestFails(c)
           \/ SchedLockExpires \/ ReadLost \/ SetKillSwitch \/ ArmOnDrift
           \/ UNCHANGED vars
  <2>1. worker' = worker
    BY <1>6 DEF Request, Schedule, AddToStream, WriteReceipt, RequestFails,
                SchedLockExpires, ReadLost, SetKillSwitch, ArmOnDrift, vars
  <2> QED
    BY <1>1, <2>1
<1> QED
  BY <1>2, <1>3, <1>4, <1>5, <1>6 DEF Next, WorkerStep
LEMMA TypeStep ==
  ASSUME TypeOK, [Next]_vars
  PROVE  TypeOK'
<1>1. worker' \in {At(pc) : pc \in Stopped \cup {"poll"}}
        \cup [pc : {"check", "handle", "store", "mark", "ack"},
              batch : Seq(Cmds) \ {<<>>}, outcome : Terminal \cup {"none"}]
  BY WorkerTypeStep DEF WorkerTypes, Working
<1>2. producer' \in [Cmds -> {"new", "refused", "xadd", "receipt", "done"}]
  <2>1. CASE \E c \in Cmds : Request(c) \/ Schedule(c) \/ AddToStream(c)
                              \/ WriteReceipt(c) \/ RequestFails(c)
    BY <2>1 DEF TypeOK, Request, Schedule, AddToStream, WriteReceipt, RequestFails
  <2>2. CASE Crash
    BY <2>2 DEF TypeOK, Crash
  <2>3. CASE UNCHANGED producer
    BY <2>3 DEF TypeOK
  <2> QED
    BY <2>1, <2>2, <2>3 DEF Next, WorkerStep, SchedLockExpires, ReadGroup, HandOut, Check,
         Handle, StoreResult, MarkReceipt, Ack, Restart, ReadLost, CheckFails, HandleFails,
         StoreFails, LoopDies, SetKillSwitch, ArmOnDrift, vars, queueVars
<1>3. stream' \in Seq(Cmds) /\ delivered' \in 0..Len(stream')
  <2>1. stream \in Seq(Cmds) /\ Len(stream) \in Nat /\ delivered \in 0..Len(stream)
    BY DEF TypeOK
  <2>2. CASE \E c \in Cmds : AddToStream(c)
    BY <2>1, <2>2, AppendProperties DEF AddToStream
  <2>3. CASE ReadGroup \/ ReadLost
    BY <2>1, <2>3, NextBatchType DEF ReadGroup, ReadLost, HandOut
  <2>4. CASE UNCHANGED <<stream, delivered>>
    BY <2>1, <2>4
  <2> QED
    BY <2>2, <2>3, <2>4 DEF Next, WorkerStep, Request, Schedule, WriteReceipt, RequestFails,
         SchedLockExpires, Check, Handle, StoreResult, MarkReceipt, Ack, Restart, CheckFails,
         HandleFails, StoreFails, LoopDies, Crash, SetKillSwitch, ArmOnDrift, vars, queueVars
<1>4. pending' \in SUBSET Cmds /\ unreported' \in SUBSET Cmds
  <2>1. NextBatch \in Seq(Cmds) /\ \A i \in DOMAIN NextBatch : NextBatch[i] \in Cmds
    BY NextBatchType
  <2>2. worker.pc \in Working => Current \in Cmds
    BY CurrentType
  <2>3. CASE ReadGroup \/ ReadLost
    BY <2>1, <2>3 DEF ReadGroup, ReadLost, HandOut, TypeOK, historyVars
  <2>4. CASE CheckFails \/ StoreFails
    BY <2>2, <2>4 DEF CheckFails, StoreFails, TypeOK, Working, queueVars
  <2>5. CASE /\ pending' \in {pending, pending \ {Current}}
             /\ unreported' = unreported
    BY <2>5 DEF TypeOK
  <2> QED
    BY <2>3, <2>4, <2>5 DEF Next, WorkerStep, Request, Schedule, AddToStream, WriteReceipt,
         RequestFails, SchedLockExpires, Check, Handle, StoreResult, MarkReceipt, Ack, Restart,
         HandleFails, LoopDies, Crash, SetKillSwitch, ArmOnDrift, vars, queueVars, historyVars
<1>5. /\ receipt' \in [Cmds -> Terminal \cup {"none", "queued"}]
      /\ result' \in [Cmds -> Terminal \cup {"none"}]
  <2>1. worker.outcome \in Terminal \cup {"none"}
    BY WorkerType
  <2>2. CASE StoreResult \/ MarkReceipt \/ \E c \in Cmds : WriteReceipt(c)
    BY <2>1, <2>2 DEF StoreResult, MarkReceipt, WriteReceipt, TypeOK
  <2>3. CASE UNCHANGED <<receipt, result>>
    BY <2>3 DEF TypeOK
  <2> QED
    BY <2>2, <2>3 DEF Next, WorkerStep, Request, Schedule, AddToStream, RequestFails,
         SchedLockExpires, ReadGroup, HandOut, Check, Handle, Ack, Restart, ReadLost,
         CheckFails, HandleFails, StoreFails, LoopDies, Crash, SetKillSwitch, ArmOnDrift,
         vars, queueVars
<1>6. killSwitch' \in SwitchValues /\ schedLock' \in BOOLEAN
  <2>1. CASE UNCHANGED killSwitch
    BY <2>1 DEF TypeOK, Next, WorkerStep, Request, Schedule, AddToStream, WriteReceipt,
         RequestFails, SchedLockExpires, ReadGroup, HandOut, Check, Handle, StoreResult,
         MarkReceipt, Ack, Restart, ReadLost, CheckFails, HandleFails, StoreFails, LoopDies,
         Crash, SetKillSwitch, ArmOnDrift, vars
  <2>2. CASE Handle \/ HandleFails \/ SetKillSwitch \/ ArmOnDrift
    BY <2>2 DEF TypeOK, Handle, HandleFails, SwitchAfter, SetKillSwitch, ArmOnDrift, SwitchValues
  <2> QED
    BY <2>1, <2>2 DEF Next, WorkerStep, Request, Schedule, AddToStream, WriteReceipt,
         RequestFails, SchedLockExpires, ReadGroup, HandOut, Check, StoreResult, MarkReceipt,
         Ack, Restart, ReadLost, CheckFails, StoreFails, LoopDies, Crash, vars
<1>7. applied' \in Seq(Cmds)
  <2>1. CASE Handle \/ HandleFails
    <3>1. worker.pc \in Working /\ applied' = Append(applied, Current)
      BY <2>1 DEF Handle, HandleFails, Working
    <3>2. Current \in Cmds /\ applied \in Seq(Cmds)
      BY <3>1, CurrentType DEF TypeOK
    <3> QED
      BY <3>1, <3>2, AppendProperties
  <2>2. CASE UNCHANGED applied
    BY <2>2 DEF TypeOK
  <2> QED
    BY <2>1, <2>2 DEF Next, WorkerStep, Request, Schedule, AddToStream, WriteReceipt,
         RequestFails, SchedLockExpires, ReadGroup, HandOut, Check, StoreResult, MarkReceipt,
         Ack, Restart, ReadLost, CheckFails, StoreFails, LoopDies, Crash, SetKillSwitch,
         ArmOnDrift, vars, historyVars
<1>8. budget' \in [crashes : 0..MaxCrashes, faults : 0..MaxFaults, admin : 0..MaxAdmin]
  <2>1. CASE Spend("crashes") \/ Spend("faults") \/ Spend("admin")
    BY <2>1, SpendType
  <2>2. CASE UNCHANGED budget
    BY <2>2 DEF TypeOK
  <2> QED
    BY <2>1, <2>2 DEF Next, WorkerStep, Request, Schedule, AddToStream, WriteReceipt,
         RequestFails, SchedLockExpires, ReadGroup, Check, Handle, StoreResult, MarkReceipt,
         Ack, Restart, ReadLost, CheckFails, HandleFails, StoreFails, LoopDies, Crash,
         SetKillSwitch, ArmOnDrift, vars
<1> QED
  BY <1>1, <1>2, <1>3, <1>4, <1>5, <1>6, <1>7, <1>8 DEF TypeOK
-----------------------------------------------------------------------------
(* Stream and batch *)

ProducerStep ==
  \E c \in Cmds : Request(c) \/ Schedule(c) \/ WriteReceipt(c) \/ RequestFails(c)

(* What moves neither the worker nor what was delivered.                   *)
Elsewhere ==
  \/ ProducerStep \/ SchedLockExpires \/ SetKillSwitch \/ ArmOnDrift
  \/ UNCHANGED vars

LEMMA ElsewhereLeaves ==
  ASSUME Elsewhere
  PROVE  UNCHANGED <<stream, delivered, pending, result, worker, applied, unreported>>
BY DEF Elsewhere, ProducerStep, Request, Schedule, WriteReceipt, RequestFails,
       SchedLockExpires, SetKillSwitch, ArmOnDrift, vars, queueVars, historyVars

LEMMA Steps ==
  ASSUME [Next]_vars
  PROVE  \/ Elsewhere \/ \E c \in Cmds : AddToStream(c)
         \/ ReadGroup \/ ReadLost \/ Check \/ CheckFails \/ Handle \/ HandleFails
         \/ StoreResult \/ MarkReceipt \/ StoreFails \/ Ack \/ LoopDies \/ Crash \/ Restart
BY DEF Next, WorkerStep, Elsewhere, ProducerStep

(* Entries of the stream stay where they are.                              *)
LEMMA StreamGrows ==
  ASSUME TypeOK, [Next]_vars
  PROVE  /\ Len(stream') >= Len(stream)
         /\ \A i \in 1..Len(stream) : stream'[i] = stream[i]
<1>1. stream \in Seq(Cmds) /\ Len(stream) \in Nat
  BY DEF TypeOK
<1>2. CASE \E c \in Cmds : AddToStream(c)
  BY <1>1, <1>2, AppendProperties DEF AddToStream
<1>3. CASE UNCHANGED stream
  BY <1>1, <1>3
<1> QED
  BY <1>2, <1>3, Steps, ElsewhereLeaves DEF ReadGroup, HandOut, ReadLost, Check, CheckFails,
     Handle, HandleFails, StoreResult, MarkReceipt, StoreFails, Ack, LoopDies, Crash, Restart,
     queueVars

LEMMA StreamStep ==
  ASSUME TypeOK, StreamInv, [Next]_vars
  PROVE  StreamInv'
<1>1. /\ stream \in Seq(Cmds) /\ Len(stream) \in Nat
      /\ \A i \in 1..Len(stream) : stream[i] \in Cmds
      /\ producer \in [Cmds -> {"new", "refused", "xadd", "receipt", "done"}]
  BY DEF TypeOK
<1>2. \A x \in Cmds : producer[x] \in {"receipt", "done"} => producer'[x] \in {"receipt", "done"}
  <2>1. CASE \E c \in Cmds : Request(c) \/ Schedule(c) \/ AddToStream(c)
                              \/ WriteReceipt(c) \/ RequestFails(c)
    BY <1>1, <2>1 DEF Request, Schedule, AddToStream, WriteReceipt, RequestFails
  <2>2. CASE Crash
    BY <1>1, <2>2 DEF Crash
  <2>3. CASE UNCHANGED producer
    BY <2>3
  <2> QED
    BY <2>1, <2>2, <2>3 DEF Next, WorkerStep, SchedLockExpires, ReadGroup, HandOut, Check,
         Handle, StoreResult, MarkReceipt, Ack, Restart, ReadLost, CheckFails, HandleFails,
         StoreFails, LoopDies, SetKillSwitch, ArmOnDrift, vars, queueVars
<1>3. CASE UNCHANGED stream
  BY <1>1, <1>2, <1>3 DEF StreamInv
<1>4. ASSUME NEW c \in Cmds, AddToStream(c)
      PROVE  StreamInv'
  <2>1. /\ Len(stream') = Len(stream) + 1 /\ stream'[Len(stream) + 1] = c
        /\ \A i \in 1..Len(stream) : stream'[i] = stream[i]
    BY <1>1, <1>4, AppendProperties DEF AddToStream
  <2>2. \A i \in 1..Len(stream) : stream[i] # c
    BY <1>4 DEF AddToStream, StreamInv
  <2>3. producer'[c] = "receipt"
    BY <1>1, <1>4 DEF AddToStream
  <2>4. \A i, j \in 1..Len(stream') : stream'[i] = stream'[j] => i = j
    BY <1>1, <2>1, <2>2 DEF StreamInv
  <2>5. \A i \in 1..Len(stream') : producer'[stream'[i]] \in {"receipt", "done"}
    BY <1>1, <1>2, <2>1, <2>3 DEF StreamInv
  <2> QED
    BY <2>4, <2>5 DEF StreamInv
<1> QED
  BY <1>3, <1>4, Steps, ElsewhereLeaves DEF ReadGroup, HandOut, ReadLost, Check, CheckFails,
     Handle, HandleFails, StoreResult, MarkReceipt, StoreFails, Ack, LoopDies, Crash, Restart,
     queueVars

(* The steps within the processing of one command.                         *)
Processing ==
  Check \/ CheckFails \/ Handle \/ HandleFails \/ StoreResult \/ MarkReceipt \/ StoreFails

LEMMA ProcessingLeaves ==
  ASSUME TypeOK, Processing
  PROVE  /\ worker.pc \in Working /\ worker'.pc \in Working
         /\ worker'.batch = worker.batch
         /\ UNCHANGED <<stream, delivered, pending>>
<1>1. /\ worker.pc \in Working
      /\ \E pc \in Working, outcome \in Terminal \cup {"none"} :
           worker' = [worker EXCEPT !.pc = pc, !.outcome = outcome]
  BY WorkerSteps DEF Processing
<1>2. worker'.pc \in Working /\ worker'.batch = worker.batch
  BY <1>1, WorkerMoves
<1>3. UNCHANGED <<stream, delivered, pending>>
  BY DEF Processing, Check, CheckFails, Handle, HandleFails, StoreResult, MarkReceipt,
         StoreFails, queueVars
<1> QED
  BY <1>1, <1>2, <1>3

LEMMA Shifted == \A d, n, i \in Int : d - n + (i + 1) = d - (n - 1) + i
OBVIOUS

LEMMA BatchStep ==
  ASSUME TypeOK, BatchInv, [Next]_vars
  PROVE  BatchInv'
<1>1. /\ Len(worker.batch) \in Nat /\ delivered \in 0..Len(stream) /\ Len(stream) \in Nat
      /\ worker.batch \in Seq(Cmds)
  BY WorkerType DEF TypeOK
<1>2. \A i \in 1..Len(stream) : stream'[i] = stream[i]
  BY StreamGrows
<1>3. CASE worker'.batch = worker.batch /\ delivered' = delivered
  <2> SUFFICES ASSUME NEW i \in 1..Len(worker.batch)
               PROVE  worker.batch[i] = stream'[delivered - Len(worker.batch) + i]
    BY <1>3 DEF BatchInv
  <2>1. delivered - Len(worker.batch) + i \in 1..Len(stream)
    BY <1>1 DEF BatchInv
  <2>2. worker.batch[i] = stream[delivered - Len(worker.batch) + i]
    BY DEF BatchInv
  <2> QED
    BY <1>2, <2>1, <2>2
<1>4. CASE worker'.batch = <<>> /\ delivered' \in Nat
  <2>1. Len(worker'.batch) = 0 /\ 0 <= delivered'
    BY <1>4
  <2>2. \A i \in 1..Len(worker'.batch) : FALSE
    BY <2>1
  <2> QED
    BY <2>1, <2>2 DEF BatchInv
<1>5. CASE ReadGroup
  <2>1. worker'.batch = NextBatch /\ delivered' = delivered + Len(NextBatch)
    BY <1>5 DEF ReadGroup, HandOut
  <2>2. Len(NextBatch) \in Nat
    BY NextBatchType
  <2>3. \A i \in 1..Len(NextBatch) : NextBatch[i] = stream'[delivered + i]
    BY <1>1, <1>2, <2>2, NextBatchType
  <2> QED
    BY <1>1, <2>1, <2>2, <2>3 DEF BatchInv
<1>6. CASE ReadLost
  <2>1. worker'.batch = <<>>
    BY <1>6, WorkerType DEF ReadLost, HandOut, Working
  <2>2. delivered' \in Nat
    BY <1>1, <1>6, NextBatchType DEF ReadLost, HandOut
  <2> QED
    BY <1>4, <2>1, <2>2
<1>7. CASE Ack
  <2>1. /\ delivered' = delivered
        /\ worker'.batch = Tail(worker.batch)
    BY <1>7 DEF Ack, At
  <2>2. /\ Len(Tail(worker.batch)) = Len(worker.batch) - 1
        /\ Len(worker.batch) \in Nat \ {0}
        /\ \A i \in 1..Len(Tail(worker.batch)) : Tail(worker.batch)[i] = worker.batch[i + 1]
    BY <1>7, CurrentType DEF Ack, Working
  <2>3. \A i \in 1..Len(Tail(worker.batch)) :
          Tail(worker.batch)[i] = stream[delivered - Len(Tail(worker.batch)) + i]
    <3> SUFFICES ASSUME NEW i \in 1..Len(Tail(worker.batch))
                 PROVE  Tail(worker.batch)[i] = stream[delivered - Len(Tail(worker.batch)) + i]
      OBVIOUS
    <3>1. i + 1 \in 1..Len(worker.batch) /\ Tail(worker.batch)[i] = worker.batch[i + 1]
      BY <2>2
    <3>2. worker.batch[i + 1] = stream[delivered - Len(worker.batch) + (i + 1)]
      BY <3>1 DEF BatchInv
    <3>3. delivered - Len(worker.batch) + (i + 1) = delivered - (Len(worker.batch) - 1) + i
      BY <1>1, <2>2, Shifted
    <3>4. Len(Tail(worker.batch)) = Len(worker.batch) - 1
      BY <2>2
    <3> QED
      BY <3>1, <3>2, <3>3, <3>4
  <2>4. stream' = stream
    BY <1>7 DEF Ack
  <2>5. Len(Tail(worker.batch)) <= delivered
    BY <1>1, <2>2 DEF BatchInv
  <2> QED
    BY <2>1, <2>3, <2>4, <2>5 DEF BatchInv
<1>8. CASE LoopDies \/ Crash \/ Restart
  BY <1>1, <1>4, <1>8 DEF LoopDies, Crash, Restart, At, queueVars
<1>9. CASE Processing
  BY <1>3, <1>9, ProcessingLeaves
<1>10. CASE \E c \in Cmds : AddToStream(c)
  BY <1>3, <1>10 DEF AddToStream
<1> QED
  BY <1>3, <1>5, <1>6, <1>7, <1>8, <1>9, <1>10, Steps, ElsewhereLeaves DEF Processing
-----------------------------------------------------------------------------
(* Effects *)

LEMMA PassedType == TypeOK /\ BatchInv => Passed \in 0..delivered
<1> SUFFICES ASSUME TypeOK, BatchInv
             PROVE  Passed \in 0..delivered
  OBVIOUS
<1>1. /\ Len(worker.batch) \in Nat /\ delivered \in Nat /\ Len(worker.batch) <= delivered
  BY WorkerType DEF TypeOK, BatchInv
<1>2. worker.pc \in {"store", "mark", "ack"} => Len(worker.batch) >= 1
  BY CurrentType DEF Working
<1> QED
  BY <1>1, <1>2 DEF Passed

LEMMA PassedGrows ==
  ASSUME TypeOK, BatchInv, [Next]_vars
  PROVE  Passed' >= Passed
<1>0. TypeOK' /\ BatchInv'
  BY TypeStep, BatchStep
<1>1. /\ Len(worker.batch) \in Nat /\ delivered \in Nat /\ Len(worker.batch) <= delivered
      /\ Passed \in 0..delivered
  BY WorkerType, PassedType DEF TypeOK, BatchInv
<1>2. CASE worker' = worker /\ delivered' = delivered
  BY <1>1, <1>2 DEF Passed
<1>3. CASE /\ worker'.batch = <<>> /\ worker'.pc \notin {"store", "mark", "ack"}
           /\ delivered' >= delivered /\ delivered' \in Nat
  <2>1. Passed' = delivered'
    BY <1>3 DEF Passed
  <2> QED
    BY <1>1, <1>3, <2>1
<1>4. CASE ReadGroup
  <2>1. /\ worker'.batch = NextBatch /\ worker'.pc = "check"
        /\ delivered' = delivered + Len(NextBatch)
    BY <1>4 DEF ReadGroup, HandOut
  <2>2. Len(NextBatch) \in Nat
    BY NextBatchType
  <2>3. Passed' = delivered
    BY <1>1, <2>1, <2>2 DEF Passed
  <2> QED
    BY <1>1, <2>3
<1>5. CASE ReadLost
  <2>1. worker'.batch = <<>> /\ worker'.pc = "poll"
    BY <1>5, WorkerType DEF ReadLost, HandOut, Working
  <2>2. delivered' = delivered + Len(NextBatch) /\ Len(NextBatch) \in Nat
    BY <1>5, NextBatchType DEF ReadLost, HandOut
  <2> QED
    BY <1>1, <1>3, <2>1, <2>2
<1>6. CASE Processing
  <2>1. Len(worker'.batch) = Len(worker.batch) /\ delivered' = delivered
    BY <1>6, ProcessingLeaves
  <2>2. worker.pc \in {"store", "mark", "ack"} => worker'.pc \in {"store", "mark", "ack"}
    <3>1. worker = [pc |-> worker.pc, batch |-> worker.batch, outcome |-> worker.outcome]
      BY WorkerType
    <3> QED
      BY <1>6, <3>1 DEF Processing, Check, CheckFails, Handle, HandleFails, StoreResult,
                        MarkReceipt, StoreFails
  <2>3. /\ Passed' = delivered' - Len(worker'.batch)
                     + IF worker'.pc \in {"store", "mark", "ack"} THEN 1 ELSE 0
        /\ Passed = delivered - Len(worker.batch)
                     + IF worker.pc \in {"store", "mark", "ack"} THEN 1 ELSE 0
    BY DEF Passed
  <2>4. CASE worker.pc \in {"store", "mark", "ack"}
    BY <1>1, <2>1, <2>2, <2>3, <2>4
  <2>5. CASE worker.pc \notin {"store", "mark", "ack"}
    <3>1. Passed = delivered - Len(worker.batch)
      BY <1>1, <2>3, <2>5
    <3> QED
      BY <1>1, <2>1, <2>3, <3>1
  <2> QED
    BY <2>4, <2>5
<1>7. CASE Ack
  <2>1. /\ delivered' = delivered /\ worker.pc = "ack"
        /\ worker'.batch = Tail(worker.batch) /\ worker'.pc \in {"check", "poll"}
    BY <1>7 DEF Ack, At
  <2>2. Len(Tail(worker.batch)) = Len(worker.batch) - 1
    BY <1>7, CurrentType DEF Ack, Working
  <2>3. Passed = delivered - Len(worker.batch) + 1
    BY <2>1 DEF Passed
  <2>5. Passed' = delivered - Len(Tail(worker.batch)) + 0
    BY <2>1 DEF Passed
  <2>4. Passed' = delivered - (Len(worker.batch) - 1) + 0
    BY <2>5, <2>2, Zenon
  <2> QED
    BY <1>1, <2>3, <2>4
<1>8. CASE LoopDies \/ Crash \/ Restart
  <2>1. /\ worker'.batch = <<>> /\ worker'.pc \notin {"store", "mark", "ack"}
        /\ delivered' = delivered
    BY <1>8 DEF LoopDies, Crash, Restart, At, queueVars
  <2> QED
    BY <1>1, <1>3, <2>1
<1>9. CASE \E c \in Cmds : AddToStream(c)
  BY <1>2, <1>9 DEF AddToStream
<1> QED
  BY <1>2, <1>4, <1>5, <1>6, <1>7, <1>8, <1>9, Steps, ElsewhereLeaves DEF Processing

(* The handler runs for the entry just behind those that are passed.       *)
LEMMA HandledIsNext ==
  ASSUME TypeOK, BatchInv, Handle \/ HandleFails
  PROVE  /\ Passed' = Passed + 1 /\ Passed + 1 \in 1..Len(stream)
         /\ Current = stream[Passed + 1] /\ Current \in Cmds
         /\ stream' = stream /\ applied' = Append(applied, Current)
<1>1. worker.pc = "handle" /\ worker'.pc = "store" /\ applied' = Append(applied, Current)
  <2>1. worker = [pc |-> worker.pc, batch |-> worker.batch, outcome |-> worker.outcome]
    BY WorkerType
  <2> QED
    BY <2>1 DEF Handle, HandleFails
<1>2. worker'.batch = worker.batch /\ stream' = stream /\ delivered' = delivered
  BY ProcessingLeaves DEF Processing
<1>3. /\ Current \in Cmds /\ Current = worker.batch[1] /\ Len(worker.batch) \in Nat \ {0}
      /\ delivered \in 0..Len(stream) /\ Len(stream) \in Nat
  BY <1>1, CurrentType DEF Working, TypeOK
<1>4. /\ Len(worker.batch) <= delivered
      /\ worker.batch[1] = stream[delivered - Len(worker.batch) + 1]
  <2>1. 1 \in 1..Len(worker.batch)
    BY <1>3
  <2> QED
    BY <2>1 DEF BatchInv
<1>5. Passed = delivered - Len(worker.batch) /\ Passed' = delivered - Len(worker.batch) + 1
  BY <1>1, <1>2, <1>3 DEF Passed
<1>6. Passed' = Passed + 1 /\ Passed + 1 \in 1..Len(stream)
  BY <1>3, <1>4, <1>5
<1>7. Current = stream[Passed + 1]
  BY <1>3, <1>4, <1>5
<1> QED
  BY <1>1, <1>2, <1>3, <1>6, <1>7

LEMMA EffectStep ==
  ASSUME TypeOK, StreamInv, BatchInv, EffectInv, EffectAtMostOnce, [Next]_vars
  PROVE  EffectInv' /\ EffectAtMostOnce'
<1>1. /\ Passed \in 0..delivered /\ delivered \in 0..Len(stream) /\ Len(stream) \in Nat
      /\ applied \in Seq(Cmds) /\ Len(applied) \in Nat
      /\ DOMAIN applied = 1..Len(applied)
  BY PassedType DEF TypeOK
<1>2. Passed' >= Passed /\ Passed' \in Nat
  <2>1. (TypeOK /\ BatchInv => Passed \in 0..delivered)'
    BY PassedType, PTL
  <2>2. TypeOK' /\ BatchInv' => Passed' \in 0..delivered'
    BY <2>1
  <2>3. TypeOK' /\ BatchInv' /\ Passed' >= Passed
    BY PassedGrows, TypeStep, BatchStep
  <2> QED
    BY <2>2, <2>3
<1>3. \A k \in DOMAIN applied : \E i \in 1..Passed' : stream'[i] = applied[k]
  <2> SUFFICES ASSUME NEW k \in DOMAIN applied
               PROVE  \E i \in 1..Passed' : stream'[i] = applied[k]
    OBVIOUS
  <2>1. PICK i \in 1..Passed : stream[i] = applied[k]
    BY DEF EffectInv
  <2>2. i \in 1..Len(stream) /\ i \in 1..Passed'
    BY <1>1, <1>2
  <2>3. stream'[i] = stream[i]
    BY <2>2, StreamGrows
  <2> QED
    BY <2>1, <2>2, <2>3
<1>4. CASE UNCHANGED applied
  BY <1>3, <1>4 DEF EffectInv, EffectAtMostOnce
<1>5. CASE Handle \/ HandleFails
  <2>1. /\ Passed' = Passed + 1 /\ Passed + 1 \in 1..Len(stream)
        /\ Current = stream[Passed + 1] /\ Current \in Cmds
        /\ stream' = stream /\ applied' = Append(applied, Current)
    BY <1>5, HandledIsNext
  <2>2. /\ Len(applied') = Len(applied) + 1 /\ applied'[Len(applied) + 1] = Current
        /\ \A k \in 1..Len(applied) : applied'[k] = applied[k]
        /\ DOMAIN applied' = 1..Len(applied')
    BY <1>1, <2>1, AppendProperties
  <2>3. \A k \in DOMAIN applied : applied[k] # Current
    <3> SUFFICES ASSUME NEW k \in DOMAIN applied, applied[k] = Current
                 PROVE  FALSE
      OBVIOUS
    <3>1. PICK i \in 1..Passed : stream[i] = applied[k]
      BY DEF EffectInv
    <3>2. i \in 1..Len(stream)
      BY <1>1
    <3>3. i = Passed + 1
      BY <2>1, <3>1, <3>2 DEF StreamInv
    <3> QED
      BY <1>1, <3>3
  <2>4. EffectInv'
    <3>1. ASSUME NEW k \in DOMAIN applied'
          PROVE  \E i \in 1..Passed' : stream'[i] = applied'[k]
      <4>1. CASE k \in 1..Len(applied)
        BY <1>1, <1>3, <2>2, <4>1
      <4>2. CASE k = Len(applied) + 1
        BY <1>1, <2>1, <2>2, <4>2
      <4> QED
        BY <1>1, <2>2, <4>1, <4>2
    <3> QED
      BY <3>1 DEF EffectInv
  <2>5. EffectAtMostOnce'
    BY <1>1, <2>2, <2>3 DEF EffectAtMostOnce
  <2> QED
    BY <2>4, <2>5
<1> QED
  BY <1>4, <1>5, Steps, ElsewhereLeaves DEF AddToStream, ReadGroup, HandOut, ReadLost, Check,
     CheckFails, StoreResult, MarkReceipt, StoreFails, Ack, LoopDies, Crash, Restart, historyVars
-----------------------------------------------------------------------------
(* Answers *)

(* A stored outcome stays one, and a report stays.                         *)
LEMMA AnswersStay ==
  ASSUME TypeOK, AnswerInv, [Next]_vars, NEW c \in Cmds
  PROVE  /\ result[c] # "none" => result'[c] \in Terminal
         /\ unreported \subseteq unreported'
<1>1. result \in [Cmds -> Terminal \cup {"none"}]
  BY DEF TypeOK
<1>2. result[c] # "none" => result'[c] \in Terminal
  <2>1. CASE StoreResult
    <3>1. worker.outcome \in Terminal /\ result' = [result EXCEPT ![Current] = worker.outcome]
      BY <2>1 DEF StoreResult, AnswerInv
    <3> QED
      BY <1>1, <3>1
  <2>2. CASE UNCHANGED result
    BY <1>1, <2>2
  <2> QED
    BY <2>1, <2>2, Steps, ElsewhereLeaves DEF AddToStream, ReadGroup, HandOut, ReadLost,
       Check, CheckFails, Handle, HandleFails, MarkReceipt, StoreFails, Ack, LoopDies, Crash,
       Restart, queueVars
<1>3. unreported \subseteq unreported'
  BY Steps, ElsewhereLeaves DEF AddToStream, ReadGroup, HandOut, ReadLost, Check, CheckFails,
     Handle, HandleFails, StoreResult, MarkReceipt, StoreFails, Ack, LoopDies, Crash, Restart,
     historyVars
<1> QED
  BY <1>2, <1>3

LEMMA ReceiptStep ==
  ASSUME TypeOK, AnswerInv, [Next]_vars, NEW c \in Cmds, receipt'[c] \in Terminal
  PROVE  result'[c] \in Terminal
<1>1. /\ receipt \in [Cmds -> Terminal \cup {"none", "queued"}]
      /\ result \in [Cmds -> Terminal \cup {"none"}]
      /\ "none" \notin Terminal /\ "queued" \notin Terminal
  BY DEF TypeOK, Terminal
<1>2. result[c] \in Terminal
  <2>1. CASE \E x \in Cmds : WriteReceipt(x)
    BY <1>1, <2>1 DEF WriteReceipt, AnswerInv
  <2>2. CASE MarkReceipt
    <3>1. /\ receipt' = [receipt EXCEPT ![Current] = worker.outcome]
          /\ result[Current] # "none" /\ Current \in Cmds
      BY <2>2, CurrentType DEF MarkReceipt, AnswerInv, Working
    <3>2. CASE c = Current
      BY <1>1, <3>1, <3>2
    <3>3. CASE c # Current
      BY <1>1, <3>1, <3>3 DEF AnswerInv
    <3> QED
      BY <3>2, <3>3
  <2>3. CASE UNCHANGED receipt
    BY <2>3 DEF AnswerInv
  <2> QED
    BY <2>1, <2>2, <2>3 DEF Next, WorkerStep, Request, Schedule, AddToStream, RequestFails,
       SchedLockExpires, ReadGroup, HandOut, Check, Handle, StoreResult, Ack, Restart,
       ReadLost, CheckFails, HandleFails, StoreFails, LoopDies, Crash, SetKillSwitch,
       ArmOnDrift, vars, queueVars
<1> QED
  BY <1>1, <1>2, AnswersStay

LEMMA AnswerStep ==
  ASSUME TypeOK, AnswerInv, [Next]_vars
  PROVE  AnswerInv'
<1>1. \A c \in Cmds : receipt'[c] \in Terminal => result'[c] \in Terminal
  BY ReceiptStep
<1>2. /\ worker = [pc |-> worker.pc, batch |-> worker.batch, outcome |-> worker.outcome]
      /\ result \in [Cmds -> Terminal \cup {"none"}]
      /\ receipt \in [Cmds -> Terminal \cup {"none", "queued"}]
      /\ "none" \notin Terminal /\ "failed" \in Terminal /\ "completed" \in Terminal
  BY WorkerType DEF TypeOK, Terminal
<1> DEFINE ThenAnswered ==
      /\ worker'.pc \in {"store", "mark"} => worker'.outcome \in Terminal
      /\ worker'.pc = "mark" => result'[Head(worker'.batch)] # "none"
      /\ worker'.pc = "ack" =>
           result'[Head(worker'.batch)] # "none" \/ Head(worker'.batch) \in unreported'
<1>3. ASSUME Processing
      PROVE  ThenAnswered
  <2>1. worker.pc \in Working /\ Current \in Cmds /\ worker'.batch = worker.batch
    BY <1>3, ProcessingLeaves, CurrentType
  <2>2. CASE Check
    <3>1. StatusOf(Current) \in Terminal => result[Current] # "none"
      BY <1>2, <2>1 DEF StatusOf, AnswerInv
    <3>2. /\ worker'.pc = IF StatusOf(Current) \in Terminal THEN "ack" ELSE "handle"
          /\ result' = result
      BY <1>2, <2>2 DEF Check, queueVars
    <3> QED
      BY <2>1, <3>1, <3>2 DEF Current
  <2>3. CASE CheckFails
    <3>1. worker'.pc = "ack" /\ Current \in unreported'
      BY <1>2, <2>3 DEF CheckFails
    <3> QED
      BY <2>1, <3>1 DEF Current
  <2>4. CASE Handle \/ HandleFails
    <3>1. worker'.pc = "store" /\ worker'.outcome \in Terminal
      BY <1>2, <2>4 DEF Handle, HandleFails
    <3> QED
      BY <3>1
  <2>5. CASE StoreResult
    <3>1. /\ worker'.pc = "mark" /\ worker'.outcome = worker.outcome
          /\ worker.outcome \in Terminal
          /\ result' = [result EXCEPT ![Current] = worker.outcome]
      BY <1>2, <2>5 DEF StoreResult, AnswerInv
    <3>2. result'[Current] = worker.outcome
      BY <1>2, <2>1, <3>1
    <3> QED
      BY <1>2, <2>1, <3>1, <3>2 DEF Current
  <2>6. CASE MarkReceipt
    <3>1. worker'.pc = "ack" /\ result' = result /\ result[Current] # "none"
      BY <1>2, <2>6 DEF MarkReceipt, AnswerInv
    <3> QED
      BY <2>1, <3>1 DEF Current
  <2>7. CASE StoreFails
    <3>1. \/ worker'.pc = "store" /\ worker'.outcome = "failed"
          \/ worker'.pc = "ack" /\ Current \in unreported'
      BY <1>2, <2>7 DEF StoreFails
    <3> QED
      BY <1>2, <2>1, <3>1 DEF Current
  <2> QED
    BY <1>3, <2>2, <2>3, <2>4, <2>5, <2>6, <2>7 DEF Processing
<1>4. ASSUME UNCHANGED <<worker, result, unreported>>
      PROVE  ThenAnswered
  BY <1>4 DEF AnswerInv, Current
<1>5. ASSUME worker'.pc \notin {"store", "mark", "ack"}
      PROVE  ThenAnswered
  BY <1>5
<1>6. ThenAnswered
  <2>1. ReadGroup \/ Ack \/ LoopDies \/ Crash \/ Restart =>
          worker'.pc \notin {"store", "mark", "ack"}
    BY DEF ReadGroup, Ack, LoopDies, Crash, Restart, At
  <2>2. ReadLost \/ (\E c \in Cmds : AddToStream(c)) \/ Elsewhere =>
          UNCHANGED <<worker, result, unreported>>
    BY ElsewhereLeaves DEF ReadLost, HandOut, AddToStream, historyVars
  <2> QED
    BY <1>3, <1>4, <1>5, <2>1, <2>2, Steps DEF Processing
<1> QED
  BY <1>1, <1>6 DEF AnswerInv, Current

LEMMA AckedStep ==
  ASSUME TypeOK, AnswerInv, AckedIsAnswered, [Next]_vars
  PROVE  AckedIsAnswered'
<1> SUFFICES ASSUME NEW c \in Cmds, Delivered(c)', c \notin pending'
             PROVE  result'[c] # "none" \/ c \in unreported'
  BY DEF AckedIsAnswered
<1>1. /\ stream \in Seq(Cmds) /\ Len(stream) \in Nat /\ delivered \in 0..Len(stream)
      /\ "none" \notin Terminal
  BY DEF TypeOK, Terminal
<1>2. Delivered(c)
  <2>1. PICK i \in 1..delivered' : stream'[i] = c
    BY DEF Delivered
  <2>2. CASE ReadGroup \/ ReadLost
    <3>1. /\ delivered' = delivered + Len(NextBatch) /\ stream' = stream
          /\ pending' = pending \cup {NextBatch[k] : k \in DOMAIN NextBatch}
      BY <2>2 DEF ReadGroup, ReadLost, HandOut
    <3>2. /\ NextBatch \in Seq(Cmds) /\ Len(NextBatch) \in Nat
          /\ DOMAIN NextBatch = 1..Len(NextBatch)
          /\ \A k \in 1..Len(NextBatch) : NextBatch[k] = stream[delivered + k]
      BY NextBatchType
    <3>3. ASSUME i > delivered
          PROVE  FALSE
      <4>1. i - delivered \in DOMAIN NextBatch /\ delivered + (i - delivered) = i
        BY <1>1, <3>1, <3>2, <3>3
      <4>2. NextBatch[i - delivered] = c
        BY <2>1, <3>1, <3>2, <4>1
      <4> QED
        BY <3>1, <4>1, <4>2
    <3> QED
      BY <1>1, <2>1, <3>1, <3>2, <3>3 DEF Delivered
  <2>3. CASE delivered' = delivered
    <3>1. i \in 1..Len(stream) /\ i \in 1..delivered
      BY <1>1, <2>1, <2>3
    <3> QED
      BY <2>1, <3>1, StreamGrows DEF Delivered
  <2> QED
    BY <2>2, <2>3, Steps, ElsewhereLeaves DEF AddToStream, Check, CheckFails, Handle,
       HandleFails, StoreResult, MarkReceipt, StoreFails, Ack, LoopDies, Crash, Restart,
       queueVars
<1>3. CASE c \notin pending
  BY <1>1, <1>2, <1>3, AnswersStay DEF AckedIsAnswered
<1>4. CASE c \in pending
  <2>1. worker.pc = "ack" /\ c = Current
    BY <1>4, Steps, ElsewhereLeaves DEF AddToStream, ReadGroup, HandOut, ReadLost, Check,
       CheckFails, Handle, HandleFails, StoreResult, MarkReceipt, StoreFails, Ack, LoopDies,
       Crash, Restart, queueVars
  <2> QED
    BY <1>1, <2>1, AnswersStay DEF AnswerInv
<1> QED
  BY <1>3, <1>4

-----------------------------------------------------------------------------
LEMMA InvStep ==
  ASSUME IInv, [Next]_vars
  PROVE  IInv'
BY TypeStep, StreamStep, BatchStep, EffectStep, AnswerStep, AckedStep DEF IInv

LEMMA Invariance == Spec => []IInv
<1>1. Init => IInv
  BY InitInv
<1>2. IInv /\ [Next]_vars => IInv'
  BY InvStep
<1> QED
  BY <1>1, <1>2, PTL DEF Spec

(* Type correctness of the producers, the stream, the worker loop and the  *)
(* kill switch (rpc/queue.py, rpc/worker.py).                              *)
THEOREM TypeCorrect == Spec => []TypeOK
<1>1. IInv => TypeOK
  BY DEF IInv
<1> QED
  BY <1>1, Invariance, PTL

(* The worker runs the handler of a command at most once, whatever number  *)
(* of commands, batches of whatever size, and whenever the process dies or *)
(* Redis fails it.                                                         *)
THEOREM HandledOnce == Spec => []EffectAtMostOnce
<1>1. IInv => EffectAtMostOnce
  BY DEF IInv
<1> QED
  BY <1>1, Invariance, PTL

(* XACK comes after set_result, or after an error that was logged.         *)
THEOREM AnsweredFirst == Spec => []AckedIsAnswered
<1>1. IInv => AckedIsAnswered
  BY DEF IInv
<1> QED
  BY <1>1, Invariance, PTL

(* get_result never goes back from an outcome to queued, although the      *)
(* producer may write its receipt after the worker has written the         *)
(* outcome.                                                                *)
THEOREM OutcomesStay == Spec => FinishedStaysFinished
<1>1. IInv /\ [Next]_vars =>
        [\A c \in Cmds : StatusOf(c) \in Terminal => StatusOf(c)' \in Terminal]_vars
  <2> SUFFICES ASSUME IInv, [Next]_vars, NEW c \in Cmds, StatusOf(c) \in Terminal
               PROVE  StatusOf(c)' \in Terminal
    OBVIOUS
  <2>1. "none" \notin Terminal
    BY DEF Terminal
  <2>2. result[c] # "none"
    BY <2>1 DEF StatusOf, IInv, AnswerInv
  <2>3. result'[c] \in Terminal
    BY <2>2, AnswersStay DEF IInv
  <2> QED
    BY <2>1, <2>3 DEF StatusOf
<1> QED
  BY <1>1, Invariance, PTL DEF Spec, FinishedStaysFinished
=============================================================================
