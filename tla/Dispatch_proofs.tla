--------------------------- MODULE Dispatch_proofs ---------------------------
(***************************************************************************)
(* Safety of the dispatch path for any number of decisions, attempts and   *)
(* concurrent dispatch calls.                                              *)
(*                                                                         *)
(* The argument for one execution per claim window: a claim has one holder *)
(* (ClaimIsExclusive), so a key whose claim was never given up is pushed   *)
(* at most once (PushInv); every push is a token of its own that is either *)
(* in the command list or executed, and never both (TokenInv).             *)
(***************************************************************************)
EXTENDS Dispatch, TLAPS, SequenceTheorems

(* A key whose window is still open is pushed at most once, by the holder  *)
(* of its claim.                                                           *)
PushInv ==
  \A k \in Keys \ reopened :
    /\ sends[k] <= 1
    /\ k \notin claims => sends[k] = 0
    /\ \A c \in Callers : call[c].pc = "push" /\ call[c].key = k => sends[k] = 0

(* Tokens are numbered within the pushes of their key, no token occurs     *)
(* twice, and an executed command has left the list.                       *)
TokenInv ==
  /\ \A i \in DOMAIN commands : commands[i][3] <= sends[KeyOf(commands[i])]
  /\ \A i \in DOMAIN executions : executions[i][3] <= sends[KeyOf(executions[i])]
  /\ \A i, j \in DOMAIN commands : commands[i] = commands[j] => i = j
  /\ \A i, j \in DOMAIN executions : executions[i] = executions[j] => i = j
  /\ \A i \in DOMAIN commands, j \in DOMAIN executions : commands[i] # executions[j]

IInv == TypeOK /\ ClaimIsExclusive /\ PushInv /\ TokenInv

-----------------------------------------------------------------------------
(* Type correctness *)

LEMMA ActiveCall ==
  ASSUME TypeOK, NEW c \in Callers, call[c].pc # "idle"
  PROVE  /\ call[c] \in CallFrame
         /\ call[c].pc \in Phases \ {"idle"}
         /\ call[c].key \in Keys
         /\ call[c].tca \in BOOLEAN
         /\ call[c].inbox \in Seq(Message)
         /\ call[c].status \in Statuses \cup {"none"}
<1>1. call[c] \in CallFrame \cup {Idle}
  BY DEF TypeOK
<1>2. call[c] # Idle
  BY DEF Idle
<1> QED
  BY <1>1, <1>2 DEF CallFrame

(* The calls keep their type when one frame is replaced by another.        *)
LEMMA CallUpdate ==
  ASSUME TypeOK, NEW c \in Callers, NEW f \in CallFrame \cup {Idle},
         f.pc = "persist" => f.status \in Statuses,
         call' = [call EXCEPT ![c] = f]
  PROVE  /\ call' \in [Callers -> CallFrame \cup {Idle}]
         /\ \A d \in Callers : call'[d].pc = "persist" => call'[d].status \in Statuses
  BY DEF TypeOK

LEMMA FinishType ==
  ASSUME TypeOK, NEW c \in Callers, Finish(c)
  PROVE  /\ call' \in [Callers -> CallFrame \cup {Idle}]
         /\ \A d \in Callers : call'[d].pc = "persist" => call'[d].status \in Statuses
<1>1. Idle.pc = "idle"
  BY DEF Idle
<1> QED
  BY <1>1, CallUpdate DEF Finish

LEMMA MoveType ==
  ASSUME TypeOK, NEW c \in Callers, NEW from \in Phases \ {"idle"},
         NEW to \in Phases \ {"idle", "persist"}, Move(c, from, to)
  PROVE  /\ call' \in [Callers -> CallFrame \cup {Idle}]
         /\ \A d \in Callers : call'[d].pc = "persist" => call'[d].status \in Statuses
<1> DEFINE f == [call[c] EXCEPT !.pc = to]
<1>1. call[c] \in CallFrame
  BY ActiveCall DEF Move, Phases
<1>2. f \in CallFrame /\ f.pc = to
  BY <1>1 DEF CallFrame
<1>3. call' = [call EXCEPT ![c] = f]
  BY DEF Move
<1> QED
  BY <1>2, <1>3, CallUpdate

LEMMA DeliverType ==
  ASSUME TypeOK, NEW m \in Message, Deliver(m)
  PROVE  /\ call' \in [Callers -> CallFrame \cup {Idle}]
         /\ \A d \in Callers : call'[d].pc = "persist" => call'[d].status \in Statuses
<1>1. ASSUME NEW c \in Callers
      PROVE  /\ call'[c] \in CallFrame \cup {Idle}
             /\ call'[c].pc = call[c].pc
             /\ call'[c].pc = "persist" => call'[c].status \in Statuses
  <2>1. CASE call[c].pc = "wait"
    <3>1. call[c] \in CallFrame /\ Append(call[c].inbox, m) \in Seq(Message)
      BY <2>1, ActiveCall, AppendProperties
    <3>2. call'[c] = [call[c] EXCEPT !.inbox = Append(call[c].inbox, m)]
      BY <2>1 DEF Deliver
    <3> QED
      BY <2>1, <3>1, <3>2 DEF CallFrame
  <2>2. CASE call[c].pc # "wait"
    BY <2>2 DEF Deliver, TypeOK
  <2> QED
    BY <2>1, <2>2
<1> QED
  BY <1>1 DEF Deliver

LEMMA SpendType ==
  ASSUME TypeOK, NEW what \in {"calls", "faults", "expiries", "foreign"}, Spend(what)
  PROVE  budget' \in Budget
<1>1. /\ budget.calls \in 0..MaxCalls /\ budget.faults \in 0..MaxFaults
      /\ budget.expiries \in 0..MaxExpiries /\ budget.foreign \in 0..MaxForeign
      /\ budget = [calls |-> budget.calls, faults |-> budget.faults,
                   expiries |-> budget.expiries, foreign |-> budget.foreign]
  BY DEF TypeOK, Budget
<1>2. CASE what = "calls"
  BY <1>1, <1>2, BoundsAreNaturals DEF Budget, Spend
<1>3. CASE what = "faults"
  BY <1>1, <1>3, BoundsAreNaturals DEF Budget, Spend
<1>4. CASE what = "expiries"
  BY <1>1, <1>4, BoundsAreNaturals DEF Budget, Spend
<1>5. CASE what = "foreign"
  BY <1>1, <1>5, BoundsAreNaturals DEF Budget, Spend
<1> QED
  BY <1>2, <1>3, <1>4, <1>5

LEMMA CommitRecordType ==
  ASSUME TypeOK, NEW l \in Lineages, NEW status \in Statuses, NEW tca \in BOOLEAN,
         CommitRecord(l, status, tca)
  PROVE  /\ processed' \in [Lineages -> Statuses \cup {"none"}]
         /\ fills' \in SUBSET Lineages
  BY DEF TypeOK, CommitRecord

LEMMA KeyParts ==
  ASSUME NEW k \in Keys
  PROVE  k[1] \in Lineages /\ k[2] \in Attempts /\ k = <<k[1], k[2]>>
  BY DEF Keys

LEMMA TokenParts ==
  ASSUME NEW t \in Tokens
  PROVE  /\ KeyOf(t) \in Keys
         /\ t[1] \in Lineages /\ t[2] \in Attempts /\ t[3] \in Nat \ {0}
         /\ t = <<t[1], t[2], t[3]>>
  BY DEF Tokens, Keys, KeyOf

LEMMA TypeInit == ASSUME Init PROVE TypeOK
<1>1. /\ <<>> \in Seq(Tokens)
      /\ <<>> \in Seq(Message)
  BY EmptySeq
<1>2. Idle.pc # "persist"
  BY DEF Idle
<1>3. budget \in Budget
  BY BoundsAreNaturals DEF Init, Budget
<1> QED
  BY <1>1, <1>2, <1>3 DEF Init, TypeOK

(* The steps of a dispatch call.                                           *)
LEMMA CallTypeStep ==
  ASSUME TypeOK, NEW c \in Callers,
         StartDispatch(c) \/ CallStep(c) \/ RecordFails(c) \/ Abort(c)
  PROVE  TypeOK'
<1> USE DEF TypeOK
<1>1. CASE StartDispatch(c)
  <2>1. PICK k \in Keys, t \in BOOLEAN :
          call' = [call EXCEPT ![c] =
                     [pc |-> "lookup", key |-> k, tca |-> t, inbox |-> <<>>,
                      status |-> "none"]]
    BY <1>1 DEF StartDispatch
  <2> DEFINE f == [pc |-> "lookup", key |-> k, tca |-> t, inbox |-> <<>>,
                   status |-> "none"]
  <2>3. f \in CallFrame /\ f.pc = "lookup"
    BY EmptySeq DEF CallFrame, Phases
  <2>4. /\ call' \in [Callers -> CallFrame \cup {Idle}]
        /\ \A d \in Callers : call'[d].pc = "persist" => call'[d].status \in Statuses
    BY <2>1, <2>3, CallUpdate
  <2> QED
    BY <1>1, <2>4, SpendType DEF StartDispatch
<1>2. CASE Lookup(c)
  BY <1>2, FinishType, MoveType DEF Lookup, Phases
<1>3. CASE Claim(c)
  <2>1. call[c].key \in Keys
    BY <1>3, ActiveCall DEF Claim
  <2> QED
    BY <1>3, <2>1, FinishType, MoveType DEF Claim, Phases
<1>4. CASE Push(c)
  <2> DEFINE k == call[c].key
             n == sends[k] + 1
  <2>1. k \in Keys
    BY <1>4, ActiveCall DEF Push, Move
  <2>2. n \in Nat \ {0} /\ <<k[1], k[2], n>> \in Tokens
    BY <2>1 DEF Keys, Tokens
  <2>3. commands' \in Seq(Tokens) /\ sends' \in [Keys -> Nat]
    BY <1>4, <2>1, <2>2, AppendProperties DEF Push
  <2> QED
    BY <1>4, <2>3, MoveType DEF Push, Phases
<1>5. CASE Subscribe(c)
  BY <1>5, MoveType DEF Subscribe, Phases
<1>6. CASE Receive(c)
  <2> DEFINE m == Head(call[c].inbox)
  <2>1. call[c] \in CallFrame /\ m \in Message /\ Tail(call[c].inbox) \in Seq(Message)
    BY <1>6, ActiveCall, HeadTailProperties DEF Receive
  <2>2. CASE m = Foreign /\ Finish(c)
    BY <1>6, <2>2, FinishType DEF Receive
  <2>3. CASE m # Foreign /\ call' = [call EXCEPT ![c].pc = "persist", ![c].inbox = <<>>,
                                                ![c].status = m.status]
    <3> DEFINE f == [call[c] EXCEPT !.pc = "persist", !.inbox = <<>>,
                                    !.status = m.status]
    <3>1. m.status \in Statuses
      BY <2>1, <2>3 DEF Message
    <3>2. f \in CallFrame /\ f.status \in Statuses
      BY <2>1, <3>1, EmptySeq DEF CallFrame, Phases
    <3>3. call' = [call EXCEPT ![c] = f]
      BY <2>3
    <3> QED
      BY <1>6, <3>2, <3>3, CallUpdate DEF Receive
  <2>4. CASE call' = [call EXCEPT ![c].inbox = Tail(call[c].inbox)]
    <3> DEFINE f == [call[c] EXCEPT !.inbox = Tail(call[c].inbox)]
    <3>1. f \in CallFrame /\ f.pc = "wait"
      BY <1>6, <2>1 DEF CallFrame, Receive
    <3>2. call' = [call EXCEPT ![c] = f]
      BY <2>4
    <3> QED
      BY <1>6, <3>1, <3>2, CallUpdate DEF Receive
  <2> QED
    BY <1>6, <2>2, <2>3, <2>4 DEF Receive
<1>7. CASE Timeout(c)
  BY <1>7, FinishType DEF Timeout
<1>8. CASE Record(c)
  <2>1. /\ call[c].key[1] \in Lineages
        /\ call[c].status \in Statuses
        /\ call[c].tca \in BOOLEAN
    BY <1>8, ActiveCall, KeyParts DEF Record
  <2> QED
    BY <1>8, <2>1, FinishType, CommitRecordType DEF Record
<1>9. CASE RecordConflicts(c)
  BY <1>9, MoveType DEF RecordConflicts, Phases
<1>10. CASE Release(c)
  <2>1. call[c].key \in Keys
    BY <1>10, ActiveCall DEF Release
  <2> QED
    BY <1>10, <2>1, FinishType DEF Release
<1>11. CASE RecordFails(c)
  <2>1. call[c].pc = "persist"
    BY <1>11 DEF RecordFails, Move
  <2>2. /\ call[c].key[1] \in Lineages
        /\ call[c].status \in Statuses
        /\ call[c].tca \in BOOLEAN
    BY <2>1, ActiveCall, KeyParts
  <2>3. /\ processed' \in [Lineages -> Statuses \cup {"none"}]
        /\ fills' \in SUBSET Lineages
    BY <1>11, <2>2, CommitRecordType DEF RecordFails
  <2> QED
    BY <1>11, <2>3, MoveType, SpendType DEF RecordFails, Phases
<1>12. CASE Abort(c)
  BY <1>12, FinishType, SpendType DEF Abort
<1> QED
  BY <1>1, <1>2, <1>3, <1>4, <1>5, <1>6, <1>7, <1>8, <1>9, <1>10, <1>11, <1>12
     DEF CallStep

LEMMA TypeStep ==
  ASSUME TypeOK, [Next]_vars
  PROVE  TypeOK'
<1> USE DEF TypeOK
<1>1. ASSUME NEW k \in Keys, ExpireClaim(k) PROVE TypeOK'
  BY <1>1, SpendType DEF ExpireClaim
<1>2. CASE Serve
  <2> DEFINE t == Head(commands)
  <2>1. /\ t \in Tokens /\ KeyOf(t) \in Keys
        /\ commands' \in Seq(Tokens)
    BY <1>2, HeadTailProperties, TokenParts DEF Serve
  <2>2. /\ [key |-> KeyOf(t), status |-> "filled"] \in Message
        /\ [key |-> KeyOf(t), status |-> "rejected"] \in Message
        /\ Foreign \in Message
    BY <2>1 DEF Message, Statuses
  <2>3. executions' = Append(executions, t) \/ executions' = executions
    BY <1>2 DEF Serve
  <2>4. \E m \in Message : outbox' = Append(outbox, m)
    BY <1>2, <2>2 DEF Serve
  <2>5. executions' \in Seq(Tokens)
    <3>1. CASE executions' = executions
      BY <3>1
    <3>2. CASE executions' = Append(executions, t)
      <4> HIDE DEF t
      <4> QED
        BY <2>1, <3>2, AppendProperties
    <3> QED
      BY <2>3, <3>1, <3>2
  <2>6. outbox' \in Seq(Message)
    <3>1. PICK m \in Message : outbox' = Append(outbox, m)
      BY <2>4
    <3> QED
      BY <3>1, AppendProperties
  <2> QED
    BY <1>2, <2>1, <2>5, <2>6 DEF Serve
<1>3. CASE LoseCommand
  BY <1>3, HeadTailProperties, SpendType DEF LoseCommand
<1>4. CASE PublishResult
  BY <1>4, HeadTailProperties, DeliverType DEF PublishResult
<1>5. CASE PublishAgain
  BY <1>5, HeadTailProperties, DeliverType, SpendType DEF PublishAgain
<1>6. CASE TerminalRestart
  BY <1>6, EmptySeq, SpendType DEF TerminalRestart
<1>7. CASE ForeignResult
  BY <1>7, DeliverType, SpendType DEF ForeignResult, Message
<1>8. CASE UNCHANGED vars
  BY <1>8 DEF vars
<1> QED
  BY <1>1, <1>2, <1>3, <1>4, <1>5, <1>6, <1>7, <1>8, CallTypeStep DEF Next

(* Every variable keeps its type; in particular a call that persists holds *)
(* a result, and what waits in the lists of Redis and of the terminal is a *)
(* command or a message.                                                   *)
THEOREM TypeCorrect == Spec => []TypeOK
<1>1. Init => TypeOK
  BY TypeInit
<1>2. TypeOK /\ [Next]_vars => TypeOK'
  BY TypeStep
<1> QED
  BY <1>1, <1>2, PTL DEF Spec

-----------------------------------------------------------------------------
(* The claim *)

(* Whoever holds a claim after the step held it before it.                 *)
NoNewHolder ==
  \A c \in Callers : call'[c].pc \in Holding =>
    /\ call[c].pc \in Holding
    /\ call'[c].key = call[c].key
    /\ call'[c].pc = "push" => call[c].pc = "push"

(* The steps between which a claim is neither taken, used nor given up.    *)
Quiet == NoNewHolder /\ UNCHANGED <<claims, sends, reopened>>

LEMMA FinishedHolder ==
  ASSUME TypeOK, NEW c \in Callers, Finish(c)
  PROVE  NoNewHolder /\ call'[c].pc \notin Holding
  BY DEF TypeOK, Finish, Idle, Holding, NoNewHolder

LEMMA MovedHolder ==
  ASSUME TypeOK, NEW c \in Callers, NEW from, NEW to, Move(c, from, to), to # "push",
         to \in Holding => from \in Holding
  PROVE  NoNewHolder
<1>1. \A d \in Callers \ {c} : call'[d] = call[d]
  BY DEF Move, TypeOK
<1>2. call[c].pc = from
  BY DEF Move
<1>3. CASE from = "idle"
  BY <1>1, <1>2, <1>3 DEF NoNewHolder, Holding, Move, TypeOK
<1>4. CASE from # "idle"
  <2>1. call[c] \in CallFrame
    BY <1>2, <1>4, ActiveCall
  <2>2. call'[c] = [call[c] EXCEPT !.pc = to]
    BY DEF Move, TypeOK
  <2>3. call'[c].pc = to /\ call'[c].key = call[c].key
    BY <2>1, <2>2 DEF CallFrame
  <2> QED
    BY <1>1, <1>2, <2>3 DEF NoNewHolder
<1> QED
  BY <1>3, <1>4

LEMMA DeliveredHolder ==
  ASSUME TypeOK, NEW m, Deliver(m)
  PROVE  NoNewHolder
<1> SUFFICES ASSUME NEW c \in Callers
             PROVE  call'[c].pc = call[c].pc /\ call'[c].key = call[c].key
  BY DEF NoNewHolder
<1>1. CASE call[c].pc = "wait"
  <2>1. call[c] \in CallFrame
    BY <1>1, ActiveCall
  <2>2. call'[c] = [call[c] EXCEPT !.inbox = Append(call[c].inbox, m)]
    BY <1>1 DEF Deliver
  <2> QED
    BY <2>1, <2>2 DEF CallFrame
<1>2. CASE call[c].pc # "wait"
  BY <1>2 DEF Deliver
<1> QED
  BY <1>1, <1>2

LEMMA QuietCalls ==
  ASSUME TypeOK, NEW c \in Callers,
         \/ StartDispatch(c) \/ Lookup(c) \/ Subscribe(c) \/ Receive(c) \/ Timeout(c)
         \/ Record(c) \/ RecordConflicts(c) \/ RecordFails(c) \/ Abort(c)
  PROVE  Quiet
<1>1. CASE StartDispatch(c)
  <2>1. call'[c].pc = "lookup" /\ \A d \in Callers \ {c} : call'[d] = call[d]
    BY <1>1 DEF StartDispatch, TypeOK
  <2> QED
    BY <1>1, <2>1 DEF StartDispatch, Quiet, NoNewHolder, Holding
<1>2. CASE Lookup(c)
  BY <1>2, FinishedHolder, MovedHolder DEF Lookup, Quiet, Holding
<1>3. CASE Subscribe(c)
  BY <1>3, MovedHolder DEF Subscribe, Quiet, Holding
<1>4. CASE Receive(c)
  <2>1. call[c] \in CallFrame
    BY <1>4, ActiveCall DEF Receive
  <2>2. CASE Finish(c)
    BY <1>4, <2>2, FinishedHolder DEF Receive, Quiet
  <2>3. CASE call' = [call EXCEPT ![c].pc = "persist", ![c].inbox = <<>>,
                                ![c].status = Head(call[c].inbox).status]
    <3>1. call'[c].pc = "persist" /\ call'[c].key = call[c].key
      BY <2>1, <2>3 DEF CallFrame, TypeOK
    <3>2. \A d \in Callers \ {c} : call'[d] = call[d]
      BY <2>3 DEF TypeOK
    <3> QED
      BY <1>4, <3>1, <3>2 DEF Receive, Quiet, NoNewHolder, Holding
  <2>4. CASE call' = [call EXCEPT ![c].inbox = Tail(call[c].inbox)]
    <3>1. call'[c].pc = call[c].pc /\ call'[c].key = call[c].key
      BY <2>1, <2>4 DEF CallFrame, TypeOK
    <3>2. \A d \in Callers \ {c} : call'[d] = call[d]
      BY <2>4 DEF TypeOK
    <3> QED
      BY <1>4, <3>1, <3>2 DEF Receive, Quiet, NoNewHolder, Holding
  <2> QED
    BY <1>4, <2>2, <2>3, <2>4 DEF Receive
<1>5. CASE Timeout(c)
  BY <1>5, FinishedHolder DEF Timeout, Quiet
<1>6. CASE Record(c)
  BY <1>6, FinishedHolder DEF Record, Quiet
<1>7. CASE RecordConflicts(c)
  BY <1>7, MovedHolder DEF RecordConflicts, Quiet, Holding
<1>8. CASE RecordFails(c)
  BY <1>8, MovedHolder DEF RecordFails, Quiet, Holding
<1>9. CASE Abort(c)
  BY <1>9, FinishedHolder DEF Abort, Quiet
<1> QED
  BY <1>1, <1>2, <1>3, <1>4, <1>5, <1>6, <1>7, <1>8, <1>9

LEMMA QuietTerminal ==
  ASSUME TypeOK,
         \/ Serve \/ LoseCommand \/ PublishResult \/ PublishAgain
         \/ TerminalRestart \/ ForeignResult \/ UNCHANGED vars
  PROVE  Quiet
<1>1. CASE Serve \/ LoseCommand \/ TerminalRestart \/ UNCHANGED vars
  BY <1>1 DEF Serve, LoseCommand, TerminalRestart, vars, Quiet, NoNewHolder
<1>2. CASE PublishResult
  BY <1>2, DeliveredHolder DEF PublishResult, Quiet
<1>3. CASE PublishAgain
  BY <1>3, DeliveredHolder DEF PublishAgain, Quiet
<1>4. CASE ForeignResult
  BY <1>4, DeliveredHolder DEF ForeignResult, Quiet
<1> QED
  BY <1>1, <1>2, <1>3, <1>4

(* A claim is granted: the call was not holding, nobody held that key.     *)
Granted(c) ==
  /\ call[c].key \in Keys \ claims
  /\ claims' = claims \cup {call[c].key}
  /\ call'[c].key = call[c].key
  /\ \A d \in Callers \ {c} : call'[d] = call[d]
  /\ UNCHANGED <<sends, reopened, commands, executions>>

LEMMA ClaimCases ==
  ASSUME TypeOK, NEW c \in Callers, Claim(c)
  PROVE  Granted(c) \/ (Quiet /\ UNCHANGED <<commands, executions>>)
<1>1. CASE Finish(c) /\ UNCHANGED claims
  BY <1>1, FinishedHolder DEF Claim, Quiet
<1>2. CASE call[c].key \notin claims /\ Move(c, "claim", "push")
  <2>1. call[c] \in CallFrame /\ call[c].key \in Keys
    BY <1>2, ActiveCall DEF Move
  <2>2. call'[c].key = call[c].key
    BY <1>2, <2>1 DEF Move, TypeOK, CallFrame
  <2>3. \A d \in Callers \ {c} : call'[d] = call[d]
    BY <1>2 DEF Move, TypeOK
  <2> QED
    BY <1>2, <2>1, <2>2, <2>3 DEF Claim, Granted
<1> QED
  BY <1>1, <1>2 DEF Claim

(* A command is pushed by the holder of its claim.                         *)
LEMMA PushEffect ==
  ASSUME TypeOK, NEW c \in Callers, Push(c)
  PROVE  /\ call[c].key \in Keys
         /\ call[c].pc = "push"
         /\ call'[c].pc # "push"
         /\ NoNewHolder
         /\ sends' = [sends EXCEPT ![call[c].key] = @ + 1]
         /\ commands' = Append(commands, <<call[c].key[1], call[c].key[2],
                                           sends[call[c].key] + 1>>)
         /\ UNCHANGED <<claims, reopened, executions>>
<1>1. call[c] \in CallFrame /\ call[c].key \in Keys
  BY ActiveCall DEF Push, Move
<1>2. call'[c].pc = "subscribe"
  BY <1>1 DEF Push, Move, TypeOK, CallFrame
<1>3. NoNewHolder
  BY MovedHolder DEF Push, Holding
<1> QED
  BY <1>1, <1>2, <1>3 DEF Push, Move

LEMMA ReleaseEffect ==
  ASSUME TypeOK, NEW c \in Callers, Release(c)
  PROVE  /\ call[c].key \in Keys
         /\ call[c].pc \in Holding
         /\ call'[c].pc \notin Holding
         /\ NoNewHolder
         /\ claims' = claims \ {call[c].key}
         /\ reopened' = reopened \cup {call[c].key}
         /\ UNCHANGED <<sends, commands, executions>>
  BY ActiveCall, FinishedHolder DEF Release, Holding

(* Every step is quiet, or it is one of the four that work on claims.      *)
LEMMA StepCases ==
  ASSUME TypeOK, [Next]_vars
  PROVE  \/ Quiet
         \/ \E c \in Callers : Granted(c) \/ Push(c) \/ Release(c)
         \/ \E k \in Keys : ExpireClaim(k)
<1>1. ASSUME NEW c \in Callers, CallStep(c)
      PROVE  Quiet \/ Granted(c) \/ Push(c) \/ Release(c)
  BY <1>1, QuietCalls, ClaimCases DEF CallStep
<1> QED
  BY <1>1, QuietCalls, QuietTerminal DEF Next

(* A claim has one holder: it is granted only when nobody holds the key,   *)
(* and only its holder, or its expiry after every call, takes it away.     *)
LEMMA ExclusiveStep ==
  ASSUME IInv, [Next]_vars
  PROVE  ClaimIsExclusive'
<1> USE DEF IInv, ClaimIsExclusive
<1>1. CASE Quiet
  BY <1>1 DEF Quiet, NoNewHolder
<1>2. ASSUME NEW c \in Callers, Granted(c) PROVE ClaimIsExclusive'
  BY <1>2 DEF Granted
<1>3. ASSUME NEW c \in Callers, Push(c) PROVE ClaimIsExclusive'
  BY <1>3, PushEffect DEF NoNewHolder
<1>4. ASSUME NEW c \in Callers, Release(c) PROVE ClaimIsExclusive'
  BY <1>4, ReleaseEffect DEF NoNewHolder
<1>5. ASSUME NEW k \in Keys, ExpireClaim(k) PROVE ClaimIsExclusive'
  BY <1>5 DEF ExpireClaim
<1> QED
  BY <1>1, <1>2, <1>3, <1>4, <1>5, StepCases

(* An open key is pushed once: the push needs the claim, and the claim is  *)
(* granted only while there was no push.                                   *)
LEMMA PushStep ==
  ASSUME IInv, [Next]_vars
  PROVE  PushInv'
<1> USE DEF IInv, PushInv
<1>1. CASE Quiet
  BY <1>1 DEF Quiet, NoNewHolder, Holding
<1>2. ASSUME NEW c \in Callers, Granted(c) PROVE PushInv'
  <2> SUFFICES ASSUME NEW k \in Keys \ reopened
               PROVE  /\ sends[k] <= 1
                      /\ k \notin claims' => sends[k] = 0
                      /\ \A d \in Callers :
                           call'[d].pc = "push" /\ call'[d].key = k => sends[k] = 0
    BY <1>2 DEF Granted
  <2> QED
    BY <1>2 DEF Granted
<1>3. ASSUME NEW c \in Callers, Push(c) PROVE PushInv'
  <2> SUFFICES ASSUME NEW k \in Keys \ reopened
               PROVE  /\ sends'[k] <= 1
                      /\ k \notin claims => sends'[k] = 0
                      /\ \A d \in Callers :
                           call'[d].pc = "push" /\ call'[d].key = k => sends'[k] = 0
    BY <1>3, PushEffect
  <2>1. CASE k = call[c].key
    <3>1. sends[k] = 0 /\ k \in claims
      BY <1>3, <2>1, PushEffect DEF ClaimIsExclusive, Holding
    <3>2. sends'[k] = 1
      BY <1>3, <2>1, <3>1, PushEffect DEF TypeOK
    <3>3. ASSUME NEW d \in Callers, call'[d].pc = "push", call'[d].key = k
          PROVE  FALSE
      <4>1. call[d].pc = "push" /\ call[d].key = k /\ d # c
        BY <1>3, <3>3, PushEffect DEF NoNewHolder, Holding
      <4> QED
        BY <1>3, <2>1, <4>1, PushEffect DEF ClaimIsExclusive, Holding
    <3> QED
      BY <3>1, <3>2, <3>3
  <2>2. CASE k # call[c].key
    <3>1. sends'[k] = sends[k]
      BY <1>3, <2>2, PushEffect DEF TypeOK
    <3> QED
      BY <1>3, <3>1, PushEffect DEF NoNewHolder, Holding
  <2> QED
    BY <2>1, <2>2
<1>4. ASSUME NEW c \in Callers, Release(c) PROVE PushInv'
  BY <1>4, ReleaseEffect DEF NoNewHolder, Holding
<1>5. ASSUME NEW k \in Keys, ExpireClaim(k) PROVE PushInv'
  BY <1>5 DEF ExpireClaim
<1> QED
  BY <1>1, <1>2, <1>3, <1>4, <1>5, StepCases

-----------------------------------------------------------------------------
(* Tokens *)

LEMMA SendsGrow ==
  ASSUME TypeOK, [Next]_vars, NEW k \in Keys
  PROVE  sends[k] \in Nat /\ sends'[k] \in Nat /\ sends[k] <= sends'[k]
<1>1. CASE sends' = sends
  BY <1>1 DEF TypeOK
<1>2. ASSUME NEW c \in Callers, Push(c)
      PROVE  sends[k] \in Nat /\ sends'[k] \in Nat /\ sends[k] <= sends'[k]
  <2>1. sends[k] \in Nat
    BY DEF TypeOK
  <2>2. CASE k = call[c].key
    <3>1. sends'[k] = sends[k] + 1
      BY <1>2, <2>2, PushEffect DEF TypeOK
    <3> QED
      BY <2>1, <3>1
  <2>3. CASE k # call[c].key
    <3>1. sends'[k] = sends[k]
      BY <1>2, <2>3, PushEffect DEF TypeOK
    <3> QED
      BY <2>1, <3>1
  <2> QED
    BY <2>2, <2>3
<1> QED
  BY <1>1, <1>2, StepCases DEF Quiet, Granted, Release, ExpireClaim

(* What the terminal side does to commands and executions.                 *)
LEMMA TakeEffect ==
  ASSUME TypeOK, commands # <<>>
  PROVE  /\ Head(commands) = commands[1] /\ Head(commands) \in Tokens
         /\ 1 \in DOMAIN commands
         /\ \A i \in DOMAIN Tail(commands) :
              i + 1 \in DOMAIN commands /\ i # 0 /\ Tail(commands)[i] = commands[i + 1]
<1>1. commands \in Seq(Tokens)
  BY DEF TypeOK
<1> QED
  BY <1>1, HeadTailProperties

LEMMA TokenStep ==
  ASSUME IInv, [Next]_vars
  PROVE  TokenInv'
<1> USE DEF IInv, TokenInv
<1>0. /\ \A i \in DOMAIN commands : commands[i] \in Tokens /\ KeyOf(commands[i]) \in Keys
      /\ \A i \in DOMAIN executions :
           executions[i] \in Tokens /\ KeyOf(executions[i]) \in Keys
  BY TokenParts DEF TypeOK
<1>1. CASE UNCHANGED <<commands, executions, sends>>
  BY <1>1 DEF KeyOf
<1>2. ASSUME NEW c \in Callers, Push(c) PROVE TokenInv'
  <2> DEFINE k == call[c].key
             t == <<k[1], k[2], sends[k] + 1>>
             n == Len(commands)
  <2>1. /\ k \in Keys /\ t \in Tokens /\ KeyOf(t) = k /\ t[3] = sends[k] + 1
        /\ sends'[k] = sends[k] + 1
    BY <1>2, PushEffect DEF Keys, Tokens, KeyOf, TypeOK
  <2>2. /\ n \in Nat
        /\ DOMAIN commands = 1..n
        /\ DOMAIN commands' = 1..(n + 1)
        /\ \A i \in 1..n : commands'[i] = commands[i]
        /\ commands'[n + 1] = t
    <3>1. commands' = Append(commands, t)
      BY <1>2, PushEffect
    <3>2. commands \in Seq(Tokens)
      BY DEF TypeOK
    <3> HIDE DEF t
    <3> QED
      BY <2>1, <3>1, <3>2, AppendProperties, LenProperties
  <2>3. executions' = executions
    BY <1>2, PushEffect
  <2>4. ASSUME NEW u \in Tokens, u[3] <= sends[KeyOf(u)]
        PROVE  u # t /\ u[3] <= sends'[KeyOf(u)]
    <3>1. u # t
      <4>1. sends[k] \in Nat
        BY <2>1 DEF TypeOK
      <4> SUFFICES ASSUME u = t PROVE FALSE
        OBVIOUS
      <4>2. u[3] = sends[k] + 1 /\ KeyOf(u) = k
        BY <2>1
      <4> HIDE DEF t, k
      <4> QED
        BY <2>4, <4>1, <4>2
    <3>2. KeyOf(u) \in Keys /\ u[3] \in Nat
      BY TokenParts
    <3> QED
      BY <2>4, <3>1, <3>2, SendsGrow
  <2> HIDE DEF t
  <2>5. \A i \in DOMAIN commands' : i \in 1..n \/ i = n + 1
    BY <2>2
  <2>6. \A i \in 1..n : commands[i] # t /\ commands[i][3] <= sends'[KeyOf(commands[i])]
    BY <1>0, <2>2, <2>4
  <2>7. \A i \in DOMAIN executions :
          executions[i] # t /\ executions[i][3] <= sends'[KeyOf(executions[i])]
    BY <1>0, <2>4
  <2>8. \A i \in DOMAIN commands' : commands'[i][3] <= sends'[KeyOf(commands'[i])]
    <3> SUFFICES ASSUME NEW i \in DOMAIN commands'
                 PROVE  commands'[i][3] <= sends'[KeyOf(commands'[i])]
      OBVIOUS
    <3>1. CASE i \in 1..n
      BY <2>2, <2>6, <3>1
    <3>2. CASE i = n + 1
      <4>1. t[3] = sends'[KeyOf(t)] /\ sends'[k] \in Nat
        BY <2>1, SendsGrow
      <4> QED
        BY <2>1, <2>2, <3>2, <4>1
    <3> QED
      BY <2>5, <3>1, <3>2
  <2>9. \A i, j \in DOMAIN commands' : commands'[i] = commands'[j] => i = j
    BY <2>2, <2>5, <2>6
  <2>10. \A i \in DOMAIN commands', j \in DOMAIN executions : commands'[i] # executions[j]
    BY <2>2, <2>5, <2>7
  <2> QED
    BY <2>3, <2>7, <2>8, <2>9, <2>10 DEF KeyOf
<1>3. CASE LoseCommand \/ (Serve /\ UNCHANGED executions)
  <2>1. commands # <<>> /\ commands' = Tail(commands) /\ UNCHANGED <<executions, sends>>
    BY <1>3 DEF LoseCommand, Serve
  <2>2. \A i \in DOMAIN commands' : i + 1 \in DOMAIN commands /\ commands'[i] = commands[i + 1]
    BY <2>1, TakeEffect
  <2>3. \A i, j \in DOMAIN commands' : i + 1 = j + 1 => i = j
    BY <2>1, HeadTailProperties DEF TypeOK
  <2> QED
    BY <2>1, <2>2, <2>3 DEF KeyOf
<1>4. CASE Serve /\ executions' = Append(executions, Head(commands))
  <2> DEFINE t == Head(commands)
             n == Len(executions)
  <2>1. commands # <<>> /\ commands' = Tail(commands) /\ sends' = sends
    BY <1>4 DEF Serve
  <2>2. /\ t = commands[1] /\ t \in Tokens /\ 1 \in DOMAIN commands
        /\ \A i \in DOMAIN commands' :
             i + 1 \in DOMAIN commands /\ i # 0 /\ commands'[i] = commands[i + 1]
    BY <2>1, TakeEffect
  <2> HIDE DEF t
  <2>3. /\ n \in Nat
        /\ DOMAIN executions = 1..n
        /\ DOMAIN executions' = 1..(n + 1)
        /\ \A i \in 1..n : executions'[i] = executions[i]
        /\ executions'[n + 1] = t
    BY <1>4, <2>2, AppendProperties DEF TypeOK, t
  <2>4. \A i \in DOMAIN executions' : i \in 1..n \/ i = n + 1
    BY <2>3
  <2>5. DOMAIN commands' \subseteq Nat
    BY <2>1, HeadTailProperties DEF TypeOK
  <2>6. \A i \in DOMAIN executions' : executions'[i][3] <= sends[KeyOf(executions'[i])]
    BY <2>2, <2>3, <2>4
  <2>7. \A i, j \in DOMAIN executions' : executions'[i] = executions'[j] => i = j
    BY <2>2, <2>3, <2>4
  <2>8. \A i \in DOMAIN commands', j \in DOMAIN executions' : commands'[i] # executions'[j]
    BY <2>2, <2>3, <2>4, <2>5
  <2>9. \A i, j \in DOMAIN commands' : commands'[i] = commands'[j] => i = j
    BY <2>2, <2>5
  <2> QED
    BY <2>1, <2>2, <2>6, <2>7, <2>8, <2>9 DEF KeyOf
<1> QED
  BY <1>1, <1>2, <1>3, <1>4
     DEF Next, CallStep, Serve, StartDispatch, Lookup, Claim, Subscribe, Receive,
         Timeout, Record, RecordConflicts, RecordFails, Release, Abort, ExpireClaim,
         PublishResult, PublishAgain, TerminalRestart, ForeignResult, vars

-----------------------------------------------------------------------------
(* The inductive invariant and what follows from it *)

LEMMA Inductive == Spec => []IInv
<1>1. Init => IInv
  <2> SUFFICES ASSUME Init PROVE IInv
    OBVIOUS
  <2>1. TypeOK
    BY TypeInit
  <2>2. ClaimIsExclusive /\ PushInv /\ TokenInv
    BY DEF Init, Idle, ClaimIsExclusive, Holding, PushInv, TokenInv
  <2> QED
    BY <2>1, <2>2 DEF IInv
<1>2. IInv /\ [Next]_vars => IInv'
  <2> SUFFICES ASSUME IInv, [Next]_vars PROVE IInv'
    OBVIOUS
  <2>1. TypeOK'
    BY TypeStep DEF IInv
  <2>2. ClaimIsExclusive'
    BY ExclusiveStep DEF IInv
  <2> QED
    BY <2>1, <2>2, PushStep, TokenStep DEF IInv
<1> QED
  BY <1>1, <1>2, PTL DEF Spec

(* Two dispatch calls never hold one order attempt at the same time, and   *)
(* the claim of a holder is in Redis, whatever the number of callers.      *)
THEOREM ClaimsAreExclusive == Spec => []ClaimIsExclusive
<1>1. IInv => ClaimIsExclusive
  BY DEF IInv
<1> QED
  BY <1>1, Inductive, PTL

(* The broker executes an order attempt at most once as long as its claim  *)
(* was never given up: both executions would be pushes of an open key, of  *)
(* which there is one, and a push is executed once.                        *)
THEOREM OneExecution == Spec => []OneExecutionPerWindow
<1>1. IInv => OneExecutionPerWindow
  <2> SUFFICES ASSUME IInv,
                      NEW i \in DOMAIN executions, NEW j \in DOMAIN executions,
                      KeyOf(executions[i]) = KeyOf(executions[j]),
                      KeyOf(executions[i]) \notin reopened
               PROVE  i = j
    BY DEF OneExecutionPerWindow
  <2> DEFINE u == executions[i]
             v == executions[j]
             k == KeyOf(u)
  <2>1. u \in Tokens /\ v \in Tokens
    BY DEF IInv, TypeOK
  <2>2. /\ k \in Keys /\ u[3] \in Nat \ {0} /\ v[3] \in Nat \ {0}
        /\ u = <<u[1], u[2], u[3]>> /\ v = <<v[1], v[2], v[3]>>
    BY <2>1, TokenParts
  <2>3. u[1] = v[1] /\ u[2] = v[2]
    BY DEF KeyOf
  <2>4. sends[k] <= 1 /\ sends[k] \in Nat
    BY <2>2 DEF IInv, PushInv, TypeOK
  <2>5. u[3] <= sends[k] /\ v[3] <= sends[k]
    BY DEF IInv, TokenInv
  <2>6. u[3] = 1 /\ v[3] = 1
    <3> HIDE DEF u, v, k
    <3> QED
      BY <2>2, <2>4, <2>5
  <2>7. u = v
    BY <2>2, <2>3, <2>6
  <2> QED
    BY <2>7 DEF IInv, TokenInv
<1> QED
  BY <1>1, Inductive, PTL

------------------------------------------------------------------------------
(***************************************************************************)
(* The record of the dispatch path tells the truth, and the path           *)
(* implements the order ledger, for any number of decisions, attempts and  *)
(* concurrent dispatch calls.                                              *)
(*                                                                         *)
(* A result that says filled exists only for a key the broker executed,    *)
(* wherever the result waits: with the terminal, in a subscription, or in  *)
(* the call that took it (BookInv).  So what a call records is true, and   *)
(* with the invariant of Dispatch_proofs every step is one of the ledger.  *)
(***************************************************************************)

(* The broker executed a push of key k.                                    *)
Ran(k, deals) == \E i \in DOMAIN deals : KeyOf(deals[i]) = k

(* The filled results of the list s are of executed keys.                  *)
Vouched(s, deals) ==
  \A i \in 1..Len(s) : s[i].status = "filled" => Ran(s[i].key, deals)

(* A call knows of real results only, and waits for a command it pushed.   *)
FrameInv(f, deals, pushes) ==
  /\ Vouched(f.inbox, deals)
  /\ f.status = "filled" => Ran(f.key, deals)
  /\ f.pc \in {"subscribe", "wait", "persist"} => pushes[f.key] > 0

BookInv ==
  /\ Vouched(outbox, executions)
  /\ \A c \in Callers : FrameInv(call[c], executions, sends)
  /\ RecordedFillIsReal

-----------------------------------------------------------------------------
(* Executions and pushes are never undone *)

LEMMA DealsGrow ==
  ASSUME TypeOK, [Next]_vars
  PROVE  \A i \in DOMAIN executions : i \in DOMAIN executions' /\ executions'[i] = executions[i]
<1>1. CASE UNCHANGED executions
  BY <1>1
<1>2. ASSUME NEW t \in Tokens, executions' = Append(executions, t)
      PROVE  \A i \in DOMAIN executions :
               i \in DOMAIN executions' /\ executions'[i] = executions[i]
  <2>1. executions \in Seq(Tokens)
    BY DEF TypeOK
  <2> QED
    BY <1>2, <2>1, AppendProperties, LenProperties
<1>3. CASE Serve
  <2>1. Head(commands) \in Tokens
    BY <1>3, TakeEffect DEF Serve
  <2>2. executions' = Append(executions, Head(commands)) \/ UNCHANGED executions
    BY <1>3 DEF Serve
  <2> QED
    BY <1>1, <1>2, <2>1, <2>2
<1>4. ASSUME NEW c \in Callers,
             StartDispatch(c) \/ CallStep(c) \/ RecordFails(c) \/ Abort(c)
      PROVE  UNCHANGED executions
  BY <1>4 DEF StartDispatch, CallStep, RecordFails, Abort, Lookup, Claim, Push, Subscribe,
       Receive, Timeout, Record, RecordConflicts, Release
<1>5. CASE \/ \E k \in Keys : ExpireClaim(k)
           \/ LoseCommand \/ PublishResult \/ PublishAgain \/ TerminalRestart
           \/ ForeignResult \/ UNCHANGED vars
  BY <1>1, <1>5 DEF ExpireClaim, LoseCommand, PublishResult, PublishAgain, TerminalRestart,
       ForeignResult, vars
<1> QED
  BY <1>1, <1>3, <1>4, <1>5 DEF Next

LEMMA RanStays ==
  ASSUME TypeOK, [Next]_vars, NEW k, Ran(k, executions)
  PROVE  Ran(k, executions')
  BY DealsGrow DEF Ran, KeyOf

LEMMA VouchedStays ==
  ASSUME TypeOK, [Next]_vars, NEW s, Vouched(s, executions)
  PROVE  Vouched(s, executions')
  BY RanStays DEF Vouched

LEMMA FrameStays ==
  ASSUME TypeOK, [Next]_vars, NEW f \in CallFrame \cup {Idle},
         FrameInv(f, executions, sends)
  PROVE  FrameInv(f, executions', sends')
<1>1. CASE f = Idle
  BY <1>1, RanStays, VouchedStays DEF FrameInv, Idle
<1>2. CASE f \in CallFrame
  <2>1. f.key \in Keys
    BY <1>2 DEF CallFrame
  <2>2. sends[f.key] > 0 => sends'[f.key] > 0
    BY <2>1, SendsGrow
  <2> QED
    BY <2>2, RanStays, VouchedStays DEF FrameInv
<1> QED
  BY <1>1, <1>2

LEMMA VouchedTail ==
  ASSUME NEW s \in Seq(Message), s # <<>>, NEW deals, Vouched(s, deals)
  PROVE  /\ Vouched(Tail(s), deals)
         /\ Head(s).status = "filled" => Ran(Head(s).key, deals)
<1>1. /\ Len(s) \in Nat \ {0} /\ Head(s) = s[1]
  BY EmptySeq
<1>2. /\ Len(Tail(s)) = Len(s) - 1
      /\ \A i \in 1..Len(Tail(s)) : Tail(s)[i] = s[i + 1]
  BY HeadTailProperties
<1>3. /\ 1 \in 1..Len(s)
      /\ \A i \in 1..(Len(s) - 1) : i + 1 \in 1..Len(s)
  BY <1>1
<1> QED
  BY <1>1, <1>2, <1>3 DEF Vouched

LEMMA VouchedAppend ==
  ASSUME NEW s \in Seq(Message), NEW m \in Message, NEW deals, Vouched(s, deals),
         m.status = "filled" => Ran(m.key, deals)
  PROVE  Vouched(Append(s, m), deals)
<1>1. /\ Len(Append(s, m)) = Len(s) + 1 /\ Len(s) \in Nat
      /\ \A i \in 1..Len(s) : Append(s, m)[i] = s[i]
      /\ Append(s, m)[Len(s) + 1] = m
  BY AppendProperties, LenProperties
<1>2. \A i \in 1..(Len(s) + 1) : i \in 1..Len(s) \/ i = Len(s) + 1
  BY <1>1
<1> QED
  BY <1>1, <1>2 DEF Vouched

-----------------------------------------------------------------------------
(* What calls know *)

LEMMA IdleKnowsNothing == \A deals, pushes : FrameInv(Idle, deals, pushes)
  BY DEF FrameInv, Idle, Vouched

(* One call changes: the others keep what they know.                       *)
LEMMA OneFrame ==
  ASSUME TypeOK, BookInv, [Next]_vars, NEW c \in Callers, NEW f,
         call' = [call EXCEPT ![c] = f], FrameInv(f, executions', sends')
  PROVE  \A d \in Callers : FrameInv(call'[d], executions', sends')
<1>1. \A d \in Callers : call[d] \in CallFrame \cup {Idle} /\ FrameInv(call[d], executions, sends)
  BY DEF TypeOK, BookInv
<1>2. \A d \in Callers : FrameInv(call[d], executions', sends')
  BY <1>1, FrameStays
<1>3. \A d \in Callers : call'[d] = IF d = c THEN f ELSE call[d]
  BY DEF TypeOK
<1> QED
  BY <1>2, <1>3

LEMMA FinishFrame ==
  ASSUME TypeOK, BookInv, [Next]_vars, NEW c \in Callers, Finish(c)
  PROVE  \A d \in Callers : FrameInv(call'[d], executions', sends')
  BY IdleKnowsNothing, OneFrame DEF Finish

LEMMA MoveFrame ==
  ASSUME TypeOK, BookInv, [Next]_vars, NEW c \in Callers, NEW from \in Phases \ {"idle"},
         NEW to, Move(c, from, to),
         to \in {"subscribe", "wait", "persist"} =>
           from \in {"subscribe", "wait", "persist"} \/ sends'[call[c].key] > 0
  PROVE  \A d \in Callers : FrameInv(call'[d], executions', sends')
<1> DEFINE f == [call[c] EXCEPT !.pc = to]
<1>1. call[c] \in CallFrame /\ call[c].pc = from /\ call' = [call EXCEPT ![c] = f]
  BY ActiveCall DEF Move
<1>2. FrameInv(call[c], executions', sends')
  <2>1. FrameInv(call[c], executions, sends)
    BY DEF BookInv
  <2> QED
    BY <1>1, <2>1, FrameStays
<1>3. f.pc = to /\ f.key = call[c].key /\ f.inbox = call[c].inbox /\ f.status = call[c].status
  BY <1>1 DEF CallFrame
<1> HIDE DEF f
<1>4. FrameInv(f, executions', sends')
  BY <1>1, <1>2, <1>3 DEF FrameInv
<1> QED
  BY <1>1, <1>4, OneFrame

LEMMA ReceiveFrame ==
  ASSUME TypeOK, BookInv, [Next]_vars, NEW c \in Callers, Receive(c)
  PROVE  \A d \in Callers : FrameInv(call'[d], executions', sends')
<1> DEFINE m == Head(call[c].inbox)
<1>1. /\ call[c] \in CallFrame /\ call[c].inbox \in Seq(Message) /\ call[c].inbox # <<>>
      /\ call[c].pc = "wait"
  BY ActiveCall DEF Receive
<1>2. FrameInv(call[c], executions, sends)
  BY DEF BookInv
<1>3. /\ Vouched(Tail(call[c].inbox), executions)
      /\ m.status = "filled" => Ran(m.key, executions)
  BY <1>1, <1>2, VouchedTail DEF FrameInv
<1>4. UNCHANGED <<executions, sends>>
  BY DEF Receive
<1>5. CASE m = Foreign /\ Finish(c)
  BY <1>5, FinishFrame
<1>6. CASE m.key = call[c].key /\ call' = [call EXCEPT ![c].pc = "persist", ![c].inbox = <<>>,
                                                        ![c].status = m.status]
  <2> DEFINE f == [call[c] EXCEPT !.pc = "persist", !.inbox = <<>>, !.status = m.status]
  <2>1. call' = [call EXCEPT ![c] = f]
    BY <1>6
  <2>2. f.pc = "persist" /\ f.key = call[c].key /\ f.inbox = <<>> /\ f.status = m.status
    BY <1>1 DEF CallFrame
  <2>3. sends[call[c].key] > 0
    BY <1>1, <1>2 DEF FrameInv
  <2> HIDE DEF f, m
  <2>4. FrameInv(f, executions, sends)
    BY <1>3, <1>6, <2>2, <2>3 DEF FrameInv, Vouched
  <2> QED
    BY <1>4, <2>1, <2>4, OneFrame
<1>7. CASE call' = [call EXCEPT ![c].inbox = Tail(call[c].inbox)]
  <2> DEFINE f == [call[c] EXCEPT !.inbox = Tail(call[c].inbox)]
  <2>1. call' = [call EXCEPT ![c] = f]
    BY <1>7
  <2>2. /\ f.pc = call[c].pc /\ f.key = call[c].key /\ f.status = call[c].status
        /\ f.inbox = Tail(call[c].inbox)
    BY <1>1 DEF CallFrame
  <2> HIDE DEF f
  <2>3. FrameInv(f, executions, sends)
    BY <1>2, <1>3, <2>2 DEF FrameInv
  <2> QED
    BY <1>4, <2>1, <2>3, OneFrame
<1> QED
  BY <1>5, <1>6, <1>7 DEF Receive

LEMMA DeliverFrame ==
  ASSUME TypeOK, BookInv, NEW m \in Message, Deliver(m),
         m.status = "filled" => Ran(m.key, executions), UNCHANGED <<executions, sends>>
  PROVE  \A d \in Callers : FrameInv(call'[d], executions', sends')
<1> SUFFICES ASSUME NEW d \in Callers PROVE FrameInv(call'[d], executions, sends)
  OBVIOUS
<1>1. FrameInv(call[d], executions, sends)
  BY DEF BookInv
<1>2. CASE call[d].pc = "wait"
  <2> DEFINE f == [call[d] EXCEPT !.inbox = Append(call[d].inbox, m)]
  <2>1. call[d] \in CallFrame /\ call[d].inbox \in Seq(Message)
    BY <1>2, ActiveCall
  <2>2. /\ f.pc = call[d].pc /\ f.key = call[d].key /\ f.status = call[d].status
        /\ f.inbox = Append(call[d].inbox, m)
    BY <2>1 DEF CallFrame
  <2>3. Vouched(Append(call[d].inbox, m), executions)
    BY <1>1, <2>1, VouchedAppend DEF FrameInv
  <2>4. call'[d] = f
    BY <1>2 DEF Deliver
  <2> HIDE DEF f
  <2> QED
    BY <1>1, <2>2, <2>3, <2>4 DEF FrameInv
<1>3. CASE call[d].pc # "wait"
  BY <1>1, <1>3 DEF Deliver
<1> QED
  BY <1>2, <1>3

-----------------------------------------------------------------------------
(* What is recorded *)

(* A record adds a result the call took, and only where there was none.    *)
LEMMA RecordTruth ==
  ASSUME TypeOK, BookInv, NEW c \in Callers, call[c].pc = "persist",
         CommitRecord(call[c].key[1], call[c].status, call[c].tca),
         UNCHANGED executions
  PROVE  RecordedFillIsReal'
<1> DEFINE r == call[c].key[1]
<1>1. call[c].key \in Keys /\ r \in Lineages
  BY ActiveCall, KeyParts
<1>2. call[c].status = "filled" => \E i \in DOMAIN executions : executions[i][1] = r
  BY DEF BookInv, FrameInv, Ran, KeyOf
<1>3. /\ \A l \in Lineages : processed'[l] = IF l = r THEN call[c].status ELSE processed[l]
      /\ processed[r] = "none"
      /\ fills' = IF call[c].tca /\ call[c].status = "filled" THEN fills \cup {r} ELSE fills
  BY <1>1 DEF CommitRecord, TypeOK
<1>4. \A l \in Lineages :
        /\ l \in fills => processed[l] = "filled"
        /\ processed[l] = "filled" => \E i \in DOMAIN executions : executions[i][1] = l
  BY DEF BookInv, RecordedFillIsReal
<1> HIDE DEF r
<1> QED
  BY <1>2, <1>3, <1>4 DEF RecordedFillIsReal

LEMMA RecordStays ==
  ASSUME TypeOK, BookInv, [Next]_vars, UNCHANGED <<processed, fills>>
  PROVE  RecordedFillIsReal'
  BY DealsGrow DEF BookInv, RecordedFillIsReal

LEMMA CallBook ==
  ASSUME TypeOK, BookInv, [Next]_vars, NEW c \in Callers,
         StartDispatch(c) \/ CallStep(c) \/ RecordFails(c) \/ Abort(c)
  PROVE  /\ \A d \in Callers : FrameInv(call'[d], executions', sends')
         /\ RecordedFillIsReal' /\ UNCHANGED <<outbox, executions>>
<1>1. CASE StartDispatch(c)
  <2>1. PICK k \in Keys, t \in BOOLEAN :
          call' = [call EXCEPT ![c] =
                     [pc |-> "lookup", key |-> k, tca |-> t, inbox |-> <<>>,
                      status |-> "none"]]
    BY <1>1 DEF StartDispatch
  <2> DEFINE f == [pc |-> "lookup", key |-> k, tca |-> t, inbox |-> <<>>,
                   status |-> "none"]
  <2>2. FrameInv(f, executions', sends')
    BY DEF FrameInv, Vouched
  <2> QED
    BY <1>1, <2>1, <2>2, OneFrame, RecordStays DEF StartDispatch
<1>2. CASE Lookup(c)
  BY <1>2, FinishFrame, MoveFrame, RecordStays DEF Lookup, Phases
<1>3. CASE Claim(c)
  BY <1>3, FinishFrame, MoveFrame, RecordStays DEF Claim, Phases
<1>4. CASE Push(c)
  <2>1. call[c].key \in Keys /\ sends[call[c].key] \in Nat
    BY <1>4, PushEffect DEF TypeOK
  <2>2. sends'[call[c].key] = sends[call[c].key] + 1
    BY <1>4, <2>1, PushEffect DEF TypeOK
  <2>3. sends'[call[c].key] > 0
    BY <2>1, <2>2
  <2> QED
    BY <1>4, <2>3, MoveFrame, RecordStays DEF Push, Phases
<1>5. CASE Subscribe(c)
  BY <1>5, MoveFrame, RecordStays DEF Subscribe, Phases
<1>6. CASE Receive(c)
  BY <1>6, ReceiveFrame, RecordStays DEF Receive
<1>7. CASE Timeout(c)
  BY <1>7, FinishFrame, RecordStays DEF Timeout
<1>8. CASE Record(c)
  BY <1>8, FinishFrame, RecordTruth DEF Record
<1>9. CASE RecordConflicts(c)
  BY <1>9, MoveFrame, RecordStays DEF RecordConflicts, Phases
<1>10. CASE RecordFails(c)
  <2>1. RecordedFillIsReal'
    BY <1>10, RecordStays, RecordTruth DEF RecordFails, Move
  <2> QED
    BY <1>10, <2>1, MoveFrame DEF RecordFails, Phases
<1>11. CASE Release(c)
  BY <1>11, FinishFrame, RecordStays DEF Release
<1>12. CASE Abort(c)
  BY <1>12, FinishFrame, RecordStays DEF Abort
<1> QED
  BY <1>1, <1>2, <1>3, <1>4, <1>5, <1>6, <1>7, <1>8, <1>9, <1>10, <1>11, <1>12
     DEF CallStep

(* The terminal reports filled only what the broker executed.              *)
LEMMA ServeBook ==
  ASSUME TypeOK, BookInv, [Next]_vars, Serve
  PROVE  Vouched(outbox', executions')
<1> DEFINE t == Head(commands)
<1>1. t \in Tokens /\ KeyOf(t) \in Keys
  BY TakeEffect, TokenParts DEF Serve
<1>2. outbox \in Seq(Message) /\ Vouched(outbox, executions')
  BY VouchedStays DEF TypeOK, BookInv
<1>3. executions \in Seq(Tokens)
  BY DEF TypeOK
<1> HIDE DEF t
<1>4. ASSUME executions' = Append(executions, t) PROVE Ran(KeyOf(t), executions')
  <2>1. /\ Len(executions) \in Nat /\ DOMAIN executions' = 1..(Len(executions) + 1)
        /\ executions'[Len(executions) + 1] = t
    BY <1>1, <1>3, <1>4, AppendProperties, LenProperties
  <2>2. Len(executions) + 1 \in 1..(Len(executions) + 1)
    BY <2>1
  <2> QED
    BY <2>1, <2>2 DEF Ran
<1>5. PICK m \in Message : /\ outbox' = Append(outbox, m)
                           /\ m.status = "filled" => Ran(m.key, executions')
  <2>1. \/ /\ executions' = Append(executions, t)
           /\ outbox' = Append(outbox, [key |-> KeyOf(t), status |-> "filled"])
        \/ outbox' = Append(outbox, [key |-> KeyOf(t), status |-> "rejected"])
        \/ outbox' = Append(outbox, Foreign)
    BY DEF Serve, t
  <2>2. /\ [key |-> KeyOf(t), status |-> "filled"] \in Message
        /\ [key |-> KeyOf(t), status |-> "rejected"] \in Message
        /\ Foreign \in Message /\ Foreign.status # "filled"
    BY <1>1 DEF Message, Statuses, Foreign
  <2> QED
    BY <1>4, <2>1, <2>2
<1> QED
  BY <1>2, <1>5, VouchedAppend

LEMMA BookStep ==
  ASSUME TypeOK, BookInv, [Next]_vars
  PROVE  BookInv'
<1>1. ASSUME NEW c \in Callers,
             StartDispatch(c) \/ CallStep(c) \/ RecordFails(c) \/ Abort(c)
      PROVE  BookInv'
  BY <1>1, CallBook DEF BookInv
<1>2. CASE UNCHANGED <<outbox, call, processed, fills, executions, sends>>
  BY <1>2 DEF BookInv, RecordedFillIsReal
<1>3. CASE \/ \E k \in Keys : ExpireClaim(k)
           \/ LoseCommand \/ UNCHANGED vars
  BY <1>2, <1>3 DEF ExpireClaim, LoseCommand, vars
<1>4. CASE Serve
  <2>1. UNCHANGED <<call, processed, fills, sends>>
    BY <1>4 DEF Serve
  <2>2. \A c \in Callers : FrameInv(call[c], executions', sends')
    BY FrameStays DEF TypeOK, BookInv
  <2> QED
    BY <1>4, <2>1, <2>2, ServeBook, RecordStays DEF BookInv
<1>5. ASSUME outbox # <<>>, Deliver(Head(outbox)), outbox' \in {outbox, Tail(outbox)},
             UNCHANGED <<processed, fills, executions, sends>>
      PROVE  BookInv'
  <2>1. outbox \in Seq(Message) /\ Head(outbox) \in Message
    BY <1>5, HeadTailProperties DEF TypeOK
  <2>2. /\ Vouched(outbox', executions')
        /\ Head(outbox).status = "filled" => Ran(Head(outbox).key, executions)
    BY <1>5, <2>1, VouchedTail DEF BookInv
  <2>3. \A c \in Callers : FrameInv(call'[c], executions', sends')
    BY <1>5, <2>1, <2>2, DeliverFrame
  <2> QED
    BY <1>5, <2>2, <2>3, RecordStays DEF BookInv
<1>6. CASE PublishResult \/ PublishAgain
  BY <1>5, <1>6 DEF PublishResult, PublishAgain
<1>7. CASE TerminalRestart
  <2>1. Vouched(<<>>, executions)
    BY DEF Vouched
  <2> QED
    BY <1>7, <2>1 DEF TerminalRestart, BookInv, RecordedFillIsReal
<1>8. CASE ForeignResult
  <2>1. Foreign \in Message /\ Foreign.status # "filled"
    BY DEF Foreign, Message
  <2>2. Deliver(Foreign) /\ UNCHANGED <<processed, fills, executions, sends, outbox>>
    BY <1>8 DEF ForeignResult
  <2> QED
    BY <2>1, <2>2, DeliverFrame, RecordStays DEF BookInv
<1> QED
  BY <1>1, <1>3, <1>4, <1>6, <1>7, <1>8 DEF Next

LEMMA InitBook == ASSUME Init PROVE BookInv
  BY IdleKnowsNothing DEF Init, BookInv, Vouched, RecordedFillIsReal

LEMMA BookHolds == Spec => []BookInv
<1>1. Init => BookInv
  BY InitBook
<1>2. TypeOK /\ BookInv /\ [Next]_vars => BookInv'
  BY BookStep
<1> QED
  BY <1>1, <1>2, TypeCorrect, PTL DEF Spec

(* A decision recorded as filled was executed by the broker for that       *)
(* lineage, and a fills row stands beside such a record only, whatever     *)
(* late, repeated and foreign results the shared channel brings.           *)
THEOREM RecordsAreTrue == Spec => []RecordedFillIsReal
<1>1. BookInv => RecordedFillIsReal
  BY DEF BookInv
<1> QED
  BY <1>1, BookHolds, PTL

-----------------------------------------------------------------------------
(* The order ledger *)

LedgerVars == <<sends, executions, processed, reopened>>

(* An order is pushed again only after its window was given up.            *)
LEMMA PushSubmits ==
  ASSUME IInv, NEW c \in Callers, Push(c)
  PROVE  Ledger!Submit(call[c].key)
<1>1. /\ call[c].key \in Keys /\ call[c].pc = "push"
      /\ sends' = [sends EXCEPT ![call[c].key] = @ + 1]
      /\ UNCHANGED <<executions, processed, reopened>>
  BY PushEffect DEF IInv, Push
<1>2. sends[call[c].key] = 0 \/ call[c].key \in reopened
  BY <1>1 DEF IInv, PushInv
<1> QED
  BY <1>1, <1>2 DEF Ledger!Submit

LEMMA ReleaseVoids ==
  ASSUME NEW k, reopened' = reopened \cup {k}, UNCHANGED <<sends, executions, processed>>
  PROVE  Ledger!Void(k)
  BY DEF Ledger!Void

LEMMA ServeExecutes ==
  ASSUME IInv, Serve
  PROVE  \/ UNCHANGED LedgerVars
         \/ \E k \in Keys : \E n \in 1..sends[k] : Ledger!Execute(k, n)
<1> DEFINE t == Head(commands)
<1>1. /\ t = commands[1] /\ t \in Tokens /\ 1 \in DOMAIN commands
  BY TakeEffect DEF IInv, Serve
<1>2. KeyOf(t) \in Keys /\ t[3] \in Nat \ {0} /\ t = <<t[1], t[2], t[3]>>
  BY <1>1, TokenParts
<1>3. /\ t[3] <= sends[KeyOf(t)]
      /\ \A i \in DOMAIN executions : executions[i] # t
  BY <1>1 DEF IInv, TokenInv
<1>4. UNCHANGED <<sends, processed, reopened>>
      /\ (executions' = Append(executions, t) \/ UNCHANGED executions)
  BY DEF Serve
<1>5. sends[KeyOf(t)] \in Nat
  BY <1>2 DEF IInv, TypeOK
<1>6. KeyOf(t) = <<t[1], t[2]>>
  BY DEF KeyOf
<1> HIDE DEF t
<1>7. t[3] \in 1..sends[KeyOf(t)]
  BY <1>2, <1>3, <1>5
<1>8. <<KeyOf(t)[1], KeyOf(t)[2], t[3]>> = t
  BY <1>2, <1>6
<1>9. CASE executions' = Append(executions, t)
  <2>1. Ledger!Execute(KeyOf(t), t[3])
    BY <1>3, <1>4, <1>7, <1>8, <1>9 DEF Ledger!Execute
  <2> QED
    BY <1>2, <1>7, <2>1
<1>10. CASE UNCHANGED executions
  BY <1>4, <1>10 DEF LedgerVars
<1> QED
  BY <1>4, <1>9, <1>10

LEMMA RecordSettles ==
  ASSUME IInv, BookInv, NEW c \in Callers, call[c].pc = "persist",
         CommitRecord(call[c].key[1], call[c].status, call[c].tca),
         UNCHANGED <<sends, executions, reopened>>
  PROVE  \E l \in Lineages, status \in {"filled", "rejected"} : Ledger!Settle(l, status)
<1> DEFINE r == call[c].key[1]
           s == call[c].status
<1>1. /\ call[c].key \in Keys /\ r \in Lineages /\ call[c].key[2] \in Attempts
      /\ call[c].key = <<r, call[c].key[2]>>
  BY ActiveCall, KeyParts DEF IInv
<1>2. s \in {"filled", "rejected"}
  BY DEF IInv, TypeOK, Statuses
<1>3. sends[<<r, call[c].key[2]>>] > 0
  BY <1>1 DEF BookInv, FrameInv
<1>4. s = "filled" => \E i \in DOMAIN executions : executions[i][1] = r
  BY DEF BookInv, FrameInv, Ran, KeyOf
<1>5. processed[r] = "none" /\ processed' = [processed EXCEPT ![r] = s]
  BY DEF CommitRecord
<1>6. Ledger!Settle(r, s)
  BY <1>1, <1>3, <1>4, <1>5 DEF Ledger!Settle
<1> QED
  BY <1>1, <1>2, <1>6

LEMMA CallLedger ==
  ASSUME IInv, BookInv, NEW c \in Callers,
         StartDispatch(c) \/ CallStep(c) \/ RecordFails(c) \/ Abort(c)
  PROVE  [Ledger!Next]_LedgerVars
<1> USE DEF LedgerVars
<1>1. CASE \/ StartDispatch(c) \/ Lookup(c) \/ Claim(c) \/ Subscribe(c) \/ Receive(c)
           \/ Timeout(c) \/ RecordConflicts(c) \/ Abort(c)
  BY <1>1 DEF StartDispatch, Lookup, Claim, Subscribe, Receive, Timeout, RecordConflicts, Abort
<1>2. CASE Push(c)
  BY <1>2, PushSubmits, PushEffect DEF Ledger!Next, Ledger!Keys, Keys, IInv
<1>3. CASE Release(c)
  <2>1. call[c].key \in Keys
    BY <1>3, ReleaseEffect DEF IInv
  <2>2. Ledger!Void(call[c].key)
    BY <1>3, ReleaseVoids DEF Release
  <2> QED
    BY <2>1, <2>2 DEF Ledger!Next, Ledger!Keys, Keys
<1>4. CASE Record(c)
  BY <1>4, RecordSettles DEF Record, Ledger!Next
<1>5. CASE RecordFails(c)
  BY <1>5, RecordSettles DEF RecordFails, Move, Ledger!Next
<1> QED
  BY <1>1, <1>2, <1>3, <1>4, <1>5 DEF CallStep

LEMMA StepOfLedger ==
  ASSUME IInv, BookInv, [Next]_vars
  PROVE  [Ledger!Next]_LedgerVars
<1>1. ASSUME NEW k \in Keys, ExpireClaim(k) PROVE [Ledger!Next]_LedgerVars
  <2>1. Ledger!Void(k)
    BY <1>1, ReleaseVoids DEF ExpireClaim
  <2> QED
    BY <2>1 DEF Ledger!Next, Ledger!Keys, Keys
<1>2. CASE Serve
  BY <1>2, ServeExecutes DEF Ledger!Next, Ledger!Keys, Keys
<1>3. CASE \/ LoseCommand \/ PublishResult \/ PublishAgain \/ TerminalRestart
           \/ ForeignResult \/ UNCHANGED vars
  BY <1>3 DEF LoseCommand, PublishResult, PublishAgain, TerminalRestart, ForeignResult, vars,
       LedgerVars
<1> QED
  BY <1>1, <1>2, <1>3, CallLedger DEF Next

(* The dispatch path implements the order ledger: it starts as a ledger    *)
(* and every step is a submission, an execution, a settlement, a window    *)
(* given up, or nothing the ledger sees.                                   *)
THEOREM ImplementsLedger == Spec => LedgerSpec
<1>1. Init => Ledger!Init
  BY DEF Init, Ledger!Init, Ledger!Keys, Keys
<1>2. IInv /\ BookInv /\ [Next]_vars => [Ledger!Next]_(Ledger!vars)
  BY StepOfLedger DEF LedgerVars, Ledger!vars
<1> QED
  BY <1>1, <1>2, Inductive, BookHolds, PTL DEF Spec, LedgerSpec, Ledger!Spec
=============================================================================
