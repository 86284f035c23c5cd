---------------------------- MODULE DecisionCycle ----------------------------
(***************************************************************************)
(* One decision cycle, from four analysts to an order:                     *)
(* DecisionOrchestrator.execute (autogen_pipeline/orchestrator.py), the    *)
(* stages it awaits (_base.run_llm_stage over Gateway.complete_async,      *)
(* budget.py and fallback.run_chain_async), the traces and the journal     *)
(* rows they commit and the lineage record that links them.                *)
(*                                                                         *)
(* A step is the code between two awaits.  A stage is a task: the analysts *)
(* run together, each on a session of its own, and the other stages one    *)
(* after another.  Chained tables are modelled in AuditChain, the router   *)
(* and the bridge in Dispatch; here a dispatch is one step with the        *)
(* outcomes of that module.                                                *)
(***************************************************************************)
EXTENDS RiskSizing, FiniteSets

CONSTANTS
  Cycles,       \* one call of execute each
  Workflow,     \* the workflow a cycle runs for; a repeated cycle keeps it
  Analysts,     \* the analyst roles
  Hops,         \* fallback routes after the primary one
  Books,        \* the inputs a cycle may find
  RiskLimits,   \* the limits in force
  Adjustments,  \* the policy's multipliers, by regime and band
  Regimes,      \* what the assessor may answer
  MaxTicks,     \* how far the clock runs towards a deadline
  MaxFaults     \* failed calls and commits, and invalid answers

VARIABLES
  pc,       \* per cycle: what execute awaits
  input,    \* per cycle: the inputs it was started with
  spend,    \* per cycle: today's spend against the caps, read once
  left,     \* per cycle: how much of the deadline is left
  task,     \* per cycle and stage: its call of run_llm_stage
  held,     \* per cycle: whether the debate is held
  draft,    \* per cycle: the proposal under way: action, volume, verdict
  traces,   \* the rows of reasoning_traces
  journal,  \* the rows of workflow_journal
  lineage,  \* per cycle: the verdict of its lineage record
  orders,   \* the orders the bridge was given
  faults

vars == <<pc, input, spend, left, task, held, draft, traces, journal, lineage, orders, faults>>

None   == "none"

BoundsOK ==
  /\ {Hops, MaxTicks, MaxFaults} \subseteq Nat
  /\ None \notin Cycles /\ DOMAIN Workflow = Cycles
  /\ Analysts \cap {"debate", "ic", "cio", "risk"} = {}
  /\ Books \subseteq Inputs /\ RiskLimits \in Limits
  /\ \A k \in DOMAIN Adjustments : Adjustments[k] \in Nat

ASSUME Bounds == BoundsOK

Stages == Analysts \union {"debate", "ic", "cio", "risk"}

(* The deadline in the steps the reserves tell apart: at most 500 ms left, *)
(* at most 800, at most 1000, more.                                        *)
Levels     == 0 .. 3
Reserve(s) == IF s = "cio" THEN 3 ELSE IF s \in {"debate", "ic"} THEN 2 ELSE 1

Waiting == {"analysts", "debate", "ic", "cio", "risk"}
Logging == {"log analysts", "log debate", "log ic", "log proposal", "log end"}
Ended   == {"done", "failed", "crashed"}
Points  == {"idle"} \union Waiting \union Logging \union {"lineage", "dispatch"} \union Ended

Quiet == [at |-> "idle", attempt |-> 1, route |-> 1, try |-> 1, ok |-> FALSE]
Tasks == [at: {"idle", "calling", "tracing", "done", "failed"}, attempt: 1 .. 2,
          route: 1 .. Hops + 1, try: 1 .. 2, ok: BOOLEAN]

NoDraft == [action |-> None, volume |-> 0, multiplier |-> One, verdict |-> None]
Drafts  == [action: {None, "HOLD", "BUY", "SELL"}, volume: Nat, multiplier: Nat,
            verdict: {None, "noop", "rejected", "approved"}]

Init ==
  /\ pc = [c \in Cycles |-> "idle"]
  /\ input \in [Cycles -> Books]
  /\ spend \in [Cycles -> {"under", "breached"}]
  /\ left = [c \in Cycles |-> 3]
  /\ task = [c \in Cycles |-> [s \in Stages |-> Quiet]]
  /\ held = [c \in Cycles |-> FALSE]
  /\ draft = [c \in Cycles |-> NoDraft]
  /\ traces = {} /\ journal = {}
  /\ lineage = [c \in Cycles |-> None]
  /\ orders = {}
  /\ faults = MaxFaults

Fault == faults > 0 /\ faults' = faults - 1

-----------------------------------------------------------------------------
(* A stage: up to two attempts, a trace of each answer.                    *)

(* budget_decision: the roles of the primary pass are never blocked; past  *)
(* the cap of a tier or of the day, the moderator and the risk officer     *)
(* are.                                                                    *)
BudgetAllows(c, s) == spend[c] = "under" \/ s \in Analysts \union {"ic", "cio"}

(* What the stage's task does next: call the gateway, which refuses before *)
(* it calls anyone, or fail.                                               *)
Asking(c, s, attempt) ==
  [Quiet EXCEPT !.at = IF BudgetAllows(c, s) THEN "calling" ELSE "failed", !.attempt = attempt]

SetTask(c, s, t) == task' = [task EXCEPT ![c][s] = t]

Runs(c, s, at) == pc[c] # "crashed" /\ task[c][s].at = at

(* A route answers with what does or does not fit the schema.              *)
RouteAnswers(c, s, ok) ==
  /\ Runs(c, s, "calling")
  /\ IF ok THEN UNCHANGED faults ELSE Fault
  /\ SetTask(c, s, [task[c][s] EXCEPT !.at = "tracing", !.ok = ok])
  /\ UNCHANGED <<pc, input, spend, left, held, draft, traces, journal, lineage, orders>>

(* run_chain_async: a transient failure is tried once more on its route,   *)
(* any other moves to the next, and after the last the chain is exhausted. *)
RouteFails(c, s, transient) ==
  LET t == task[c][s] IN
  /\ Runs(c, s, "calling")
  /\ Fault
  /\ SetTask(c, s,
       IF transient /\ t.try = 1 THEN [t EXCEPT !.try = 2]
       ELSE IF t.route <= Hops   THEN [t EXCEPT !.route = @ + 1, !.try = 1]
       ELSE [t EXCEPT !.at = "failed"])
  /\ UNCHANGED <<pc, input, spend, left, held, draft, traces, journal, lineage, orders>>

(* The answer is traced in a transaction of its own, valid or not; the     *)
(* first invalid one is asked again, the second fails the stage.           *)
WriteTrace(c, s) ==
  LET t == task[c][s] IN
  /\ Runs(c, s, "tracing")
  /\ traces' = traces \union
       {[cycle |-> c, stage |-> s, attempt |-> t.attempt, ok |-> t.ok, lineage |-> None]}
  /\ SetTask(c, s, IF t.ok THEN [t EXCEPT !.at = "done"]
                   ELSE IF t.attempt = 1 THEN Asking(c, s, 2)
                   ELSE [t EXCEPT !.at = "failed"])
  /\ UNCHANGED <<pc, input, spend, left, held, draft, journal, lineage, orders, faults>>

TraceFails(c, s) ==
  /\ Runs(c, s, "tracing")
  /\ Fault
  /\ SetTask(c, s, [task[c][s] EXCEPT !.at = "failed"])
  /\ UNCHANGED <<pc, input, spend, left, held, draft, traces, journal, lineage, orders>>

-----------------------------------------------------------------------------
(* The cycle                                                               *)

(* The cycle goes on to a stage, or ends where the deadline leaves less    *)
(* than the stage's reserve.                                               *)
GoTo(c, at, stages) ==
  IF \A s \in stages : left[c] >= Reserve(s)
    THEN /\ pc' = [pc EXCEPT ![c] = at]
         /\ task' = [task EXCEPT ![c] =
              [s \in Stages |-> IF s \in stages THEN Asking(c, s, 1) ELSE @[s]]]
    ELSE /\ pc' = [pc EXCEPT ![c] = "failed"]
         /\ UNCHANGED task

Begin(c) ==
  /\ pc[c] = "idle"
  /\ GoTo(c, "analysts", Analysts)
  /\ UNCHANGED <<input, spend, left, held, draft, traces, journal, lineage, orders, faults>>

Awaited(at) == IF at = "analysts" THEN Analysts ELSE {at}

StageFailed(c) == \E s \in Awaited(pc[c]) : task[c][s].at = "failed"

(* As if gather waited for all four before it raised what one of them did. *)
GatherAll(c) ==
  /\ pc[c] \in Waiting /\ StageFailed(c)
  /\ \A s \in Awaited(pc[c]) : task[c][s].at = "done"
  /\ pc' = [pc EXCEPT ![c] = "failed"]
  /\ UNCHANGED <<input, spend, left, task, held, draft, traces, journal, lineage, orders,
                 faults>>

(* The first stage that raises ends the cycle; the analysts that still run *)
(* are not cancelled and go on to write their traces.                      *)
StageRaises(c) ==
  /\ pc[c] \in Waiting /\ StageFailed(c)
  /\ pc' = [pc EXCEPT ![c] = "failed"]
  /\ UNCHANGED <<input, spend, left, task, held, draft, traces, journal, lineage, orders,
                 faults>>

(* The stages before the assessor lead to a checkpoint in the journal; the *)
(* proposer has by then chosen the action.                                 *)
StageReturns(c) ==
  LET at == pc[c] IN
  /\ at \in Waiting \ {"risk"}
  /\ \A s \in Awaited(at) : task[c][s].at = "done"
  /\ pc' = [pc EXCEPT ![c] = CASE at = "analysts" -> "log analysts"
                               [] at = "debate"   -> "log debate"
                               [] at = "ic"       -> "log ic"
                               [] at = "cio"      -> "log proposal"]
  /\ IF at = "cio" THEN \E a \in {"HOLD", "BUY", "SELL"} : draft' = [draft EXCEPT ![c].action = a]
                   ELSE UNCHANGED draft
  /\ UNCHANGED <<input, spend, left, task, held, traces, journal, lineage, orders, faults>>

(* As if the limits judged the volume before the multiplier.               *)
JudgeBaseVolume(c, regime, veto) ==
  LET in == input[c]
      multiplier == Multiplier(Adjustments, regime, Band(in))
      bad == Violations(in, FinalVolume(in, One), RiskLimits)
  IN
  /\ pc[c] = "risk" /\ task[c]["risk"].at = "done"
  /\ draft' = [draft EXCEPT ![c].volume = FinalVolume(in, multiplier),
                            ![c].multiplier = multiplier,
                            ![c].verdict = IF veto \/ bad # {} THEN "rejected" ELSE "approved"]
  /\ pc' = [pc EXCEPT ![c] = "lineage"]
  /\ UNCHANGED <<input, spend, left, task, held, traces, journal, lineage, orders, faults>>

(* The assessor's bucket looks up a multiplier, the clamped volume is      *)
(* judged by every limit, and a veto refuses it whatever they say.         *)
Judge(c, regime, veto) ==
  LET in == input[c]
      multiplier == Multiplier(Adjustments, regime, Band(in))
      volume == FinalVolume(in, multiplier)
  IN
  /\ pc[c] = "risk" /\ task[c]["risk"].at = "done"
  /\ draft' = [draft EXCEPT ![c].volume = volume, ![c].multiplier = multiplier,
                            ![c].verdict = IF veto \/ Violations(in, volume, RiskLimits) # {}
                                             THEN "rejected" ELSE "approved"]
  /\ pc' = [pc EXCEPT ![c] = "lineage"]
  /\ UNCHANGED <<input, spend, left, task, held, traces, journal, lineage, orders, faults>>

-----------------------------------------------------------------------------
(* Checkpoints, the lineage record and the dispatch                        *)

StepName(c) ==
  CASE pc[c] = "log analysts" -> "ANALYSTS_VALIDATED"
    [] pc[c] = "log debate"   -> IF held[c] THEN "DEBATE_VALIDATED" ELSE "DEBATE_SKIPPED"
    [] pc[c] = "log ic"       -> "IC_VALIDATED"
    [] pc[c] = "log proposal" -> "PROPOSAL_VALIDATED"
    [] pc[c] = "log end"      -> CASE draft[c].verdict = "noop"     -> "NOOP"
                                   [] draft[c].verdict = "rejected" -> "RISK_REJECTED"
                                   [] OTHER                         -> "DISPATCHED"

Checkpoint(c, at) ==
  /\ pc[c] = at
  /\ journal' = journal \union
       {[workflow |-> Workflow[c], cycle |-> c, step |-> StepName(c),
         lineage |-> IF at = "log end" THEN c ELSE None]}

(* After the analysts: the debate, when they disagree or lack confidence.  *)
LogAnalysts(c, debate) ==
  /\ Checkpoint(c, "log analysts")
  /\ held' = [held EXCEPT ![c] = debate]
  /\ IF debate THEN GoTo(c, "debate", {"debate"})
               ELSE pc' = [pc EXCEPT ![c] = "log debate"] /\ UNCHANGED task
  /\ UNCHANGED <<input, spend, left, draft, traces, lineage, orders, faults>>

LogDebate(c) ==
  /\ Checkpoint(c, "log debate")
  /\ GoTo(c, "ic", {"ic"})
  /\ UNCHANGED <<input, spend, left, held, draft, traces, lineage, orders, faults>>

LogIc(c) ==
  /\ Checkpoint(c, "log ic")
  /\ GoTo(c, "cio", {"cio"})
  /\ UNCHANGED <<input, spend, left, held, draft, traces, lineage, orders, faults>>

(* HOLD closes the cycle; a trade is sized, which may refuse, and assessed.*)
LogProposal(c) ==
  /\ Checkpoint(c, "log proposal")
  /\ IF draft[c].action = "HOLD"
       THEN /\ draft' = [draft EXCEPT ![c].verdict = "noop"]
            /\ pc' = [pc EXCEPT ![c] = "lineage"] /\ UNCHANGED task
       ELSE /\ UNCHANGED draft
            /\ IF Sizable(input[c]) THEN GoTo(c, "risk", {"risk"})
                                    ELSE pc' = [pc EXCEPT ![c] = "failed"] /\ UNCHANGED task
  /\ UNCHANGED <<input, spend, left, held, traces, lineage, orders, faults>>

LogEnd(c) ==
  /\ Checkpoint(c, "log end")
  /\ pc' = [pc EXCEPT ![c] = "done"]
  /\ UNCHANGED <<input, spend, left, task, held, draft, traces, lineage, orders, faults>>

(* The record, the traces it rests on and the checkpoints of the workflow, *)
(* every row of that workflow, are linked in one transaction.              *)
LinkTraces(c)  == {[t EXCEPT !.lineage = IF t.cycle = c THEN c ELSE @] : t \in traces}
LinkJournal(c) ==
  {[r EXCEPT !.lineage = IF r.workflow = Workflow[c] THEN c ELSE @] : r \in journal}

(* As if the record were committed before the rows it links.               *)
CommitLineageFirst(c) ==
  /\ pc[c] = "lineage"
  /\ lineage' = [lineage EXCEPT ![c] = draft[c].verdict]
  /\ \/ traces' = LinkTraces(c) /\ journal' = LinkJournal(c) /\ UNCHANGED faults
     \/ Fault /\ UNCHANGED <<traces, journal>>
  /\ pc' = [pc EXCEPT ![c] = IF draft[c].verdict = "approved" THEN "dispatch" ELSE "log end"]
  /\ UNCHANGED <<input, spend, left, task, held, draft, orders>>

CommitLineage(c) ==
  /\ pc[c] = "lineage"
  /\ lineage' = [lineage EXCEPT ![c] = draft[c].verdict]
  /\ traces' = LinkTraces(c)
  /\ journal' = LinkJournal(c)
  /\ pc' = [pc EXCEPT ![c] = IF draft[c].verdict = "approved" THEN "dispatch" ELSE "log end"]
  /\ UNCHANGED <<input, spend, left, task, held, draft, orders, faults>>

(* A failed commit of a checkpoint or of the lineage is rolled back and    *)
(* ends the cycle.                                                         *)
CommitFails(c) ==
  /\ pc[c] \in Logging \union {"lineage"}
  /\ Fault
  /\ pc' = [pc EXCEPT ![c] = "failed"]
  /\ UNCHANGED <<input, spend, left, task, held, draft, traces, journal, lineage, orders>>

Order(c) == [cycle |-> c, side |-> draft[c].action, volume |-> draft[c].volume,
             multiplier |-> draft[c].multiplier,
             stop |-> IF draft[c].action = "BUY" THEN input[c].entry - StopPips(input[c])
                                                 ELSE input[c].entry + StopPips(input[c])]

DispatchReturns(c) ==
  /\ pc[c] = "dispatch"
  /\ orders' = orders \union {Order(c)}
  /\ pc' = [pc EXCEPT ![c] = "log end"]
  /\ UNCHANGED <<input, spend, left, task, held, draft, traces, journal, lineage, faults>>

(* The router raised: the order may be out nevertheless.                   *)
DispatchRaises(c, out) ==
  /\ pc[c] = "dispatch"
  /\ Fault
  /\ orders' = IF out THEN orders \union {Order(c)} ELSE orders
  /\ pc' = [pc EXCEPT ![c] = "failed"]
  /\ UNCHANGED <<input, spend, left, task, held, draft, traces, journal, lineage>>

-----------------------------------------------------------------------------
(* The environment                                                         *)

TimePasses(c) ==
  /\ pc[c] \notin Ended \union {"idle"}
  /\ left[c] > 0 /\ left[c] > 3 - MaxTicks
  /\ left' = [left EXCEPT ![c] = @ - 1]
  /\ UNCHANGED <<pc, input, spend, task, held, draft, traces, journal, lineage, orders, faults>>

Crash(c) ==
  /\ pc[c] \notin {"idle", "done", "crashed"}
  /\ Fault
  /\ pc' = [pc EXCEPT ![c] = "crashed"]
  /\ UNCHANGED <<input, spend, left, task, held, draft, traces, journal, lineage, orders>>

Stage(c, s) ==
  \/ \E ok \in BOOLEAN : RouteAnswers(c, s, ok)
  \/ \E transient \in BOOLEAN : RouteFails(c, s, transient)
  \/ WriteTrace(c, s) \/ TraceFails(c, s)

Execute(c) ==
  \/ StageRaises(c) \/ StageReturns(c)
  \/ \E regime \in Regimes, veto \in BOOLEAN : Judge(c, regime, veto)
  \/ \E debate \in BOOLEAN : LogAnalysts(c, debate)
  \/ LogDebate(c) \/ LogIc(c) \/ LogProposal(c) \/ LogEnd(c)
  \/ CommitLineage(c) \/ CommitFails(c)
  \/ DispatchReturns(c) \/ (\E out \in BOOLEAN : DispatchRaises(c, out))

GoesOn(c) == Execute(c) \/ \E s \in Stages : Stage(c, s)

Next == \E c \in Cycles : Begin(c) \/ GoesOn(c) \/ TimePasses(c) \/ Crash(c)

Spec == Init /\ [][Next]_vars

-----------------------------------------------------------------------------
(* What a decision must leave behind                                       *)

Rows  == [cycle: Cycles, stage: Stages, attempt: 1 .. 2, ok: BOOLEAN,
          lineage: Cycles \union {None}]

Checkpoints ==
  [workflow: {Workflow[c] : c \in Cycles}, cycle: Cycles, lineage: Cycles \union {None},
   step: {"ANALYSTS_VALIDATED", "DEBATE_VALIDATED", "DEBATE_SKIPPED", "IC_VALIDATED",
          "PROPOSAL_VALIDATED", "NOOP", "RISK_REJECTED", "DISPATCHED"}]

TypeOK ==
  /\ pc \in [Cycles -> Points]
  /\ input \in [Cycles -> Books]
  /\ spend \in [Cycles -> {"under", "breached"}]
  /\ left \in [Cycles -> Levels]
  /\ task \in [Cycles -> [Stages -> Tasks]]
  /\ held \in [Cycles -> BOOLEAN]
  /\ draft \in [Cycles -> Drafts]
  /\ traces \subseteq Rows
  /\ journal \subseteq Checkpoints /\ \A r \in journal : r.workflow = Workflow[r.cycle]
  /\ lineage \in [Cycles -> {None, "noop", "rejected", "approved"}]
  /\ \A o \in orders : o.cycle \in Cycles /\ o.side \in {"BUY", "SELL"} /\ o.volume \in Nat
  /\ faults \in 0 .. MaxFaults

(* The stages an order rests on.                                           *)
Required(c) == Stages \ (IF held[c] THEN {} ELSE {"debate"})

Steps(c) == {"ANALYSTS_VALIDATED", "IC_VALIDATED", "PROPOSAL_VALIDATED",
             IF held[c] THEN "DEBATE_VALIDATED" ELSE "DEBATE_SKIPPED"}

(* No order without its evidence, and no evidence that points at nothing:  *)
(* when an order is out, its cycle has an approved lineage record and, for *)
(* every stage it went through, a valid trace linked to that record, and   *)
(* its checkpoints are in the journal, linked to a record of the workflow; *)
(* a trace or a journal row never names a lineage that is not there.       *)
(* Several awaits and commits lie between the first trace and the order,   *)
(* each may fail, analysts outlive a failed cycle, and another cycle of    *)
(* the workflow relinks its rows (write-before-dispatch, D3-7, D3-11).     *)
EvidenceIsWhole ==
  /\ \A o \in orders :
       /\ lineage[o.cycle] = "approved"
       /\ \A s \in Required(o.cycle) :
            \E t \in traces : /\ t.cycle = o.cycle /\ t.stage = s
                              /\ t.ok /\ t.lineage = o.cycle
       /\ \A step \in Steps(o.cycle) :
            \E r \in journal : /\ r.cycle = o.cycle /\ r.step = step
                               /\ r.lineage # None
                               /\ Workflow[r.lineage] = Workflow[o.cycle]
  /\ \A row \in traces \union journal : row.lineage # None => lineage[row.lineage] # None

(* An order that is out kept every limit at the volume it was given, its   *)
(* loss at the stop is within the risk of a trade scaled by the policy's   *)
(* multiplier unless it is the broker's least volume, and its cycle gave   *)
(* no other order.                                                         *)
OrderWithinRisk ==
  \A o \in orders :
    LET in == input[o.cycle] IN
    /\ Violations(in, o.volume, RiskLimits) = {}
    /\ \/ o.volume = in.minVolume
       \/ 1000 * One * o.volume * StopPips(in) * in.pipValue
            <= in.equity * in.risk * o.multiplier * Lot
    /\ \A p \in orders : p.cycle = o.cycle => p = o

=============================================================================
