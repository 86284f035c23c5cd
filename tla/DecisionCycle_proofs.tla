------------------------- MODULE DecisionCycle_proofs -------------------------
(***************************************************************************)
(* Safety of the decision cycle for any set of cycles and analysts, any    *)
(* inputs, limits and policy, and any number of faults.                    *)
(*                                                                         *)
(* The argument follows the cycle: at every point of execute, the traces   *)
(* and the checkpoints of the stages behind it are in the tables           *)
(* (Evidence), the draft was judged at the volume it carries (Judged), and *)
(* what is about to be dispatched was committed with everything linked to  *)
(* it (Recorded).  Rows are only ever added and linked, never removed or   *)
(* unlinked (TracesKept, JournalKept), so what holds of a cycle survives   *)
(* the steps of the others, the stages that outlive it, and its own end.   *)
(***************************************************************************)
EXTENDS DecisionCycle, TLAPS

-----------------------------------------------------------------------------
(* The inductive invariant                                                 *)

(* The points of execute from a stage on.                                  *)
Closing       == {"lineage", "dispatch", "log end"}
FromRisk      == {"risk"} \union Closing
Proposed      == {"log proposal"} \union FromRisk
FromCio       == {"cio"} \union Proposed
AfterIc       == {"log ic"} \union FromCio
FromIc        == {"ic"} \union AfterIc
AfterDebate   == {"log debate"} \union FromIc
FromDebate    == {"debate"} \union AfterDebate
AfterAnalysts == {"log analysts"} \union FromDebate

(* A valid trace of the stage, a checkpoint of the step; linked, too.      *)
Traced(table, c, s) == \E t \in table : t.cycle = c /\ t.stage = s /\ t.ok
Logged(table, c, step) == \E r \in table : r.cycle = c /\ r.step = step
LinkedTrace(table, c, s) ==
  \E t \in table : t.cycle = c /\ t.stage = s /\ t.ok /\ t.lineage = c
LinkedRow(table, c, step) ==
  \E r \in table : r.cycle = c /\ r.step = step /\ r.lineage # None
                   /\ Workflow[r.lineage] = Workflow[c]

DebateStep(c) == IF held[c] THEN "DEBATE_VALIDATED" ELSE "DEBATE_SKIPPED"

(* The stages behind a cycle have left their traces and checkpoints.       *)
Evidence(c) ==
  /\ pc[c] \in AfterAnalysts => \A s \in Analysts : Traced(traces, c, s)
  /\ pc[c] \in FromDebate => Logged(journal, c, "ANALYSTS_VALIDATED")
  /\ pc[c] \in AfterDebate /\ held[c] => Traced(traces, c, "debate")
  /\ pc[c] \in FromIc => Logged(journal, c, DebateStep(c))
  /\ pc[c] \in AfterIc => Traced(traces, c, "ic")
  /\ pc[c] \in FromCio => Logged(journal, c, "IC_VALIDATED")
  /\ pc[c] \in Proposed => Traced(traces, c, "cio")
  /\ pc[c] \in FromRisk => Logged(journal, c, "PROPOSAL_VALIDATED")

(* What the limits and the sizing promise of a volume.                     *)
WithinRisk(in, volume, multiplier) ==
  /\ Violations(in, volume, RiskLimits) = {}
  /\ \/ volume = in.minVolume
     \/ 1000 * One * volume * StopPips(in) * in.pipValue
          <= in.equity * in.risk * multiplier * Lot

(* A verdict is given by the assessor's step, on the volume of the draft.  *)
Judged(c) ==
  /\ draft[c].verdict # None => pc[c] \in Closing \union Ended
  /\ pc[c] \in Closing => draft[c].verdict # None
  /\ pc[c] = "log proposal" => draft[c].action # None
  /\ pc[c] = "risk" => Sizable(input[c]) /\ draft[c].action \in {"BUY", "SELL"}
  /\ draft[c].verdict = "approved" =>
       /\ Traced(traces, c, "risk") /\ draft[c].action \in {"BUY", "SELL"}
       /\ WithinRisk(input[c], draft[c].volume, draft[c].multiplier)

(* The cycle's record is approved and its rows are linked.                 *)
Linked(c) ==
  /\ lineage[c] = "approved"
  /\ \A s \in Required(c) : LinkedTrace(traces, c, s)
  /\ \A step \in Steps(c) : LinkedRow(journal, c, step)

(* What is dispatched has been committed before.                           *)
Recorded(c) ==
  /\ pc[c] \in {"dispatch", "log end"} => lineage[c] = draft[c].verdict
  /\ pc[c] = "dispatch" => draft[c].verdict = "approved" /\ Linked(c)

(* A stage is done when its valid answer is traced.                        *)
Finished(c, s) == task[c][s].at = "done" => Traced(traces, c, s)

(* An order is the draft of a cycle that is past its dispatch.             *)
Given(o) ==
  /\ o.cycle \in Cycles /\ o = Order(o.cycle)
  /\ pc[o.cycle] \in {"log end"} \union Ended
  /\ draft[o.cycle].verdict = "approved" /\ Linked(o.cycle)

(* No row points at a record that is not there.                            *)
Resolved == \A row \in traces \union journal : row.lineage # None => lineage[row.lineage] # None

IInv ==
  /\ TypeOK
  /\ \A c \in Cycles : Evidence(c) /\ Judged(c) /\ Recorded(c)
  /\ \A c \in Cycles, s \in Stages : Finished(c, s)
  /\ \A o \in orders : Given(o)
  /\ Resolved

-----------------------------------------------------------------------------
(* Type correctness *)

LEMMA AskingType ==
  ASSUME BoundsOK, TypeOK, NEW c \in Cycles, NEW s \in Stages, NEW attempt \in 1..2
  PROVE  /\ Asking(c, s, attempt) \in Tasks
         /\ Asking(c, s, attempt).at # "done"
<1>1. Quiet \in Tasks
  BY DEF Quiet, Tasks, BoundsOK
<1> QED
  BY <1>1 DEF Asking, Quiet, Tasks, BoundsOK

LEMMA SetTaskType ==
  ASSUME TypeOK, NEW c \in Cycles, NEW s \in Stages, NEW t \in Tasks, SetTask(c, s, t)
  PROVE  task' \in [Cycles -> [Stages -> Tasks]]
<1>1. task[c] \in [Stages -> Tasks] /\ task \in [Cycles -> [Stages -> Tasks]]
  BY DEF TypeOK
<1>2. task' = [task EXCEPT ![c] = [task[c] EXCEPT ![s] = t]]
  BY DEF SetTask
<1> HIDE DEF Tasks
<1>3. [task[c] EXCEPT ![s] = t] \in [Stages -> Tasks]
  BY <1>1
<1> QED
  BY <1>1, <1>2, <1>3

LEMMA GoToType ==
  ASSUME BoundsOK, TypeOK, NEW c \in Cycles, NEW at \in Points, NEW stages, GoTo(c, at, stages)
  PROVE  /\ pc' \in [Cycles -> Points] /\ task' \in [Cycles -> [Stages -> Tasks]]
         /\ pc' = [pc EXCEPT ![c] = at] \/ pc' = [pc EXCEPT ![c] = "failed"]
         /\ \A d \in Cycles, s \in Stages :
              task'[d][s].at = "done" => task'[d][s] = task[d][s]
<1>1. pc \in [Cycles -> Points] /\ task \in [Cycles -> [Stages -> Tasks]]
  BY DEF TypeOK
<1>2. "failed" \in Points
  BY DEF Points, Ended
<1>3. CASE UNCHANGED task /\ pc' = [pc EXCEPT ![c] = "failed"]
  BY <1>1, <1>2, <1>3
<1>4. CASE pc' = [pc EXCEPT ![c] = at]
  <2> DEFINE new == [s \in Stages |-> IF s \in stages THEN Asking(c, s, 1) ELSE task[c][s]]
  <2>1. CASE task' = [task EXCEPT ![c] = new]
    <3>1. \A s \in Stages : new[s] \in Tasks /\ (new[s].at = "done" => new[s] = task[c][s])
      <4> TAKE s \in Stages
      <4>1. Asking(c, s, 1) \in Tasks /\ Asking(c, s, 1).at # "done"
        BY AskingType
      <4>2. task[c][s] \in Tasks
        BY <1>1
      <4> HIDE DEF Tasks
      <4> QED
        BY <4>1, <4>2
    <3> HIDE DEF new, Tasks
    <3>2. new \in [Stages -> Tasks]
      BY <3>1 DEF new
    <3> QED
      BY <1>1, <1>4, <2>1, <3>1, <3>2
  <2> QED
    BY <1>4, <2>1, <1>1, <1>2 DEF GoTo
<1> QED
  BY <1>3, <1>4 DEF GoTo

LEMMA VolumeType ==
  ASSUME BoundsOK, NEW in \in Books, Sizable(in), NEW m \in Nat
  PROVE  FinalVolume(in, m) \in Nat
<1>1. in \in Inputs
  BY DEF BoundsOK
<1>2. /\ in.equity \in Int /\ in.equity > 0 /\ in.risk \in Nat /\ in.pipValue \in Nat
      /\ in.minVolume \in Nat /\ in.maxVolume \in Nat /\ in.atr \in Nat
      /\ in.atrMultiplier \in Nat
  BY <1>1 DEF Inputs, Sizable
<1>3. StopPips(in) \in Nat /\ StopPips(in) > 0 /\ in.pipValue > 0
  BY <1>2 DEF StopPips, Sizable
<1>4. in.equity * in.risk \in Nat
  BY <1>2
<1>5. StopPips(in) * in.pipValue \in Nat /\ StopPips(in) * in.pipValue > 0
  BY <1>2, <1>3
<1> DEFINE top == in.equity * in.risk
           loss == StopPips(in) * in.pipValue
<1>6. 1000 * StopPips(in) * in.pipValue = 1000 * loss
  BY <1>2, <1>3
<1> HIDE DEF top, loss
<1>7. top \in Nat /\ loss \in Nat /\ loss > 0
  BY <1>4, <1>5 DEF top, loss
<1>8. BaseVolume(in) = 10 * ((top * 100) \div (1000 * loss))
  BY <1>6 DEF BaseVolume, top, Hundredth, Lot
<1>9. (top * 100) \div (1000 * loss) \in Nat
  BY <1>7
<1>10. BaseVolume(in) \in Nat
  BY <1>8, <1>9
<1>11. BaseVolume(in) * m \in Nat
  BY <1>10
<1>12. (BaseVolume(in) * m) \div One \in Nat
  BY <1>11 DEF One
<1> QED
  BY <1>2, <1>12 DEF FinalVolume, Clamped

LEMMA MultiplierType ==
  ASSUME BoundsOK, NEW regime, NEW band
  PROVE  Multiplier(Adjustments, regime, band) \in Nat
BY DEF BoundsOK, Multiplier, One

LEMMA RouteType ==
  ASSUME NEW A, NEW R, NEW n \in R, NEW one \in A, NEW States, NEW B,
         NEW t \in [at: States, attempt: A, route: R, try: A, ok: B]
  PROVE  [[t EXCEPT !.route = n] EXCEPT !.try = one]
           \in [at: States, attempt: A, route: R, try: A, ok: B]
OBVIOUS

LEMMA NextRoute ==
  ASSUME BoundsOK, NEW t \in Tasks, t.route <= Hops
  PROVE  [t EXCEPT !.route = @ + 1, !.try = 1] \in Tasks
<1>1. t.route + 1 \in 1 .. Hops + 1
  BY DEF Tasks, BoundsOK
<1>2. 1 \in 1 .. 2
  OBVIOUS
<1> DEFINE new == [[t EXCEPT !.route = t.route + 1] EXCEPT !.try = 1]
<1>3. new \in Tasks
  BY <1>1, <1>2, RouteType DEF Tasks
<1>4. [t EXCEPT !.route = @ + 1, !.try = 1] = new
  OBVIOUS
<1> QED
  BY <1>3, <1>4

LEMMA FaultType ==
  ASSUME TypeOK, BoundsOK, Fault
  PROVE  faults' \in 0 .. MaxFaults
BY DEF TypeOK, Fault, BoundsOK

LEMMA StageType ==
  ASSUME BoundsOK, TypeOK, NEW c \in Cycles, NEW s \in Stages, Stage(c, s)
  PROVE  TypeOK'
<1>1. task[c][s] \in Tasks
  BY DEF TypeOK
<1>2. ASSUME NEW ok \in BOOLEAN, RouteAnswers(c, s, ok)
      PROVE  TypeOK'
  <2>1. [task[c][s] EXCEPT !.at = "tracing", !.ok = ok] \in Tasks
    BY <1>1 DEF Tasks
  <2>2. task' \in [Cycles -> [Stages -> Tasks]]
    BY <1>2, <2>1, SetTaskType DEF RouteAnswers
  <2>3. faults' \in 0 .. MaxFaults
    BY <1>2, FaultType DEF RouteAnswers, TypeOK
  <2> QED
    BY <1>2, <2>2, <2>3 DEF RouteAnswers, TypeOK
<1>3. ASSUME NEW transient \in BOOLEAN, RouteFails(c, s, transient)
      PROVE  TypeOK'
  <2> DEFINE t == task[c][s]
             new == IF transient /\ t.try = 1 THEN [t EXCEPT !.try = 2]
                    ELSE IF t.route <= Hops THEN [t EXCEPT !.route = @ + 1, !.try = 1]
                    ELSE [t EXCEPT !.at = "failed"]
  <2>1. new \in Tasks
    <3>1. [t EXCEPT !.try = 2] \in Tasks /\ [t EXCEPT !.at = "failed"] \in Tasks
      BY <1>1 DEF Tasks
    <3>2. ASSUME t.route <= Hops
          PROVE  [t EXCEPT !.route = @ + 1, !.try = 1] \in Tasks
      BY <1>1, <3>2, NextRoute
    <3> QED
      BY <3>1, <3>2
  <2>2. SetTask(c, s, new)
    BY <1>3 DEF RouteFails
  <2> HIDE DEF new
  <2>3. task' \in [Cycles -> [Stages -> Tasks]]
    BY <2>1, <2>2, SetTaskType
  <2>4. faults' \in 0 .. MaxFaults
    BY <1>3, FaultType DEF RouteFails
  <2> QED
    BY <1>3, <2>3, <2>4 DEF RouteFails, TypeOK
<1>4. CASE WriteTrace(c, s)
  <2> DEFINE t == task[c][s]
             new == IF t.ok THEN [t EXCEPT !.at = "done"]
                    ELSE IF t.attempt = 1 THEN Asking(c, s, 2)
                    ELSE [t EXCEPT !.at = "failed"]
             row == [cycle |-> c, stage |-> s, attempt |-> t.attempt, ok |-> t.ok,
                     lineage |-> None]
  <2>1. new \in Tasks
    <3>1. [t EXCEPT !.at = "done"] \in Tasks /\ [t EXCEPT !.at = "failed"] \in Tasks
      BY <1>1 DEF Tasks
    <3>2. Asking(c, s, 2) \in Tasks
      BY AskingType
    <3> QED
      BY <3>1, <3>2
  <2>2. row \in Rows
    BY <1>1 DEF Rows, Tasks
  <2>3. SetTask(c, s, new) /\ traces' = traces \union {row}
    BY <1>4 DEF WriteTrace
  <2> HIDE DEF new, row
  <2>4. task' \in [Cycles -> [Stages -> Tasks]]
    BY <2>1, <2>3, SetTaskType
  <2>5. traces' \subseteq Rows
    BY <2>2, <2>3 DEF TypeOK
  <2> QED
    BY <1>4, <2>4, <2>5 DEF WriteTrace, TypeOK
<1>5. CASE TraceFails(c, s)
  <2>1. [task[c][s] EXCEPT !.at = "failed"] \in Tasks
    BY <1>1 DEF Tasks
  <2>2. task' \in [Cycles -> [Stages -> Tasks]]
    BY <1>5, <2>1, SetTaskType DEF TraceFails
  <2>3. faults' \in 0 .. MaxFaults
    BY <1>5, FaultType DEF TraceFails
  <2> QED
    BY <1>5, <2>2, <2>3 DEF TraceFails, TypeOK
<1> QED
  BY <1>2, <1>3, <1>4, <1>5 DEF Stage

LEMMA DraftType ==
  ASSUME TypeOK, NEW c \in Cycles
  PROVE  /\ \A a \in {"HOLD", "BUY", "SELL"} :
              [draft EXCEPT ![c].action = a] \in [Cycles -> Drafts]
         /\ [draft EXCEPT ![c].verdict = "noop"] \in [Cycles -> Drafts]
<1>1. draft \in [Cycles -> Drafts] /\ draft[c] \in Drafts
  BY DEF TypeOK
<1>2. /\ \A a \in {"HOLD", "BUY", "SELL"} : [draft[c] EXCEPT !.action = a] \in Drafts
      /\ [draft[c] EXCEPT !.verdict = "noop"] \in Drafts
  BY <1>1 DEF Drafts
<1> HIDE DEF Drafts
<1> QED
  BY <1>1, <1>2

(* The row a checkpoint adds.                                              *)
LEMMA CheckpointType ==
  ASSUME BoundsOK, TypeOK, NEW c \in Cycles, NEW at \in Logging, Checkpoint(c, at)
  PROVE  /\ journal' \subseteq Checkpoints
         /\ \A r \in journal' : r.workflow = Workflow[r.cycle]
         /\ \E row \in journal' :
              /\ row.cycle = c /\ row.step = StepName(c)
              /\ row.lineage = IF at = "log end" THEN c ELSE None
              /\ journal' = journal \union {row}
<1> DEFINE row == [workflow |-> Workflow[c], cycle |-> c, step |-> StepName(c),
                   lineage |-> IF at = "log end" THEN c ELSE None]
<1>1. pc[c] = at /\ journal' = journal \union {row}
  BY DEF Checkpoint
<1>2. StepName(c) \in {"ANALYSTS_VALIDATED", "DEBATE_VALIDATED", "DEBATE_SKIPPED",
                       "IC_VALIDATED", "PROPOSAL_VALIDATED", "NOOP", "RISK_REJECTED",
                       "DISPATCHED"}
  BY <1>1 DEF StepName, Logging
<1>3. row \in Checkpoints /\ row.workflow = Workflow[row.cycle]
  BY <1>2 DEF Checkpoints
<1>4. /\ row.cycle = c /\ row.step = StepName(c)
      /\ row.lineage = IF at = "log end" THEN c ELSE None
  OBVIOUS
<1> HIDE DEF row
<1> QED
  BY <1>1, <1>3, <1>4 DEF TypeOK

(* What linking does to a row.                                             *)
LEMMA LinkTracesRow ==
  ASSUME TypeOK, NEW c \in Cycles, NEW t \in traces
  PROVE  LET new == [t EXCEPT !.lineage = IF t.cycle = c THEN c ELSE @] IN
         /\ new \in LinkTraces(c) /\ new \in Rows
         /\ new.cycle = t.cycle /\ new.stage = t.stage /\ new.ok = t.ok
         /\ new.lineage = IF t.cycle = c THEN c ELSE t.lineage
<1>1. t \in Rows
  BY DEF TypeOK
<1> QED
  BY <1>1 DEF LinkTraces, Rows

LEMMA LinkJournalRow ==
  ASSUME TypeOK, NEW c \in Cycles, NEW r \in journal
  PROVE  LET new == [r EXCEPT !.lineage = IF r.workflow = Workflow[c] THEN c ELSE @] IN
         /\ new \in LinkJournal(c) /\ new \in Checkpoints
         /\ new.cycle = r.cycle /\ new.step = r.step /\ new.workflow = r.workflow
         /\ new.lineage = IF r.workflow = Workflow[c] THEN c ELSE r.lineage
<1>1. r \in Checkpoints
  BY DEF TypeOK
<1> QED
  BY <1>1 DEF LinkJournal, Checkpoints

LEMMA JudgeType ==
  ASSUME BoundsOK, TypeOK, NEW c \in Cycles, NEW regime, NEW veto,
         Judge(c, regime, veto), Sizable(input[c])
  PROVE  draft' \in [Cycles -> Drafts]
<1> DEFINE in == input[c]
           m == Multiplier(Adjustments, regime, Band(in))
           v == FinalVolume(in, m)
           verdict == IF veto \/ Violations(in, v, RiskLimits) # {} THEN "rejected"
                                                                   ELSE "approved"
<1>1. in \in Books /\ draft \in [Cycles -> Drafts]
  BY DEF TypeOK
<1>2. m \in Nat
  BY MultiplierType
<1>3. v \in Nat
  BY <1>1, <1>2, VolumeType
<1>4. verdict \in {"rejected", "approved"}
  OBVIOUS
<1>5. draft' = [draft EXCEPT ![c] = [[[@ EXCEPT !.volume = v] EXCEPT !.multiplier = m]
                                        EXCEPT !.verdict = verdict]]
  BY DEF Judge
<1> HIDE DEF m, v, verdict, in
<1>6. [[[draft[c] EXCEPT !.volume = v] EXCEPT !.multiplier = m] EXCEPT !.verdict = verdict]
        \in Drafts
  BY <1>1, <1>2, <1>3, <1>4 DEF Drafts
<1> QED
  BY <1>1, <1>5, <1>6

LEMMA OrderType ==
  ASSUME TypeOK, NEW c \in Cycles, draft[c].action \in {"BUY", "SELL"}
  PROVE  Order(c).cycle \in Cycles /\ Order(c).side \in {"BUY", "SELL"} /\ Order(c).volume \in Nat
<1>1. draft[c] \in Drafts
  BY DEF TypeOK
<1>2. draft[c].volume \in Nat
  BY <1>1 DEF Drafts
<1> QED
  BY <1>2 DEF Order

LEMMA TypeStep ==
  ASSUME BoundsOK, TypeOK, [Next]_vars,
         \A c \in Cycles : pc[c] = "risk" => Sizable(input[c]),
         \A c \in Cycles : pc[c] = "dispatch" => draft[c].action \in {"BUY", "SELL"}
  PROVE  TypeOK'
<1>1. CASE UNCHANGED vars
  BY <1>1 DEF vars, TypeOK
<1>2. ASSUME NEW c \in Cycles, Begin(c) \/ GoesOn(c) \/ TimePasses(c) \/ Crash(c)
      PROVE  TypeOK'
  <2> USE DEF Points, Waiting, Logging, Ended
  <2>1. CASE Begin(c)
    <3>1. /\ pc' \in [Cycles -> Points] /\ task' \in [Cycles -> [Stages -> Tasks]]
      BY <2>1, GoToType DEF Begin
    <3> QED
      BY <2>1, <3>1 DEF Begin, TypeOK
  <2>2. ASSUME NEW s \in Stages, Stage(c, s)
        PROVE  TypeOK'
    BY <2>2, StageType
  <2>3. CASE StageRaises(c)
    BY <2>3 DEF StageRaises, TypeOK
  <2>4. CASE StageReturns(c)
    <3>1. pc' \in [Cycles -> Points]
      BY <2>4 DEF StageReturns, TypeOK
    <3>2. draft' \in [Cycles -> Drafts]
      <4>1. CASE pc[c] = "cio"
        <5>1. PICK a \in {"HOLD", "BUY", "SELL"} : draft' = [draft EXCEPT ![c].action = a]
          BY <2>4, <4>1 DEF StageReturns
        <5> QED
          BY <5>1, DraftType
      <4>2. CASE pc[c] # "cio"
        BY <2>4, <4>2 DEF StageReturns, TypeOK
      <4> QED
        BY <4>1, <4>2
    <3> QED
      BY <2>4, <3>1, <3>2 DEF StageReturns, TypeOK
  <2>5. ASSUME NEW regime \in Regimes, NEW veto \in BOOLEAN, Judge(c, regime, veto)
        PROVE  TypeOK'
    <3>1. Sizable(input[c])
      BY <2>5 DEF Judge
    <3>2. draft' \in [Cycles -> Drafts]
      BY <2>5, <3>1, JudgeType
    <3> QED
      BY <2>5, <3>2 DEF Judge, TypeOK
  <2>6. ASSUME NEW debate \in BOOLEAN, LogAnalysts(c, debate)
        PROVE  TypeOK'
    <3>1. /\ journal' \subseteq Checkpoints
          /\ \A r \in journal' : r.workflow = Workflow[r.cycle]
      BY <2>6, CheckpointType DEF LogAnalysts
    <3>2. pc' \in [Cycles -> Points] /\ task' \in [Cycles -> [Stages -> Tasks]]
      <4>1. CASE debate
        BY <2>6, <4>1, GoToType DEF LogAnalysts
      <4>2. CASE ~debate
        BY <2>6, <4>2 DEF LogAnalysts, TypeOK
      <4> QED
        BY <4>1, <4>2
    <3> QED
      BY <2>6, <3>1, <3>2 DEF LogAnalysts, TypeOK
  <2>7. CASE LogDebate(c)
    <3>1. /\ journal' \subseteq Checkpoints
          /\ \A r \in journal' : r.workflow = Workflow[r.cycle]
      BY <2>7, CheckpointType DEF LogDebate
    <3>2. pc' \in [Cycles -> Points] /\ task' \in [Cycles -> [Stages -> Tasks]]
      BY <2>7, GoToType DEF LogDebate
    <3> QED
      BY <2>7, <3>1, <3>2 DEF LogDebate, TypeOK
  <2>8. CASE LogIc(c)
    <3>1. /\ journal' \subseteq Checkpoints
          /\ \A r \in journal' : r.workflow = Workflow[r.cycle]
      BY <2>8, CheckpointType DEF LogIc
    <3>2. pc' \in [Cycles -> Points] /\ task' \in [Cycles -> [Stages -> Tasks]]
      BY <2>8, GoToType DEF LogIc
    <3> QED
      BY <2>8, <3>1, <3>2 DEF LogIc, TypeOK
  <2>9. CASE LogProposal(c)
    <3>1. /\ journal' \subseteq Checkpoints
          /\ \A r \in journal' : r.workflow = Workflow[r.cycle]
      BY <2>9, CheckpointType DEF LogProposal
    <3>2. pc' \in [Cycles -> Points] /\ task' \in [Cycles -> [Stages -> Tasks]]
      <4>1. CASE draft[c].action # "HOLD" /\ Sizable(input[c])
        BY <2>9, <4>1, GoToType DEF LogProposal
      <4>2. CASE ~(draft[c].action # "HOLD" /\ Sizable(input[c]))
        BY <2>9, <4>2 DEF LogProposal, TypeOK
      <4> QED
        BY <4>1, <4>2
    <3>3. draft' \in [Cycles -> Drafts]
      BY <2>9, DraftType DEF LogProposal, TypeOK
    <3> QED
      BY <2>9, <3>1, <3>2, <3>3 DEF LogProposal, TypeOK
  <2>10. CASE LogEnd(c)
    <3>1. /\ journal' \subseteq Checkpoints
          /\ \A r \in journal' : r.workflow = Workflow[r.cycle]
      BY <2>10, CheckpointType DEF LogEnd
    <3> QED
      BY <2>10, <3>1 DEF LogEnd, TypeOK
  <2>11. CASE CommitLineage(c)
    <3>1. traces' \subseteq Rows
      <4> SUFFICES ASSUME NEW row \in LinkTraces(c)
                   PROVE  row \in Rows
        BY <2>11 DEF CommitLineage
      <4>1. PICK t \in traces : row = [t EXCEPT !.lineage = IF t.cycle = c THEN c ELSE @]
        BY DEF LinkTraces
      <4> QED
        BY <4>1, LinkTracesRow
    <3>2. journal' \subseteq Checkpoints /\ \A r \in journal' : r.workflow = Workflow[r.cycle]
      <4> SUFFICES ASSUME NEW row \in LinkJournal(c)
                   PROVE  row \in Checkpoints /\ row.workflow = Workflow[row.cycle]
        BY <2>11 DEF CommitLineage
      <4>1. PICK r \in journal :
              row = [r EXCEPT !.lineage = IF r.workflow = Workflow[c] THEN c ELSE @]
        BY DEF LinkJournal
      <4>2. row \in Checkpoints /\ row.workflow = r.workflow /\ row.cycle = r.cycle
        BY <4>1, LinkJournalRow
      <4> QED
        BY <4>2 DEF TypeOK
    <3>3. lineage' \in [Cycles -> {None, "noop", "rejected", "approved"}]
      BY <2>11 DEF CommitLineage, TypeOK, Drafts
    <3> QED
      BY <2>11, <3>1, <3>2, <3>3 DEF CommitLineage, TypeOK
  <2>12. CASE CommitFails(c)
    <3>1. faults' \in 0 .. MaxFaults
      BY <2>12, FaultType DEF CommitFails
    <3> QED
      BY <2>12, <3>1 DEF CommitFails, TypeOK
  <2>13. CASE DispatchReturns(c)
    <3>1. \A o \in orders' : o.cycle \in Cycles /\ o.side \in {"BUY", "SELL"} /\ o.volume \in Nat
      BY <2>13, OrderType DEF DispatchReturns, TypeOK
    <3> QED
      BY <2>13, <3>1 DEF DispatchReturns, TypeOK
  <2>14. ASSUME NEW out \in BOOLEAN, DispatchRaises(c, out)
         PROVE  TypeOK'
    <3>1. \A o \in orders' : o.cycle \in Cycles /\ o.side \in {"BUY", "SELL"} /\ o.volume \in Nat
      BY <2>14, OrderType DEF DispatchRaises, TypeOK
    <3>2. faults' \in 0 .. MaxFaults
      BY <2>14, FaultType DEF DispatchRaises
    <3> QED
      BY <2>14, <3>1, <3>2 DEF DispatchRaises, TypeOK
  <2>15. CASE TimePasses(c)
    <3>1. left' \in [Cycles -> Levels]
      <4>0. left \in [Cycles -> Levels]
        BY DEF TypeOK
      <4>1. left[c] > 0 /\ left[c] - 1 \in Levels
        BY <2>15, <4>0 DEF TimePasses, Levels
      <4>2. left' = [left EXCEPT ![c] = left[c] - 1]
        BY <2>15 DEF TimePasses
      <4> QED
        BY <4>0, <4>1, <4>2
    <3> QED
      BY <2>15, <3>1 DEF TimePasses, TypeOK
  <2>16. CASE Crash(c)
    <3>1. faults' \in 0 .. MaxFaults
      BY <2>16, FaultType DEF Crash
    <3> QED
      BY <2>16, <3>1 DEF Crash, TypeOK
  <2> QED
    BY <1>2, <2>1, <2>2, <2>3, <2>4, <2>5, <2>6, <2>7, <2>8, <2>9, <2>10, <2>11, <2>12,
       <2>13, <2>14, <2>15, <2>16 DEF GoesOn, Execute
<1> QED
  BY <1>1, <1>2 DEF Next

-----------------------------------------------------------------------------
(* Arithmetic of the sizing                                                *)

LEMMA Scaled ==
  ASSUME NEW x \in Nat, NEW y \in Nat, NEW k \in Nat, x <= y
  PROVE  x * k <= y * k
<1>1. (y - x) * k >= 0
  OBVIOUS
<1> QED
  BY <1>1

(* A volume no larger than the base volume times the multiplier loses no   *)
(* more at the stop than the risk of a trade scaled by the multiplier.     *)
LEMMA LossBound ==
  ASSUME NEW top \in Nat, NEW loss \in Nat, loss > 0, NEW m \in Nat, NEW v \in Nat,
         v <= ((10 * ((top * 100) \div (1000 * loss))) * m) \div 10
  PROVE  10000 * (v * loss) <= 1000 * (top * m)
<1> DEFINE q == (top * 100) \div (1000 * loss)
<1>1. q \in Nat /\ q * (1000 * loss) <= top * 100
  OBVIOUS
<1>2. v <= ((10 * q) * m) \div 10
  OBVIOUS
<1> HIDE DEF q
<1>3. q * m \in Nat /\ (10 * q) * m = 10 * (q * m)
  BY <1>1
<1> DEFINE n == q * m
<1>4. v <= n
  <2>1. v <= (10 * n) \div 10
    BY <1>2, <1>3
  <2>2. n \in Nat
    BY <1>3
  <2> HIDE DEF n
  <2> QED
    BY <2>1, <2>2
<1>5. v * loss <= n * loss
  BY <1>3, <1>4, Scaled
<1>7. 10 * (q * loss) <= top
  <2> DEFINE r == q * loss
  <2>1. r \in Nat /\ q * (1000 * loss) = 1000 * r
    BY <1>1
  <2> HIDE DEF r
  <2>2. 10 * r <= top
    BY <1>1, <2>1
  <2> QED
    BY <2>2 DEF r
<1>8. (10 * (q * loss)) * m <= top * m
  <2>1. 10 * (q * loss) \in Nat
    BY <1>1
  <2> QED
    BY <1>7, <2>1, Scaled
<1>9. n * loss = (q * loss) * m
  BY <1>1
<1>10. (10 * (q * loss)) * m = 10 * (n * loss)
  <2> DEFINE r == q * loss
  <2>1. r \in Nat
    BY <1>1
  <2> HIDE DEF r
  <2>2. (10 * r) * m = 10 * (r * m)
    BY <2>1
  <2> QED
    BY <1>9, <2>2 DEF r
<1> DEFINE a == v * loss
           b == n * loss
           d == top * m
<1>11. a \in Nat /\ b \in Nat /\ d \in Nat /\ a <= b /\ 10 * b <= d
  BY <1>3, <1>5, <1>8, <1>10
<1> HIDE DEF a, b, d
<1>12. 10000 * a <= 1000 * d
  BY <1>11
<1> QED
  BY <1>12 DEF a, d

LEMMA VolumeWithinRisk ==
  ASSUME BoundsOK, NEW in \in Books, Sizable(in), NEW m \in Nat
  PROVE  \/ FinalVolume(in, m) = in.minVolume
         \/ 1000 * One * FinalVolume(in, m) * StopPips(in) * in.pipValue
              <= in.equity * in.risk * m * Lot
<1>1. in \in Inputs
  BY DEF BoundsOK
<1>2. /\ in.equity \in Nat /\ in.risk \in Nat /\ in.pipValue \in Nat
      /\ in.minVolume \in Nat /\ in.maxVolume \in Nat /\ in.atr \in Nat
      /\ in.atrMultiplier \in Nat
  BY <1>1 DEF Inputs, Sizable
<1>3. StopPips(in) \in Nat /\ StopPips(in) > 0 /\ in.pipValue > 0
  BY <1>2 DEF StopPips, Sizable
<1> DEFINE top == in.equity * in.risk
           loss == StopPips(in) * in.pipValue
           v == FinalVolume(in, m)
<1>4. top \in Nat /\ loss \in Nat /\ loss > 0
  BY <1>2, <1>3
<1>5. v \in Nat
  BY VolumeType
<1>6. BaseVolume(in) = 10 * ((top * 100) \div (1000 * loss))
  <2>1. 1000 * StopPips(in) * in.pipValue = 1000 * loss
    BY <1>2, <1>3
  <2>2. Lot \div Hundredth = 100
    BY DEF Lot, Hundredth
  <2> QED
    BY <2>1, <2>2 DEF BaseVolume, Hundredth
<1>7. v = in.minVolume \/ v <= (BaseVolume(in) * m) \div 10
  <2>1. BaseVolume(in) \in Nat
    <3> HIDE DEF top, loss
    <3>1. (top * 100) \div (1000 * loss) \in Nat
      BY <1>4
    <3> QED
      BY <1>6, <3>1
  <2>2. BaseVolume(in) * m \in Nat
    BY <2>1
  <2>3. (BaseVolume(in) * m) \div 10 \in Nat
    BY <2>2
  <2> QED
    BY <1>2, <2>3 DEF FinalVolume, Clamped, One
<1>8. CASE v <= (BaseVolume(in) * m) \div 10
  <2>1. 10000 * (v * loss) <= 1000 * (top * m)
    <3> HIDE DEF top, loss, v
    <3> QED
      BY <1>4, <1>5, <1>6, <1>8, LossBound
  <2>2. 1000 * One * v * StopPips(in) * in.pipValue = 10000 * (v * loss)
    <3> HIDE DEF v
    <3> QED
      BY <1>2, <1>3, <1>5 DEF One
  <2>3. in.equity * in.risk * m * Lot = 1000 * (top * m)
    BY <1>2 DEF Lot
  <2> QED
    BY <2>1, <2>2, <2>3
<1> QED
  BY <1>7, <1>8

-----------------------------------------------------------------------------
(* What a step leaves alone                                                *)

(* Rows are added and linked, never taken away.                            *)
TracesKept ==
  \A d \in Cycles, s \in Stages :
    /\ Traced(traces, d, s) => Traced(traces', d, s)
    /\ LinkedTrace(traces, d, s) => LinkedTrace(traces', d, s)

JournalKept ==
  \A d \in Cycles : \A step :
    /\ Logged(journal, d, step) => Logged(journal', d, step)
    /\ LinkedRow(journal, d, step) => LinkedRow(journal', d, step)

LEMMA TracesGrow ==
  ASSUME traces \subseteq traces'
  PROVE  TracesKept
BY DEF TracesKept, Traced, LinkedTrace

LEMMA JournalGrows ==
  ASSUME journal \subseteq journal'
  PROVE  JournalKept
BY DEF JournalKept, Logged, LinkedRow

LEMMA TracesLinked ==
  ASSUME TypeOK, NEW c \in Cycles, traces' = LinkTraces(c)
  PROVE  TracesKept
<1> SUFFICES ASSUME NEW d \in Cycles, NEW s \in Stages
             PROVE  /\ Traced(traces, d, s) => Traced(traces', d, s)
                    /\ LinkedTrace(traces, d, s) => LinkedTrace(traces', d, s)
  BY DEF TracesKept
<1>1. ASSUME NEW t \in traces, t.cycle = d, t.stage = s, t.ok
      PROVE  \E n \in traces' : /\ n.cycle = d /\ n.stage = s /\ n.ok
                                /\ t.lineage = d => n.lineage = d
  <2> DEFINE new == [t EXCEPT !.lineage = IF t.cycle = c THEN c ELSE @]
  <2>1. /\ new \in traces'
        /\ new.cycle = t.cycle /\ new.stage = t.stage /\ new.ok = t.ok
        /\ new.lineage = IF t.cycle = c THEN c ELSE t.lineage
    BY LinkTracesRow
  <2> HIDE DEF new
  <2> QED
    BY <1>1, <2>1
<1> QED
  BY <1>1 DEF Traced, LinkedTrace

LEMMA JournalLinked ==
  ASSUME BoundsOK, TypeOK, NEW c \in Cycles, journal' = LinkJournal(c)
  PROVE  JournalKept
<1> SUFFICES ASSUME NEW d \in Cycles, NEW step
             PROVE  /\ Logged(journal, d, step) => Logged(journal', d, step)
                    /\ LinkedRow(journal, d, step) => LinkedRow(journal', d, step)
  BY DEF JournalKept
<1>1. ASSUME NEW r \in journal, r.cycle = d, r.step = step
      PROVE  \E n \in journal' :
               /\ n.cycle = d /\ n.step = step
               /\ r.lineage # None /\ Workflow[r.lineage] = Workflow[d]
                    => n.lineage # None /\ Workflow[n.lineage] = Workflow[d]
  <2> DEFINE new == [r EXCEPT !.lineage = IF r.workflow = Workflow[c] THEN c ELSE @]
  <2>1. /\ new \in journal'
        /\ new.cycle = r.cycle /\ new.step = r.step
        /\ new.lineage = IF r.workflow = Workflow[c] THEN c ELSE r.lineage
    BY LinkJournalRow
  <2>2. r.workflow = Workflow[d] /\ c # None
    BY <1>1 DEF TypeOK, BoundsOK
  <2> HIDE DEF new
  <2> QED
    BY <1>1, <2>1, <2>2
<1> QED
  BY <1>1 DEF Logged, LinkedRow

(* What the step of one cycle leaves of the others.                        *)
Stays(d) ==
  /\ pc'[d] = pc[d] /\ held'[d] = held[d] /\ draft'[d] = draft[d]
  /\ lineage'[d] = lineage[d] /\ task'[d] = task[d]

StepOf(c) == Begin(c) \/ GoesOn(c) \/ TimePasses(c) \/ Crash(c)

LEMMA TableStep ==
  ASSUME BoundsOK, TypeOK, NEW c \in Cycles, StepOf(c)
  PROVE  TracesKept /\ JournalKept
<1>1. CASE CommitLineage(c)
  BY <1>1, TracesLinked, JournalLinked DEF CommitLineage
<1>2. CASE ~CommitLineage(c)
  <2>1. traces \subseteq traces' /\ journal \subseteq journal'
    BY <1>2 DEF StepOf, GoesOn, Execute, Stage, Begin, TimePasses, Crash, RouteAnswers,
       RouteFails, WriteTrace, TraceFails, StageRaises, StageReturns, Judge, LogAnalysts,
       LogDebate, LogIc, LogProposal, LogEnd, Checkpoint, CommitFails, DispatchReturns,
       DispatchRaises
  <2> QED
    BY <2>1, TracesGrow, JournalGrows
<1> QED
  BY <1>1, <1>2

LEMMA GoToStays ==
  ASSUME TypeOK, NEW c \in Cycles, NEW d \in Cycles, d # c, NEW at, NEW stages,
         GoTo(c, at, stages)
  PROVE  pc'[d] = pc[d] /\ task'[d] = task[d]
BY DEF GoTo, TypeOK

LEMMA OthersStay ==
  ASSUME TypeOK, NEW c \in Cycles, StepOf(c), NEW d \in Cycles, d # c
  PROVE  Stays(d) /\ input' = input
<1> USE DEF Stays
<1>1. CASE Begin(c)
  BY <1>1, GoToStays DEF Begin
<1>2. ASSUME NEW s \in Stages, Stage(c, s)
      PROVE  Stays(d) /\ input' = input
  <2>1. /\ UNCHANGED <<pc, input, held, draft, lineage>>
        /\ \E t : SetTask(c, s, t)
    BY <1>2 DEF Stage, RouteAnswers, RouteFails, WriteTrace, TraceFails
  <2>2. task'[d] = task[d]
    BY <2>1 DEF SetTask, TypeOK
  <2> QED
    BY <2>1, <2>2
<1>3. CASE LogAnalysts(c, TRUE) \/ LogAnalysts(c, FALSE)
  BY <1>3, GoToStays DEF LogAnalysts, TypeOK
<1>4. CASE LogDebate(c)
  BY <1>4, GoToStays DEF LogDebate
<1>5. CASE LogIc(c)
  BY <1>5, GoToStays DEF LogIc
<1>6. CASE LogProposal(c)
  BY <1>6, GoToStays DEF LogProposal, TypeOK
<1>7. CASE \/ TimePasses(c) \/ Crash(c) \/ StageRaises(c) \/ LogEnd(c) \/ CommitFails(c)
           \/ DispatchReturns(c) \/ \E out \in BOOLEAN : DispatchRaises(c, out)
  BY <1>7 DEF TimePasses, Crash, StageRaises, LogEnd, CommitFails, DispatchReturns,
     DispatchRaises, TypeOK
<1>8. CASE StageReturns(c)
  BY <1>8 DEF StageReturns, TypeOK
<1>9. CASE \E regime \in Regimes, veto \in BOOLEAN : Judge(c, regime, veto)
  BY <1>9 DEF Judge, TypeOK
<1>10. CASE CommitLineage(c)
  BY <1>10 DEF CommitLineage, TypeOK
<1> QED
  BY <1>1, <1>2, <1>3, <1>4, <1>5, <1>6, <1>7, <1>8, <1>9, <1>10 DEF StepOf, GoesOn, Execute

-----------------------------------------------------------------------------
(* The invariant                                                           *)

LEMMA LinkedStays ==
  ASSUME TracesKept, JournalKept, NEW d \in Cycles, Linked(d),
         lineage'[d] = lineage[d], held'[d] = held[d]
  PROVE  Linked(d)'
<1>1. Required(d)' = Required(d) /\ Steps(d)' = Steps(d)
  BY DEF Required, Steps, Stages
<1>2. Required(d) \subseteq Stages
  BY DEF Required
<1>3. \A s \in Required(d) : LinkedTrace(traces', d, s)
  BY <1>2 DEF TracesKept, Linked
<1>4. \A step \in Steps(d) : LinkedRow(journal', d, step)
  BY DEF JournalKept, Linked
<1> QED
  BY <1>1, <1>3, <1>4 DEF Linked

LEMMA EvidenceStays ==
  ASSUME TracesKept, JournalKept, NEW d \in Cycles, Evidence(d),
         pc'[d] = pc[d], held'[d] = held[d]
  PROVE  Evidence(d)'
<1>1. Analysts \subseteq Stages /\ {"debate", "ic", "cio", "risk"} \subseteq Stages
  BY DEF Stages
<1>2. \A step : Logged(journal, d, step) => Logged(journal', d, step)
  BY DEF JournalKept
<1>3. \A s \in Stages : Traced(traces, d, s) => Traced(traces', d, s)
  BY DEF TracesKept
<1>4. DebateStep(d)' = DebateStep(d)
  BY DEF DebateStep
<1> QED
  BY <1>1, <1>2, <1>3, <1>4 DEF Evidence

LEMMA JudgedStays ==
  ASSUME TracesKept, NEW d \in Cycles, Judged(d),
         pc'[d] = pc[d], draft'[d] = draft[d], input' = input
  PROVE  Judged(d)'
<1>1. Traced(traces, d, "risk") => Traced(traces', d, "risk")
  BY DEF TracesKept, Stages
<1> QED
  BY <1>1 DEF Judged

LEMMA RecordedStays ==
  ASSUME TracesKept, JournalKept, NEW d \in Cycles, Recorded(d),
         pc'[d] = pc[d], draft'[d] = draft[d], lineage'[d] = lineage[d], held'[d] = held[d]
  PROVE  Recorded(d)'
BY LinkedStays DEF Recorded

(* A cycle that ends or waits for the debate's predecessors owes nothing.  *)
LEMMA EndedOwesNothing ==
  ASSUME NEW c \in Cycles, pc'[c] \in Ended
  PROVE  Evidence(c)' /\ Recorded(c)'
BY DEF Ended, Evidence, Recorded, AfterAnalysts, FromDebate, AfterDebate, FromIc, AfterIc,
   FromCio, Proposed, FromRisk, Closing

LEMMA EndedJudged ==
  ASSUME TracesKept, NEW c \in Cycles, Judged(c), pc'[c] \in Ended,
         draft'[c] = draft[c], input' = input
  PROVE  Judged(c)'
<1>1. Traced(traces, c, "risk") => Traced(traces', c, "risk")
  BY DEF TracesKept, Stages
<1> QED
  BY <1>1 DEF Judged, Ended, Closing

LEMMA NewTrace ==
  ASSUME TypeOK, NEW c \in Cycles, NEW s \in Stages, WriteTrace(c, s)
  PROVE  task'[c][s].at = "done" => Traced(traces', c, s)
<1> DEFINE t == task[c][s]
           row == [cycle |-> c, stage |-> s, attempt |-> t.attempt, ok |-> t.ok,
                   lineage |-> None]
<1>1. task'[c][s] = IF t.ok THEN [t EXCEPT !.at = "done"]
                    ELSE IF t.attempt = 1 THEN Asking(c, s, 2)
                    ELSE [t EXCEPT !.at = "failed"]
  BY DEF WriteTrace, SetTask, TypeOK
<1>2. row \in traces'
  BY DEF WriteTrace
<1>3. t \in Tasks
  BY DEF TypeOK
<1>4. task'[c][s].at = "done" => t.ok
  BY <1>1, <1>3 DEF Asking, Quiet, Tasks
<1> QED
  BY <1>2, <1>4 DEF Traced

LEMMA TasksStep ==
  ASSUME BoundsOK, TypeOK, NEW c \in Cycles, StepOf(c), NEW s \in Stages, Finished(c, s)
  PROVE  Finished(c, s)'
<1>1. TracesKept
  BY TableStep
<1>2. CASE task'[c][s].at = "done" => task'[c][s] = task[c][s]
  BY <1>1, <1>2 DEF Finished, TracesKept
<1>3. ASSUME NEW q \in Stages, Stage(c, q)
      PROVE  Finished(c, s)'
  <2>1. CASE q # s
    <3>1. \E t : SetTask(c, q, t)
      BY <1>3 DEF Stage, RouteAnswers, RouteFails, WriteTrace, TraceFails
    <3>2. task'[c][s] = task[c][s]
      BY <2>1, <3>1 DEF SetTask, TypeOK
    <3> QED
      BY <1>2, <3>2
  <2>2. CASE q = s /\ WriteTrace(c, s)
    BY <2>2, NewTrace DEF Finished
  <2>3. CASE q = s /\ ~WriteTrace(c, s)
    <3>1. task[c][s] \in Tasks
      BY DEF TypeOK
    <3>2. task[c][s].at \in {"calling", "tracing"}
      BY <1>3, <2>3 DEF Stage, RouteAnswers, RouteFails, TraceFails, Runs
    <3>3. task'[c][s].at # "done"
      <4>1. CASE \E ok \in BOOLEAN : RouteAnswers(c, s, ok)
        BY <3>1, <4>1 DEF RouteAnswers, SetTask, TypeOK, Tasks
      <4>2. CASE TraceFails(c, s)
        BY <3>1, <4>2 DEF TraceFails, SetTask, TypeOK, Tasks
      <4>3. ASSUME NEW transient \in BOOLEAN, RouteFails(c, s, transient)
            PROVE  task'[c][s].at # "done"
        <5> DEFINE t == task[c][s]
        <5>1. \/ task'[c][s] = [t EXCEPT !.try = 2]
              \/ task'[c][s] = [t EXCEPT !.route = @ + 1, !.try = 1]
              \/ task'[c][s] = [t EXCEPT !.at = "failed"]
          BY <4>3 DEF RouteFails, SetTask, TypeOK
        <5>2. t.at = "calling"
          BY <4>3 DEF RouteFails, Runs
        <5> QED
          BY <3>1, <5>1, <5>2 DEF Tasks
      <4> QED
        BY <1>3, <2>3, <4>1, <4>2, <4>3 DEF Stage
    <3> QED
      BY <3>3 DEF Finished
  <2> QED
    BY <2>1, <2>2, <2>3
<1>4. ASSUME NEW at \in Points, NEW stages, GoTo(c, at, stages)
      PROVE  Finished(c, s)'
  BY <1>2, <1>4, GoToType
<1>5. {"analysts", "debate", "ic", "cio", "risk"} \subseteq Points
  BY DEF Points, Waiting
<1>6. CASE UNCHANGED task
  BY <1>2, <1>6
<1> QED
  BY <1>3, <1>4, <1>5, <1>6 DEF StepOf, GoesOn, Execute, Begin, TimePasses, Crash, StageRaises,
     StageReturns, Judge, LogAnalysts, LogDebate, LogIc, LogProposal, LogEnd, CommitLineage,
     CommitFails, DispatchReturns, DispatchRaises

(* A stage that returned has a valid trace; a checkpoint has its row.      *)
LEMMA Returned ==
  ASSUME TypeOK, NEW c \in Cycles, \A s \in Stages : Finished(c, s), StageReturns(c)
  PROVE  /\ pc[c] = "analysts" => \A s \in Analysts : Traced(traces, c, s)
         /\ pc[c] \in {"debate", "ic", "cio"} => Traced(traces, c, pc[c])
<1>1. \A s \in Awaited(pc[c]) \cap Stages : Traced(traces, c, s)
  BY DEF StageReturns, Finished
<1> QED
  BY <1>1 DEF Awaited, Stages

LEMMA Checkpointed ==
  ASSUME BoundsOK, TypeOK, NEW c \in Cycles, NEW at \in Logging, Checkpoint(c, at)
  PROVE  Logged(journal', c, StepName(c)) /\ pc[c] = at
<1>1. \E row \in journal' : row.cycle = c /\ row.step = StepName(c)
  BY CheckpointType
<1> QED
  BY <1>1 DEF Logged, Checkpoint

LEMMA EvidenceStep ==
  ASSUME BoundsOK, TypeOK, NEW c \in Cycles, StepOf(c), Evidence(c),
         \A s \in Stages : Finished(c, s)
  PROVE  Evidence(c)'
<1>1. TracesKept /\ JournalKept
  BY TableStep
<1>2. Analysts \subseteq Stages /\ {"debate", "ic", "cio", "risk"} \subseteq Stages
  BY DEF Stages
<1>3. /\ \A step : Logged(journal, c, step) => Logged(journal', c, step)
      /\ \A s \in Stages : Traced(traces, c, s) => Traced(traces', c, s)
  BY <1>1 DEF TracesKept, JournalKept
<1>4. pc \in [Cycles -> Points] /\ held \in [Cycles -> BOOLEAN]
  BY DEF TypeOK
<1>5. CASE pc'[c] = pc[c] /\ held'[c] = held[c]
  BY <1>1, <1>5, EvidenceStays
<1>6. CASE pc'[c] \in Ended
  BY <1>6, EndedOwesNothing
<1> USE DEF AfterAnalysts, FromDebate, AfterDebate, FromIc, AfterIc, FromCio, Proposed,
            FromRisk, Closing
<1>7. CASE pc'[c] = "analysts"
  BY <1>7 DEF Evidence
<1>8. CASE StageReturns(c)
  <2>1. /\ pc[c] = "analysts" => \A s \in Analysts : Traced(traces', c, s)
        /\ pc[c] \in {"debate", "ic", "cio"} => Traced(traces', c, pc[c])
    BY <1>2, <1>3, <1>8, Returned
  <2>2. /\ held'[c] = held[c] /\ pc[c] \in {"analysts", "debate", "ic", "cio"}
        /\ pc'[c] = CASE pc[c] = "analysts" -> "log analysts"
                      [] pc[c] = "debate"   -> "log debate"
                      [] pc[c] = "ic"       -> "log ic"
                      [] pc[c] = "cio"      -> "log proposal"
    BY <1>4, <1>8 DEF StageReturns, Waiting
  <2>3. CASE pc[c] = "analysts"
    BY <2>1, <2>2, <2>3 DEF Evidence
  <2>4. CASE pc[c] = "debate"
    BY <1>2, <1>3, <2>1, <2>2, <2>4 DEF Evidence, DebateStep
  <2>5. CASE pc[c] = "ic"
    BY <1>2, <1>3, <2>1, <2>2, <2>5 DEF Evidence, DebateStep
  <2>6. CASE pc[c] = "cio"
    BY <1>2, <1>3, <2>1, <2>2, <2>6 DEF Evidence, DebateStep
  <2> QED
    BY <2>2, <2>3, <2>4, <2>5, <2>6
<1>9. ASSUME NEW regime \in Regimes, NEW veto \in BOOLEAN, Judge(c, regime, veto)
      PROVE  Evidence(c)'
  <2>1. pc[c] = "risk" /\ pc'[c] = "lineage" /\ held'[c] = held[c]
    BY <1>4, <1>9 DEF Judge
  <2> QED
    BY <1>2, <1>3, <2>1 DEF Evidence, DebateStep
<1>10. ASSUME NEW debate \in BOOLEAN, LogAnalysts(c, debate)
       PROVE  Evidence(c)'
  <2>1. pc[c] = "log analysts" /\ Logged(journal', c, "ANALYSTS_VALIDATED")
    BY <1>10, Checkpointed DEF LogAnalysts, Logging, StepName
  <2>2. pc'[c] \in Ended \/ pc'[c] = "debate" \/ (pc'[c] = "log debate" /\ ~held'[c])
    <3>1. held'[c] = debate
      BY <1>4, <1>10 DEF LogAnalysts
    <3>2. CASE debate
      BY <1>4, <1>10, <3>2 DEF LogAnalysts, GoTo, Ended
    <3>3. CASE ~debate
      BY <1>4, <1>10, <3>1, <3>3 DEF LogAnalysts
    <3> QED
      BY <3>2, <3>3
  <2>3. \A s \in Analysts : Traced(traces', c, s)
    BY <1>2, <1>3, <2>1 DEF Evidence
  <2> QED
    BY <1>6, <2>1, <2>2, <2>3 DEF Evidence
<1>11. CASE LogDebate(c)
  <2>1. pc[c] = "log debate" /\ Logged(journal', c, DebateStep(c)) /\ held'[c] = held[c]
    BY <1>11, Checkpointed DEF LogDebate, Logging, StepName, DebateStep
  <2>2. pc'[c] \in Ended \/ pc'[c] = "ic"
    BY <1>4, <1>11 DEF LogDebate, GoTo, Ended
  <2> QED
    BY <1>2, <1>3, <1>6, <2>1, <2>2 DEF Evidence, DebateStep
<1>12. CASE LogIc(c)
  <2>1. pc[c] = "log ic" /\ Logged(journal', c, "IC_VALIDATED") /\ held'[c] = held[c]
    BY <1>12, Checkpointed DEF LogIc, Logging, StepName
  <2>2. pc'[c] \in Ended \/ pc'[c] = "cio"
    BY <1>4, <1>12 DEF LogIc, GoTo, Ended
  <2> QED
    BY <1>2, <1>3, <1>6, <2>1, <2>2 DEF Evidence, DebateStep
<1>13. CASE LogProposal(c)
  <2>1. pc[c] = "log proposal" /\ Logged(journal', c, "PROPOSAL_VALIDATED")
        /\ held'[c] = held[c]
    BY <1>13, Checkpointed DEF LogProposal, Logging, StepName
  <2>2. pc'[c] \in Ended \/ pc'[c] \in {"risk", "lineage"}
    BY <1>4, <1>13 DEF LogProposal, GoTo, Ended
  <2> QED
    BY <1>2, <1>3, <1>6, <2>1, <2>2 DEF Evidence, DebateStep
<1>14. CASE CommitLineage(c)
  <2>1. pc[c] = "lineage" /\ pc'[c] \in {"dispatch", "log end"} /\ held'[c] = held[c]
    BY <1>4, <1>14 DEF CommitLineage
  <2> QED
    BY <1>2, <1>3, <2>1 DEF Evidence, DebateStep
<1>15. CASE DispatchReturns(c)
  <2>1. pc[c] = "dispatch" /\ pc'[c] = "log end" /\ held'[c] = held[c]
    BY <1>4, <1>15 DEF DispatchReturns
  <2> QED
    BY <1>2, <1>3, <2>1 DEF Evidence, DebateStep
<1>16. CASE Begin(c) \/ Crash(c) \/ StageRaises(c) \/ LogEnd(c) \/ CommitFails(c)
            \/ \E out \in BOOLEAN : DispatchRaises(c, out)
  <2>1. pc'[c] = "analysts" \/ pc'[c] \in Ended
    BY <1>4, <1>16 DEF Begin, GoTo, Crash, StageRaises, LogEnd, CommitFails, DispatchRaises,
       Ended
  <2> QED
    BY <1>6, <1>7, <2>1
<1>17. CASE TimePasses(c) \/ \E s \in Stages : Stage(c, s)
  BY <1>5, <1>17 DEF TimePasses, Stage, RouteAnswers, RouteFails, WriteTrace, TraceFails
<1> QED
  BY <1>8, <1>9, <1>10, <1>11, <1>12, <1>13, <1>14, <1>15, <1>16, <1>17
     DEF StepOf, GoesOn, Execute

LEMMA JudgedStep ==
  ASSUME BoundsOK, TypeOK, NEW c \in Cycles, StepOf(c), Judged(c), Finished(c, "risk")
  PROVE  Judged(c)'
<1>1. TracesKept
  BY TableStep
<1>2. Traced(traces, c, "risk") => Traced(traces', c, "risk")
  BY <1>1 DEF TracesKept, Stages
<1>3. /\ pc \in [Cycles -> Points] /\ draft \in [Cycles -> Drafts] /\ draft[c] \in Drafts
      /\ input[c] \in Books
  BY DEF TypeOK
<1>4. CASE input' = input /\ draft'[c] = draft[c] /\ (pc'[c] = pc[c] \/ pc'[c] \in Ended)
  BY <1>1, <1>4, JudgedStays, EndedJudged
<1> USE DEF Closing, Ended
<1>5. CASE Begin(c)
  BY <1>2, <1>3, <1>5 DEF Begin, GoTo, Judged, None
<1>6. CASE StageReturns(c)
  <2>1. pc[c] \in {"analysts", "debate", "ic", "cio"} /\ input' = input
    BY <1>6 DEF StageReturns, Waiting
  <2>2. draft[c].verdict = None
    BY <2>1 DEF Judged
  <2>3. draft'[c].verdict = None
    <3>1. \/ draft' = draft
          \/ \E a \in {"HOLD", "BUY", "SELL"} : draft' = [draft EXCEPT ![c].action = a]
      BY <1>6 DEF StageReturns
    <3>2. \/ draft'[c] = draft[c]
          \/ \E a \in {"HOLD", "BUY", "SELL"} : draft'[c] = [draft[c] EXCEPT !.action = a]
      BY <1>3, <3>1
    <3> QED
      BY <1>3, <2>2, <3>2 DEF Drafts
  <2>4. pc'[c] \in {"log analysts", "log debate", "log ic"}
          \/ (pc'[c] = "log proposal" /\ draft'[c].action # None)
    BY <1>3, <1>6, <2>1 DEF StageReturns, Drafts, None
  <2> QED
    BY <2>3, <2>4 DEF Judged, None
<1>7. ASSUME NEW regime \in Regimes, NEW veto \in BOOLEAN, Judge(c, regime, veto)
      PROVE  Judged(c)'
  <2> DEFINE in == input[c]
             m == Multiplier(Adjustments, regime, Band(in))
             v == FinalVolume(in, m)
             verdict == IF veto \/ Violations(in, v, RiskLimits) # {} THEN "rejected"
                                                                     ELSE "approved"
  <2>1. /\ pc[c] = "risk" /\ task[c]["risk"].at = "done" /\ pc'[c] = "lineage"
        /\ input' = input
        /\ draft'[c] = [[[draft[c] EXCEPT !.volume = v] EXCEPT !.multiplier = m]
                           EXCEPT !.verdict = verdict]
    BY <1>3, <1>7 DEF Judge
  <2>2. Sizable(in) /\ draft[c].action \in {"BUY", "SELL"} /\ Traced(traces', c, "risk")
    BY <1>2, <2>1 DEF Judged, Finished
  <2>3. m \in Nat
    BY MultiplierType
  <2>4. \/ v = in.minVolume
        \/ 1000 * One * v * StopPips(in) * in.pipValue <= in.equity * in.risk * m * Lot
    BY <1>3, <2>2, <2>3, VolumeWithinRisk
  <2>5. verdict = "approved" => WithinRisk(in, v, m)
    BY <2>4 DEF WithinRisk
  <2>6. verdict \in {"rejected", "approved"}
    OBVIOUS
  <2> HIDE DEF m, v, verdict, in
  <2>7. /\ draft'[c].volume = v /\ draft'[c].multiplier = m /\ draft'[c].verdict = verdict
        /\ draft'[c].action = draft[c].action
    BY <1>3, <2>1 DEF Drafts
  <2> QED
    BY <2>1, <2>2, <2>5, <2>6, <2>7 DEF Judged, None, in
<1>8. CASE LogProposal(c)
  <2>1. pc[c] = "log proposal" /\ input' = input
    BY <1>8 DEF LogProposal, Checkpoint
  <2>2. draft[c].verdict = None /\ draft[c].action \in {"HOLD", "BUY", "SELL"}
    BY <1>3, <2>1 DEF Judged, Drafts
  <2>3. CASE draft[c].action = "HOLD"
    <3>1. pc'[c] = "lineage" /\ draft'[c].verdict = "noop"
      <4>1. pc'[c] = "lineage" /\ draft' = [draft EXCEPT ![c].verdict = "noop"]
        BY <1>3, <1>8, <2>3 DEF LogProposal
      <4>2. draft'[c] = [draft[c] EXCEPT !.verdict = "noop"]
        BY <1>3, <4>1
      <4> QED
        BY <1>3, <4>1, <4>2 DEF Drafts
    <3> QED
      BY <3>1 DEF Judged, None
  <2>4. CASE draft[c].action # "HOLD"
    <3>1. draft'[c] = draft[c]
      BY <1>8, <2>4 DEF LogProposal
    <3>2. pc'[c] \in Ended \/ (pc'[c] = "risk" /\ Sizable(input[c]))
      BY <1>3, <1>8, <2>4 DEF LogProposal, GoTo
    <3> QED
      BY <1>4, <2>1, <2>2, <2>4, <3>1, <3>2 DEF Judged, None
  <2> QED
    BY <2>3, <2>4
<1>9. CASE CommitLineage(c) \/ DispatchReturns(c)
  <2>1. /\ pc[c] \in Closing /\ pc'[c] \in Closing /\ input' = input
        /\ draft'[c] = draft[c]
    BY <1>3, <1>9 DEF CommitLineage, DispatchReturns
  <2> QED
    BY <1>2, <2>1 DEF Judged
<1>10. ASSUME NEW debate \in BOOLEAN, LogAnalysts(c, debate)
       PROVE  Judged(c)'
  <2>1. pc[c] = "log analysts" /\ input' = input /\ draft' = draft
        /\ (pc'[c] \in Ended \/ pc'[c] \in {"debate", "log debate"})
    BY <1>3, <1>10 DEF LogAnalysts, Checkpoint, GoTo
  <2> QED
    BY <1>4, <2>1 DEF Judged, None
<1>11. CASE LogDebate(c) \/ LogIc(c)
  <2>1. pc[c] \in {"log debate", "log ic"} /\ input' = input /\ draft' = draft
        /\ (pc'[c] \in Ended \/ pc'[c] \in {"ic", "cio"})
    BY <1>3, <1>11 DEF LogDebate, LogIc, Checkpoint, GoTo
  <2> QED
    BY <1>4, <2>1 DEF Judged, None
<1>12. CASE Crash(c) \/ StageRaises(c) \/ LogEnd(c) \/ CommitFails(c)
            \/ \E out \in BOOLEAN : DispatchRaises(c, out)
  BY <1>3, <1>4, <1>12 DEF Crash, StageRaises, LogEnd, CommitFails, DispatchRaises
<1>13. CASE TimePasses(c) \/ \E s \in Stages : Stage(c, s)
  BY <1>4, <1>13 DEF TimePasses, Stage, RouteAnswers, RouteFails, WriteTrace, TraceFails
<1> QED
  BY <1>5, <1>6, <1>7, <1>8, <1>9, <1>10, <1>11, <1>12, <1>13 DEF StepOf, GoesOn, Execute

(* The commit of an approved record links all the evidence there is.       *)
LEMMA CommitLinks ==
  ASSUME BoundsOK, TypeOK, NEW c \in Cycles, CommitLineage(c), Evidence(c), Judged(c),
         draft[c].verdict = "approved"
  PROVE  Linked(c)'
<1>1. /\ pc[c] = "lineage" /\ traces' = LinkTraces(c) /\ journal' = LinkJournal(c)
      /\ held' = held /\ lineage'[c] = "approved"
  BY DEF CommitLineage, TypeOK
<1> USE DEF AfterAnalysts, FromDebate, AfterDebate, FromIc, AfterIc, FromCio, Proposed,
            FromRisk, Closing
<1>2. \A s \in Required(c) : Traced(traces, c, s)
  BY <1>1 DEF Evidence, Judged, Required, Stages
<1>3. \A step \in Steps(c) : Logged(journal, c, step)
  BY <1>1 DEF Evidence, Steps, DebateStep
<1>4. ASSUME NEW s, Traced(traces, c, s)
      PROVE  LinkedTrace(traces', c, s)
  <2>1. PICK t \in traces : t.cycle = c /\ t.stage = s /\ t.ok
    BY <1>4 DEF Traced
  <2> DEFINE new == [t EXCEPT !.lineage = IF t.cycle = c THEN c ELSE @]
  <2>2. new \in traces' /\ new.cycle = c /\ new.stage = s /\ new.ok /\ new.lineage = c
    BY <1>1, <2>1, LinkTracesRow
  <2> HIDE DEF new
  <2> QED
    BY <2>2 DEF LinkedTrace
<1>5. ASSUME NEW step, Logged(journal, c, step)
      PROVE  LinkedRow(journal', c, step)
  <2>1. PICK r \in journal : r.cycle = c /\ r.step = step
    BY <1>5 DEF Logged
  <2> DEFINE new == [r EXCEPT !.lineage = IF r.workflow = Workflow[c] THEN c ELSE @]
  <2>2. r.workflow = Workflow[c] /\ c # None
    BY <2>1 DEF TypeOK, BoundsOK
  <2>3. new \in journal' /\ new.cycle = c /\ new.step = step /\ new.lineage = c
    BY <1>1, <2>1, <2>2, LinkJournalRow
  <2> HIDE DEF new
  <2> QED
    BY <2>2, <2>3 DEF LinkedRow
<1>6. Required(c)' = Required(c) /\ Steps(c)' = Steps(c)
  BY <1>1 DEF Required, Steps
<1> QED
  BY <1>1, <1>2, <1>3, <1>4, <1>5, <1>6 DEF Linked

LEMMA RecordedStep ==
  ASSUME BoundsOK, TypeOK, NEW c \in Cycles, StepOf(c), Evidence(c), Judged(c), Recorded(c)
  PROVE  Recorded(c)'
<1>1. TracesKept /\ JournalKept
  BY TableStep
<1>2. pc \in [Cycles -> Points] /\ lineage \in [Cycles -> {None, "noop", "rejected", "approved"}]
  BY DEF TypeOK
<1>3. CASE pc'[c] \notin {"dispatch", "log end"}
  BY <1>3 DEF Recorded
<1>4. CASE CommitLineage(c)
  <2>1. /\ draft' = draft /\ lineage'[c] = draft[c].verdict
        /\ pc'[c] = IF draft[c].verdict = "approved" THEN "dispatch" ELSE "log end"
    BY <1>2, <1>4 DEF CommitLineage
  <2>2. draft[c].verdict = "approved" => Linked(c)'
    BY <1>4, CommitLinks
  <2> QED
    BY <2>1, <2>2 DEF Recorded
<1>5. CASE DispatchReturns(c)
  <2>1. pc[c] = "dispatch" /\ pc'[c] = "log end" /\ draft' = draft /\ lineage' = lineage
    BY <1>2, <1>5 DEF DispatchReturns
  <2> QED
    BY <2>1 DEF Recorded
<1>6. CASE TimePasses(c) \/ \E s \in Stages : Stage(c, s)
  <2>1. pc' = pc /\ draft' = draft /\ lineage' = lineage /\ held' = held
    BY <1>6 DEF TimePasses, Stage, RouteAnswers, RouteFails, WriteTrace, TraceFails
  <2> QED
    BY <1>1, <2>1, RecordedStays
<1>7. CASE \/ Begin(c) \/ Crash(c) \/ StageRaises(c) \/ LogEnd(c) \/ CommitFails(c)
           \/ LogDebate(c) \/ LogIc(c) \/ LogProposal(c) \/ StageReturns(c)
           \/ \E out \in BOOLEAN : DispatchRaises(c, out)
           \/ \E debate \in BOOLEAN : LogAnalysts(c, debate)
           \/ \E regime \in Regimes, veto \in BOOLEAN : Judge(c, regime, veto)
  <2>1. pc'[c] \notin {"dispatch", "log end"}
    BY <1>2, <1>7 DEF Begin, GoTo, Crash, StageRaises, LogEnd, CommitFails, DispatchRaises,
       LogAnalysts, LogDebate, LogIc, LogProposal, Checkpoint, StageReturns, Judge, Waiting
  <2> QED
    BY <1>3, <2>1
<1> QED
  BY <1>4, <1>5, <1>6, <1>7 DEF StepOf, GoesOn, Execute

(* An order is what its cycle decided, and its evidence stays linked.      *)
LEMMA GivenStays ==
  ASSUME TypeOK, TracesKept, JournalKept, input' = input, NEW o, Given(o), Stays(o.cycle)
  PROVE  Given(o)'
<1>1. Linked(o.cycle)'
  BY LinkedStays DEF Given, Stays
<1>2. Order(o.cycle)' = Order(o.cycle)
  BY DEF Order, Stays
<1> QED
  BY <1>1, <1>2 DEF Given, Stays

LEMMA GivenStep ==
  ASSUME BoundsOK, TypeOK, NEW c \in Cycles, StepOf(c), Judged(c), Recorded(c),
         \A o \in orders : Given(o)
  PROVE  \A o \in orders' : Given(o)'
<1>1. TracesKept /\ JournalKept
  BY TableStep
<1>2. pc \in [Cycles -> Points]
  BY DEF TypeOK
<1> USE DEF Ended
<1>3. ASSUME NEW o \in orders
      PROVE  Given(o)'
  <2>1. Given(o)
    OBVIOUS
  <2>2. CASE o.cycle # c
    BY <1>1, <2>1, <2>2, GivenStays, OthersStay DEF Given
  <2>3. CASE o.cycle = c
    <3>1. pc[c] \in {"log end"} \union Ended
      BY <2>1, <2>3 DEF Given
    <3>2. /\ pc'[c] \in {"log end"} \union Ended /\ held' = held /\ draft' = draft
          /\ lineage' = lineage /\ input' = input
      BY <1>2, <3>1 DEF StepOf, GoesOn, Execute, Begin, StageRaises, StageReturns, Judge,
         LogAnalysts, LogDebate, LogIc, LogProposal, LogEnd, Checkpoint, CommitLineage,
         CommitFails, DispatchReturns, DispatchRaises, TimePasses, Crash, Stage,
         RouteAnswers, RouteFails, WriteTrace, TraceFails, Waiting, Logging
    <3>3. Linked(c)'
      BY <1>1, <2>1, <2>3, <3>2, LinkedStays DEF Given
    <3>4. Order(c)' = Order(c)
      BY <3>2 DEF Order
    <3> QED
      BY <2>1, <2>3, <3>2, <3>3, <3>4 DEF Given
  <2> QED
    BY <2>2, <2>3
<1>4. CASE orders' = orders
  BY <1>3, <1>4
<1>5. ASSUME orders' = orders \union {Order(c)}, pc[c] = "dispatch",
             pc'[c] \in {"log end"} \union Ended,
             UNCHANGED <<input, held, draft, lineage>>
      PROVE  \A o \in orders' : Given(o)'
  <2>1. Linked(c) /\ draft[c].verdict = "approved"
    BY <1>5 DEF Recorded
  <2>2. Linked(c)'
    BY <1>1, <1>5, <2>1, LinkedStays
  <2>3. Order(c)' = Order(c) /\ Order(c).cycle = c
    BY <1>5 DEF Order
  <2>4. ASSUME NEW o, o = Order(c)
        PROVE  Given(o)'
    <3>1. o.cycle = c /\ o = Order(c)'
      BY <2>3, <2>4
    <3> QED
      BY <1>5, <2>1, <2>2, <3>1 DEF Given
  <2>5. \A o \in orders' : o \in orders \/ o = Order(c)
    BY <1>5
  <2> QED
    BY <1>3, <2>4, <2>5
<1>6. CASE DispatchReturns(c)
  BY <1>2, <1>5, <1>6 DEF DispatchReturns
<1>7. ASSUME NEW out \in BOOLEAN, DispatchRaises(c, out)
      PROVE  \A o \in orders' : Given(o)'
  BY <1>2, <1>4, <1>5, <1>7 DEF DispatchRaises
<1> QED
  BY <1>4, <1>6, <1>7 DEF StepOf, GoesOn, Execute, Begin, StageRaises, StageReturns, Judge,
     LogAnalysts, LogDebate, LogIc, LogProposal, LogEnd, Checkpoint, CommitLineage,
     CommitFails, TimePasses, Crash, Stage, RouteAnswers, RouteFails, WriteTrace, TraceFails

(* No row names a lineage that is not there.                               *)
LEMMA ResolvedStep ==
  ASSUME BoundsOK, TypeOK, NEW c \in Cycles, StepOf(c), Judged(c), Recorded(c), Resolved
  PROVE  Resolved'
<1>1. lineage \in [Cycles -> {None, "noop", "rejected", "approved"}]
  BY DEF TypeOK
<1>2. \A row \in traces \union journal : row.lineage \in Cycles \union {None}
  BY DEF TypeOK, Rows, Checkpoints
<1>3. ASSUME lineage' = lineage,
             \A row \in traces' \union journal' :
               \/ row \in traces \union journal
               \/ row.lineage # None => lineage[row.lineage] # None
      PROVE  Resolved'
  BY <1>3 DEF Resolved
<1>4. ASSUME NEW at \in Logging, Checkpoint(c, at), lineage' = lineage, traces' = traces
      PROVE  Resolved'
  <2>1. PICK row \in journal' : /\ row.lineage = IF at = "log end" THEN c ELSE None
                                /\ journal' = journal \union {row}
    BY <1>4, CheckpointType
  <2>2. at = "log end" => lineage[c] # None
    <3>1. pc[c] = at
      BY <1>4 DEF Checkpoint
    <3> QED
      BY <3>1 DEF Recorded, Judged, Closing
  <2> QED
    BY <1>3, <1>4, <2>1, <2>2
<1>5. CASE CommitLineage(c)
  <2>1. /\ lineage' = [lineage EXCEPT ![c] = draft[c].verdict] /\ draft[c].verdict # None
        /\ traces' = LinkTraces(c) /\ journal' = LinkJournal(c)
    BY <1>5 DEF CommitLineage, Judged, Closing
  <2>2. lineage'[c] # None
    BY <1>1, <2>1
  <2>3. ASSUME NEW old \in Cycles \union {None}, old # None => lineage[old] # None
        PROVE  old # None => lineage'[old] # None
    BY <1>1, <2>1, <2>2, <2>3
  <2>4. ASSUME NEW row \in traces'
        PROVE  row.lineage # None => lineage'[row.lineage] # None
    <3>1. PICK t \in traces : row = [t EXCEPT !.lineage = IF t.cycle = c THEN c ELSE @]
      BY <2>1 DEF LinkTraces
    <3>2. row.lineage = IF t.cycle = c THEN c ELSE t.lineage
      BY <3>1, LinkTracesRow
    <3> QED
      BY <1>2, <2>2, <2>3, <3>2 DEF Resolved
  <2>5. ASSUME NEW row \in journal'
        PROVE  row.lineage # None => lineage'[row.lineage] # None
    <3>1. PICK r \in journal :
            row = [r EXCEPT !.lineage = IF r.workflow = Workflow[c] THEN c ELSE @]
      BY <2>1 DEF LinkJournal
    <3>2. row.lineage = IF r.workflow = Workflow[c] THEN c ELSE r.lineage
      BY <3>1, LinkJournalRow
    <3> QED
      BY <1>2, <2>2, <2>3, <3>2 DEF Resolved
  <2> QED
    BY <2>4, <2>5 DEF Resolved
<1>6. ASSUME NEW s \in Stages, WriteTrace(c, s)
      PROVE  Resolved'
  BY <1>3, <1>6 DEF WriteTrace
<1>7. CASE \/ LogDebate(c) \/ LogIc(c) \/ LogProposal(c) \/ LogEnd(c)
           \/ \E debate \in BOOLEAN : LogAnalysts(c, debate)
  BY <1>4, <1>7 DEF LogAnalysts, LogDebate, LogIc, LogProposal, LogEnd, Logging
<1>8. CASE UNCHANGED <<traces, journal, lineage>>
  BY <1>3, <1>8
<1> QED
  BY <1>5, <1>6, <1>7, <1>8 DEF StepOf, GoesOn, Execute, Begin, StageRaises, StageReturns,
     Judge, CommitFails, DispatchReturns, DispatchRaises, TimePasses, Crash, Stage,
     RouteAnswers, RouteFails, TraceFails

-----------------------------------------------------------------------------
(* The inductive invariant and what follows from it                        *)

LEMMA InvInit ==
  ASSUME BoundsOK, Init
  PROVE  IInv
<1>1. TypeOK
  <2>1. Quiet \in Tasks /\ NoDraft \in Drafts
    BY DEF Quiet, Tasks, NoDraft, Drafts, One, BoundsOK
  <2>2. task \in [Cycles -> [Stages -> Tasks]] /\ draft \in [Cycles -> Drafts]
    BY <2>1 DEF Init
  <2>3. faults \in 0 .. MaxFaults /\ left \in [Cycles -> Levels]
    BY DEF Init, BoundsOK, Levels
  <2> QED
    BY <2>2, <2>3 DEF Init, TypeOK, Points
<1>2. \A c \in Cycles : Evidence(c) /\ Judged(c) /\ Recorded(c)
  BY DEF Init, Evidence, Judged, Recorded, NoDraft, None, AfterAnalysts, FromDebate,
     AfterDebate, FromIc, AfterIc, FromCio, Proposed, FromRisk, Closing
<1>3. \A c \in Cycles, s \in Stages : Finished(c, s)
  BY DEF Init, Finished, Quiet
<1> QED
  BY <1>1, <1>2, <1>3 DEF IInv, Resolved, Init

LEMMA InvStep ==
  ASSUME BoundsOK, IInv, [Next]_vars
  PROVE  IInv'
<1>1. TypeOK'
  <2>1. \A c \in Cycles : pc[c] = "dispatch" => draft[c].action \in {"BUY", "SELL"}
    BY DEF IInv, Recorded, Judged
  <2> QED
    BY <2>1, TypeStep DEF IInv, Judged
<1>2. CASE UNCHANGED vars
  <2>1. TracesKept /\ JournalKept /\ input' = input /\ \A d : Stays(d)
    BY <1>2, TracesGrow, JournalGrows DEF vars, Stays
  <2>2. \A c \in Cycles : Evidence(c)' /\ Judged(c)' /\ Recorded(c)'
    BY <2>1, EvidenceStays, JudgedStays, RecordedStays DEF IInv, Stays
  <2>3. \A c \in Cycles, s \in Stages : Finished(c, s)'
    BY <1>2 DEF vars, IInv, Finished
  <2>4. \A o \in orders : Given(o)'
    BY <2>1, GivenStays DEF IInv
  <2>5. Resolved'
    BY <1>2 DEF vars, IInv, Resolved
  <2> QED
    BY <1>1, <1>2, <2>2, <2>3, <2>4, <2>5 DEF IInv, vars
<1>3. ASSUME NEW c \in Cycles, StepOf(c)
      PROVE  IInv'
  <2>1. TracesKept /\ JournalKept
    BY <1>3, TableStep DEF IInv
  <2>2. ASSUME NEW d \in Cycles
        PROVE  Evidence(d)' /\ Judged(d)' /\ Recorded(d)'
    <3>1. CASE d = c
      <4>1. Finished(c, "risk") /\ \A s \in Stages : Finished(c, s)
        BY DEF IInv, Stages
      <4> QED
        BY <1>3, <3>1, <4>1, EvidenceStep, JudgedStep, RecordedStep DEF IInv
    <3>2. CASE d # c
      <4>1. Stays(d) /\ input' = input
        BY <1>3, <3>2, OthersStay DEF IInv
      <4> QED
        BY <2>1, <4>1, EvidenceStays, JudgedStays, RecordedStays DEF IInv, Stays
    <3> QED
      BY <3>1, <3>2
  <2>3. ASSUME NEW d \in Cycles, NEW s \in Stages
        PROVE  Finished(d, s)'
    <3>1. CASE d = c
      BY <1>3, <3>1, TasksStep DEF IInv
    <3>2. CASE d # c
      <4>1. task'[d] = task[d]
        BY <1>3, <3>2, OthersStay DEF IInv, Stays
      <4> QED
        BY <2>1, <4>1 DEF IInv, Finished, TracesKept
    <3> QED
      BY <3>1, <3>2
  <2>4. \A o \in orders' : Given(o)'
    BY <1>3, GivenStep DEF IInv
  <2>5. Resolved'
    BY <1>3, ResolvedStep DEF IInv
  <2> QED
    BY <1>1, <2>2, <2>3, <2>4, <2>5 DEF IInv
<1> QED
  BY <1>2, <1>3 DEF Next, StepOf

LEMMA InvEvidence ==
  ASSUME BoundsOK, IInv
  PROVE  EvidenceIsWhole
<1>1. ASSUME NEW o \in orders
      PROVE  /\ lineage[o.cycle] = "approved"
             /\ \A s \in Required(o.cycle) :
                  \E t \in traces : /\ t.cycle = o.cycle /\ t.stage = s
                                    /\ t.ok /\ t.lineage = o.cycle
             /\ \A step \in Steps(o.cycle) :
                  \E r \in journal : /\ r.cycle = o.cycle /\ r.step = step
                                     /\ r.lineage # None
                                     /\ Workflow[r.lineage] = Workflow[o.cycle]
  BY DEF IInv, Given, Linked, LinkedTrace, LinkedRow
<1> QED
  BY <1>1 DEF EvidenceIsWhole, IInv, Resolved

LEMMA InvRisk ==
  ASSUME BoundsOK, IInv
  PROVE  OrderWithinRisk
<1> SUFFICES ASSUME NEW o \in orders
             PROVE  /\ WithinRisk(input[o.cycle], o.volume, o.multiplier)
                    /\ \A p \in orders : p.cycle = o.cycle => p = o
  BY DEF OrderWithinRisk, WithinRisk
<1>1. o = Order(o.cycle) /\ o.cycle \in Cycles /\ draft[o.cycle].verdict = "approved"
  BY DEF IInv, Given
<1>2. o.volume = draft[o.cycle].volume /\ o.multiplier = draft[o.cycle].multiplier
  BY <1>1 DEF Order
<1>3. WithinRisk(input[o.cycle], draft[o.cycle].volume, draft[o.cycle].multiplier)
  BY <1>1 DEF IInv, Judged
<1>4. \A p \in orders : p = Order(p.cycle)
  BY DEF IInv, Given
<1> QED
  BY <1>1, <1>2, <1>3, <1>4

LEMMA CycleInvariant ==
  ASSUME BoundsOK
  PROVE  Spec => []IInv
<1>1. Init => IInv
  BY InvInit
<1>2. IInv /\ [Next]_vars => IInv'
  BY InvStep
<1> QED
  BY <1>1, <1>2, PTL DEF Spec

-----------------------------------------------------------------------------
(* Theorems                                                                *)

(* The state of the cycles has its types: a cycle is at a point of         *)
(* execute, a volume is a number of units, a row names its cycle.          *)
THEOREM CycleTypes == Spec => []TypeOK
<1>1. Spec => []IInv
  BY Bounds, CycleInvariant
<1>2. IInv => TypeOK
  BY DEF IInv
<1> QED
  BY <1>1, <1>2, PTL

(* No order without its evidence, whatever fails and whichever cycles of   *)
(* the workflow run beside it: the lineage record, the traces and the      *)
(* checkpoints are committed and linked before the order is out, and no    *)
(* row ever points at a record that is not there.                          *)
THEOREM OrdersHaveEvidence == Spec => []EvidenceIsWhole
<1>1. Spec => []IInv
  BY Bounds, CycleInvariant
<1>2. IInv => EvidenceIsWhole
  BY Bounds, InvEvidence
<1> QED
  BY <1>1, <1>2, PTL

(* An order is within every limit and loses at its stop no more than the   *)
(* risk of a trade scaled by the policy, for every input, limit and policy,*)
(* the rounding of the sizing and the clamp included; and a cycle gives no *)
(* second order.                                                           *)
THEOREM OrdersAreWithinRisk == Spec => []OrderWithinRisk
<1>1. Spec => []IInv
  BY Bounds, CycleInvariant
<1>2. IInv => OrderWithinRisk
  BY Bounds, InvRisk
<1> QED
  BY <1>1, <1>2, PTL
=============================================================================
