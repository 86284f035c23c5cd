--------------------------- MODULE TurnProcesses ---------------------------
(***************************************************************************)
(* Background processes of agent turns that share one conversation (one    *)
(* task_id): a turn claims the conversation by an epoch and snapshots the  *)
(* processes it finds; when its client goes away a reaper thread kills the *)
(* processes that are not in the snapshot, unless a newer turn has claimed *)
(* the conversation since.                                                 *)
(*                                                                         *)
(* The thread of a turn writes three marks on the agent (task_id, baseline *)
(* and epoch) as it begins and clears them as it ends, one by one and      *)
(* without the lock; the event loop reads them one by one.  Which marks    *)
(* the agent carries follows from where the thread is.                     *)
(*                                                                         *)
(* External: process_registry (ids are never used again, the snapshot does *)
(* not raise), and _reap_gateway_turn_processes of the gateway, which asks *)
(* is_still_current, if it was given one, and kills in one step.           *)
(***************************************************************************)
EXTENDS Naturals

CONSTANTS
  MaxTurns,   \* bound: agent turns of the conversation
  Processes,  \* background processes they may start
  Stops       \* occasions to reap: streams that break, stop requests

BoundsOK == MaxTurns \in Nat

Turns == 1..MaxTurns   \* a turn is known by the epoch it takes

VARIABLES
  phase,    \* where the thread of a turn is, named for its last step
  counter,  \* _TURN_PROCESS_EPOCH_COUNTER
  current,  \* _TURN_PROCESS_EPOCHS[task_id], 0 for no entry
  baseline, \* _gateway_turn_process_baseline, once the turn has recorded it
  owner,    \* the turn that started a process, 0 for a process not yet started
  running,  \* the processes that run
  reaper,   \* pc: what the loop has read last, or the thread it started;
            \* turn, kept, gated: the turn, its baseline, whether it had an epoch;
            \* torn (history): the reads mixed with the marks being written
  killed    \* history: by, owner, torn, newest (the owner was the newest and live)

vars == <<phase, counter, current, baseline, owner, running, reaper, killed>>

Phases == {"idle", "claimed", "named", "recorded", "turn",
           "pruned", "unnamed", "emptied", "ended"}

Init ==
  /\ phase = [t \in Turns |-> "idle"]
  /\ counter = 0 /\ current = 0
  /\ baseline = [t \in Turns |-> {}]
  /\ owner = [p \in Processes |-> 0] /\ running = {}
  /\ reaper = [s \in Stops |->
       [pc |-> "none", turn |-> 0, kept |-> {}, gated |-> FALSE, torn |-> FALSE]]
  /\ killed = {}

(* The marks of the agent, as the loop finds them at this moment.          *)
Named(t)       == phase[t] \in {"named", "recorded", "turn", "pruned"}
HasBaseline(t) == phase[t] \notin {"idle", "claimed", "named"}
HasEpoch(t)    == phase[t] \in {"turn", "pruned", "unnamed", "emptied"}

GoesOn(t, from, to) == phase[t] = from /\ phase' = [phase EXCEPT ![t] = to]

(* _publish_turn_process_ownership: the claim, under the lock, then the    *)
(* task_id, the snapshot (and its mark), and the epoch.                    *)
Claim ==
  /\ counter < MaxTurns
  /\ counter' = counter + 1 /\ current' = counter'
  /\ GoesOn(counter', "idle", "claimed")
  /\ UNCHANGED <<baseline, owner, running, reaper, killed>>

Snapshot(t) ==
  /\ GoesOn(t, "named", "recorded")
  /\ baseline' = [baseline EXCEPT ![t] = running]
  /\ UNCHANGED <<counter, current, owner, running, reaper, killed>>

(* The marks that are the same for every turn: named and given its epoch   *)
(* as it begins, its name and its epoch taken away as it ends.             *)
Mark(t) ==
  /\ \/ GoesOn(t, "claimed", "named") \/ GoesOn(t, "recorded", "turn")
     \/ GoesOn(t, "pruned", "unnamed") \/ GoesOn(t, "emptied", "ended")
  /\ UNCHANGED <<counter, current, baseline, owner, running, reaper, killed>>

(* A tool of the turn starts a background process.  (One that ends by      *)
(* itself is one less to kill, and has no step here.)                      *)
Start(t, p) ==
  /\ phase[t] = "turn" /\ owner[p] = 0
  /\ owner' = [owner EXCEPT ![p] = t] /\ running' = running \cup {p}
  /\ UNCHANGED <<phase, counter, current, baseline, reaper, killed>>

(* A bug the mutants use: the entry goes with whichever turn ends.         *)
AnyTurnsEntry(t) == 0

(* The entry after the turn has pruned its own, if it still is its own.    *)
Pruned(t) == IF current = t THEN 0 ELSE current

(* _clear_turn_process_ownership as the turn ends: the entry, under the    *)
(* lock, then the marks: task_id, an empty baseline, no epoch.             *)
Prune(t) ==
  /\ GoesOn(t, "turn", "pruned")
  /\ current' = Pruned(t)
  /\ UNCHANGED <<counter, baseline, owner, running, reaper, killed>>

EmptyBaseline(t) ==
  /\ GoesOn(t, "unnamed", "emptied")
  /\ baseline' = [baseline EXCEPT ![t] = {}]
  /\ UNCHANGED <<counter, current, owner, running, reaper, killed>>

(* The client goes away, the stream is cancelled or the run is stopped:    *)
(* _reap_disconnected_agent_processes reads the marks one after the other  *)
(* and starts the reaper.  Nothing else runs in the loop meanwhile, but    *)
(* the threads of turns do.  Without a task_id it returns at once.         *)
Reading == {s \in Stops : reaper[s].pc \in {"named", "kept"}}

Reads(s, record) ==
  /\ reaper' = [reaper EXCEPT ![s] = record]
  /\ UNCHANGED <<phase, counter, current, baseline, owner, running, killed>>

Abandon(s, t) ==
  /\ reaper[s].pc = "none" /\ Reading = {} /\ Named(t)
  /\ Reads(s, [reaper[s] EXCEPT !.pc = "named", !.turn = t])

ReadBaseline(s) ==
  LET t == reaper[s].turn IN
  /\ reaper[s].pc = "named"
  /\ Reads(s, IF HasBaseline(t) THEN [reaper[s] EXCEPT !.pc = "kept", !.kept = baseline[t]]
                                ELSE [reaper[s] EXCEPT !.pc = "over"])

(* The turn has not marked its epoch yet, or has cleared it again: the     *)
(* marks the loop has read before this moment do not go with its epoch.    *)
Torn(t) == phase[t] \in {"recorded", "ended"}

ReadEpoch(s) ==
  LET t == reaper[s].turn IN
  /\ reaper[s].pc = "kept"
  /\ Reads(s, [reaper[s] EXCEPT !.pc = "reaps", !.gated = HasEpoch(t), !.torn = Torn(t)])

(* _epoch_still_current: no entry, or its own.                             *)
StillCurrent(t) == current \in {0, t}

(* The newest claimant while its turn runs.                                *)
NewestLive(t) == t = counter /\ phase[t] = "turn"

(* What the reaper kills: nothing if it has an epoch that is not current;  *)
(* without an epoch there is no is_still_current to ask.                   *)
Doomed(r) == IF r.gated /\ ~StillCurrent(r.turn) THEN {} ELSE running \ r.kept

(* The reaper thread goes by what the loop has read.                       *)
Reap(s) ==
  LET r == reaper[s] IN
  /\ r.pc = "reaps"
  /\ reaper' = [reaper EXCEPT ![s].pc = "over"]
  /\ running' = running \ Doomed(r)
  /\ killed' = killed \cup
       {[by |-> r.turn, owner |-> owner[p], torn |-> r.torn, newest |-> NewestLive(owner[p])] :
          p \in Doomed(r)}
  /\ UNCHANGED <<phase, counter, current, baseline, owner>>

Next ==
  \/ Claim
  \/ \E t \in Turns :
       \/ Mark(t) \/ Snapshot(t) \/ Prune(t) \/ EmptyBaseline(t)
       \/ \E p \in Processes : Start(t, p)
       \/ \E s \in Stops : Abandon(s, t)
  \/ \E s \in Stops : ReadBaseline(s) \/ ReadEpoch(s) \/ Reap(s)

Spec == Init /\ [][Next]_vars

-----------------------------------------------------------------------------
(* Properties *)

(* The components have their types; a victim had been started by a turn.   *)
TypeOK ==
  /\ phase \in [Turns -> Phases]
  /\ counter \in Nat /\ current \in Nat
  /\ baseline \in [Turns -> SUBSET Processes]
  /\ owner \in [Processes -> {0} \cup Turns]
  /\ running \subseteq Processes /\ \A p \in running : owner[p] \in Turns
  /\ reaper \in [Stops -> [pc : {"none", "named", "kept", "reaps", "over"},
                           turn : {0} \cup Turns, kept : SUBSET Processes,
                           gated : BOOLEAN, torn : BOOLEAN]]
  /\ killed \subseteq [by : Turns, owner : Turns, torn : BOOLEAN, newest : BOOLEAN]

(* However late the reaper of an abandoned turn runs, and in whatever      *)
(* order the turns of the conversation end and prune, it kills no process  *)
(* of the turn that claimed the conversation last, while that turn runs.   *)
(* The exception is a torn read: the loop had read the baseline of a turn  *)
(* that had not marked its epoch yet, or found the epoch of a turn cleared *)
(* after it had read the task_id.  No epoch gates that reaper, and it does *)
(* kill what the newest turn has started.  (An older turn that still runs  *)
(* is not spared once the newest has ended, nor are the processes an ended *)
(* turn left behind on purpose.)                                           *)
ReapSparesNewest == \A k \in killed : k.by = k.owner \/ ~k.newest \/ k.torn
=============================================================================
