--------------------------- MODULE MCOrders_proofs ---------------------------
(***************************************************************************)
(* Safety of the position snapshots and of the bars, stated of the         *)
(* instances the run of MCOrders checks and proved for every value of      *)
(* their constants.                                                        *)
(*                                                                         *)
(* Positions: the worker only ever reads the newest snapshot.  As long as  *)
(* no delayed one has been pushed over a younger one, that snapshot cannot *)
(* hold a ticket the broker has not used yet, nor one whose row is closed, *)
(* and what the worker is about to close is no longer in the account.      *)
(*                                                                         *)
(* Bars: a minute's ticks are in its row, in the bar under way or in the   *)
(* flush, and in one of them only, because a flush works on a past minute, *)
(* of which no tick comes any more.                                        *)
(***************************************************************************)
EXTENDS MCOrders, OrderLifecycle_proofs

-----------------------------------------------------------------------------
(* Positions                                                               *)

Newest == IF list = <<>> THEN {} ELSE Head(list)

(* What the snapshots may say of a ticket whose row is not there, closed,  *)
(* or open.                                                                *)
UnopenedUnseen(t) ==
  t \in unopened => position[t] = "none" /\ t \notin Newest \cup sync.snapshot

ClosedIsGone(t) ==
  position[t] = "closed" =>
    /\ t \notin account \cup Newest
    /\ sync.pc = "upsert" => t \notin sync.snapshot

ClosingIsGone(t) ==
  position[t] = "open" =>
    /\ sync.pc = "upsert" /\ t \notin sync.snapshot => t \notin account \cup Newest
    /\ list # <<>> /\ t \notin Newest => t \notin account

SeenIsGone(t) ==
  sync.pc = "upsert" /\ t \in sync.snapshot /\ list # <<>> /\ t \notin Newest =>
    t \notin account

Coherent(t) == UnopenedUnseen(t) /\ ClosedIsGone(t) /\ ClosingIsGone(t) /\ SeenIsGone(t)

SyncInv == Sync!TypeOK /\ (swapped \/ \A t \in Tickets : Coherent(t))

-----------------------------------------------------------------------------

LEMMA SyncSpends ==
  ASSUME Sync!BoundsOK, Sync!TypeOK, NEW what \in {"faults", "crashes"}, Sync!Spend(what)
  PROVE  syncBudget' \in [faults : 0..MaxSyncFaults, crashes : 0..MaxSyncCrashes]
<1>1. /\ syncBudget.faults \in 0..MaxSyncFaults /\ syncBudget.crashes \in 0..MaxSyncCrashes
      /\ syncBudget = [faults |-> syncBudget.faults, crashes |-> syncBudget.crashes]
  BY DEF Sync!TypeOK
<1>2. CASE what = "faults"
  BY <1>1, <1>2 DEF Sync!Spend, Sync!BoundsOK
<1>3. CASE what = "crashes"
  BY <1>1, <1>3 DEF Sync!Spend, Sync!BoundsOK
<1> QED
  BY <1>2, <1>3

(* A snapshot pushed onto the list is the newest.                          *)
LEMMA Pushed ==
  ASSUME Sync!TypeOK, NEW s \in Sync!Snapshots, Len(list) < MaxList, Sync!BoundsOK,
         list' = <<s>> \o list
  PROVE  /\ list' \in Seq(Sync!Snapshots) /\ Len(list') <= MaxList
         /\ list' # <<>> /\ Newest' = s
<1>1. list \in Seq(Sync!Snapshots) /\ <<s>> \in Seq(Sync!Snapshots)
  BY DEF Sync!TypeOK
<1>2. Len(list') = 1 + Len(list) /\ list'[1] = s /\ list' \in Seq(Sync!Snapshots)
  BY <1>1
<1> QED
  BY <1>1, <1>2 DEF Newest, Sync!BoundsOK

LEMMA NewestType ==
  ASSUME Sync!TypeOK
  PROVE  Newest \in Sync!Snapshots
<1>1. list \in Seq(Sync!Snapshots)
  BY DEF Sync!TypeOK
<1> QED
  BY <1>1 DEF Newest, Sync!Snapshots

-----------------------------------------------------------------------------
(* Type correctness *)

LEMMA SyncTypes ==
  ASSUME Sync!BoundsOK, Sync!TypeOK, [Sync!Next]_(Sync!vars)
  PROVE  Sync!TypeOK'
<1> USE DEF Sync!Snapshots
<1>1. CASE UNCHANGED Sync!vars
  BY <1>1 DEF Sync!vars, Sync!TypeOK
<1>2. ASSUME NEW t \in Tickets, Sync!BrokerOpens(t)
      PROVE  Sync!TypeOK'
  BY <1>2 DEF Sync!BrokerOpens, Sync!TypeOK
<1>3. ASSUME NEW t \in Tickets, Sync!BrokerCloses(t)
      PROVE  Sync!TypeOK'
  BY <1>3 DEF Sync!BrokerCloses, Sync!TypeOK
<1>4. CASE Sync!SendSnapshot
  <2>1. account \in Sync!Snapshots
    BY DEF Sync!TypeOK
  <2>2. list' \in Seq(Sync!Snapshots) /\ Len(list') <= MaxList
    BY <1>4, <2>1, Pushed DEF Sync!SendSnapshot
  <2> QED
    BY <1>4, <2>2 DEF Sync!SendSnapshot, Sync!TypeOK
<1>5. CASE Sync!SnapshotTimesOut
  <2>1. syncBudget' \in [faults : 0..MaxSyncFaults, crashes : 0..MaxSyncCrashes]
    BY <1>5, SyncSpends DEF Sync!SnapshotTimesOut
  <2> QED
    BY <1>5, <2>1 DEF Sync!SnapshotTimesOut, Sync!TypeOK
<1>6. ASSUME NEW s \in delayed, Sync!DelayedArrives(s)
      PROVE  Sync!TypeOK'
  <2>1. s \in Sync!Snapshots
    BY DEF Sync!TypeOK
  <2>2. list' \in Seq(Sync!Snapshots) /\ Len(list') <= MaxList
    BY <1>6, <2>1, Pushed DEF Sync!DelayedArrives
  <2> QED
    BY <1>6, <2>2 DEF Sync!DelayedArrives, Sync!TypeOK
<1>7. CASE Sync!Read
  <2>1. Head(list) \in Sync!Snapshots
    BY <1>7, NewestType DEF Sync!Read, Newest
  <2> QED
    BY <1>7, <2>1 DEF Sync!Read, Sync!At, Sync!TypeOK
<1>8. CASE Sync!Upsert
  BY <1>8 DEF Sync!Upsert, Sync!TypeOK
<1>9. CASE Sync!Delete
  BY <1>9 DEF Sync!Delete, Sync!At, Sync!TypeOK, Sync!BoundsOK
<1>10. CASE Sync!CycleFails
  <2>1. syncBudget' \in [faults : 0..MaxSyncFaults, crashes : 0..MaxSyncCrashes]
    BY <1>10, SyncSpends DEF Sync!CycleFails
  <2> QED
    BY <1>10, <2>1 DEF Sync!CycleFails, Sync!At, Sync!TypeOK
<1>11. CASE Sync!Crash
  <2>1. syncBudget' \in [faults : 0..MaxSyncFaults, crashes : 0..MaxSyncCrashes]
    BY <1>11, SyncSpends DEF Sync!Crash
  <2> QED
    BY <1>11, <2>1 DEF Sync!Crash, Sync!At, Sync!TypeOK
<1> QED
  BY <1>1, <1>2, <1>3, <1>4, <1>5, <1>6, <1>7, <1>8, <1>9, <1>10, <1>11 DEF Sync!Next, Sync!Worker

LEMMA SyncInit ==
  ASSUME Sync!BoundsOK, Sync!Init
  PROVE  SyncInv
<1>1. /\ account = {} /\ unopened = Tickets /\ list = <<>> /\ Newest = {}
      /\ sync = [pc |-> "idle", snapshot |-> {}]
      /\ position = [t \in Tickets |-> "none"]
  BY DEF Sync!Init, Sync!At, Newest
<1>2. Sync!TypeOK
  <2>1. list \in Seq(Sync!Snapshots) /\ Len(list) <= MaxList
    BY <1>1, EmptySeq DEF Sync!BoundsOK
  <2>2. syncBudget \in [faults : 0..MaxSyncFaults, crashes : 0..MaxSyncCrashes]
    BY DEF Sync!Init, Sync!BoundsOK
  <2>3. sync \in [pc : {"idle", "upsert", "delete"}, snapshot : Sync!Snapshots]
    BY <1>1 DEF Sync!Snapshots
  <2>4. position \in [Tickets -> {"none", "open", "closed"}]
    BY <1>1
  <2> QED
    BY <1>1, <2>1, <2>2, <2>3, <2>4 DEF Sync!Init, Sync!TypeOK
<1>3. ASSUME NEW t \in Tickets
      PROVE  Coherent(t)
  BY <1>1 DEF Coherent, UnopenedUnseen, ClosedIsGone, ClosingIsGone, SeenIsGone
<1> QED
  BY <1>2, <1>3 DEF SyncInv

-----------------------------------------------------------------------------
(* The invariant of a ticket *)

LEMMA CoherentStep ==
  ASSUME Sync!BoundsOK, Sync!TypeOK, [Sync!Next]_(Sync!vars), NEW t \in Tickets,
         Coherent(t), ~swapped'
  PROVE  Coherent(t)'
<1> USE DEF Coherent, UnopenedUnseen, ClosedIsGone, ClosingIsGone, SeenIsGone
<1>t. /\ position \in [Tickets -> {"none", "open", "closed"}]
      /\ sync \in [pc : {"idle", "upsert", "delete"}, snapshot : Sync!Snapshots]
      /\ unopened \cap account = {}
  BY DEF Sync!TypeOK
<1>1. CASE UNCHANGED Sync!vars
  BY <1>1 DEF Sync!vars, Newest
<1>2. ASSUME NEW u \in Tickets, Sync!BrokerOpens(u)
      PROVE  Coherent(t)'
  BY <1>2, <1>t DEF Sync!BrokerOpens, Newest
<1>3. ASSUME NEW u \in Tickets, Sync!BrokerCloses(u)
      PROVE  Coherent(t)'
  BY <1>3, <1>t DEF Sync!BrokerCloses, Newest
<1>4. CASE Sync!SendSnapshot
  <2>1. account \in Sync!Snapshots
    BY DEF Sync!TypeOK, Sync!Snapshots
  <2>2. list' # <<>> /\ Newest' = account
    BY <1>4, <2>1, Pushed DEF Sync!SendSnapshot
  <2> QED
    BY <1>4, <2>2, <1>t DEF Sync!SendSnapshot
<1>5. CASE Sync!SnapshotTimesOut
  BY <1>5 DEF Sync!SnapshotTimesOut, Newest
<1>6. ASSUME NEW s \in delayed, Sync!DelayedArrives(s)
      PROVE  Coherent(t)'
  BY <1>6 DEF Sync!DelayedArrives
<1>7. CASE Sync!Read
  <2>1. /\ Newest' = Newest /\ sync'.snapshot = Newest
        /\ sync'.pc \in {"upsert", "delete"}
        /\ UNCHANGED <<account, unopened, list, position>>
    BY <1>7 DEF Sync!Read, Sync!At, Newest
  <2> QED
    BY <1>7, <2>1, <1>t DEF Sync!Read
<1>8. CASE Sync!Upsert
  <2>1. /\ sync'.pc = "delete" /\ sync'.snapshot = sync.snapshot /\ Newest' = Newest
        /\ position'[t] = IF t \in sync.snapshot THEN "open"
                          ELSE IF position[t] = "open" THEN "closed" ELSE position[t]
        /\ UNCHANGED <<account, unopened, list>>
    BY <1>8, <1>t DEF Sync!Upsert, Newest
  <2> QED
    BY <1>8, <2>1, <1>t DEF Sync!Upsert
<1>9. CASE Sync!Delete
  <2>1. /\ sync'.pc = "idle" /\ sync'.snapshot = {} /\ Newest' = {} /\ list' = <<>>
        /\ UNCHANGED <<account, unopened, position>>
    BY <1>9 DEF Sync!Delete, Sync!At, Newest
  <2> QED
    BY <2>1, <1>t
<1>10. CASE Sync!CycleFails \/ Sync!Crash
  <2>1. /\ sync'.pc = "idle" /\ sync'.snapshot = {} /\ Newest' = Newest
        /\ UNCHANGED <<account, unopened, list, position>>
    BY <1>10 DEF Sync!CycleFails, Sync!Crash, Sync!At, Newest
  <2> QED
    BY <2>1, <1>t
<1> QED
  BY <1>1, <1>2, <1>3, <1>4, <1>5, <1>6, <1>7, <1>8, <1>9, <1>10 DEF Sync!Next, Sync!Worker

(* A delayed snapshot that has overtaken a younger one stays recorded.     *)
LEMMA SwappedStays ==
  ASSUME [Sync!Next]_(Sync!vars), swapped
  PROVE  swapped'
BY DEF Sync!Next, Sync!Worker, Sync!BrokerOpens, Sync!BrokerCloses, Sync!SendSnapshot,
   Sync!SnapshotTimesOut,
       Sync!DelayedArrives, Sync!Read, Sync!Upsert, Sync!Delete,
       Sync!CycleFails, Sync!Crash, Sync!vars

LEMMA SyncStep ==
  ASSUME Sync!BoundsOK, SyncInv, [Sync!Next]_(Sync!vars)
  PROVE  SyncInv'
<1>1. Sync!TypeOK'
  BY SyncTypes DEF SyncInv
<1>2. ASSUME ~swapped', NEW t \in Tickets
      PROVE  Coherent(t)'
  BY <1>2, SwappedStays, CoherentStep DEF SyncInv
<1>3. swapped' \in BOOLEAN
  BY <1>1 DEF Sync!TypeOK
<1> QED
  BY <1>1, <1>2, <1>3 DEF SyncInv

-----------------------------------------------------------------------------
(* Bars                                                                    *)

(* A bar under way and the row of its minute together hold no tick that    *)
(* was not heard.                                                          *)
Counted(bar) == bar.minute \in Bar!Minutes => rows[bar.minute].live + bar.ticks <= heard[bar.minute]

(* The flush works on a past minute, of which no other bar is under way    *)
(* once it has popped; what it read of the row, and what it will write,    *)
(* still stand when it commits.                                            *)
Flushing ==
  /\ flush.pc # "sleep" =>
       /\ flush.bar.minute \in Bar!Minutes /\ now - 2 * flush.bar.minute >= 3
       /\ Counted(flush.bar)
  /\ flush.pc \in {"merge", "commit"} =>
       /\ builder.minute # flush.bar.minute
       /\ flush.seen.live = rows[flush.bar.minute].live
  /\ flush.pc = "commit" =>
       \A b \in Bar!Buckets, m \in Bar!Minutes : flush.fives[b].live[m] <= Bar!WithMerged[m].live

BarsInv ==
  /\ Bar!TypeOK
  /\ builder = Bar!NoBar \/ builder.minute \in Bar!Minutes
  /\ Bar!TickCountedOnce /\ Bar!FiveRestsOnMinutes
  /\ Counted(builder) /\ Flushing

LEMMA MinutesType ==
  ASSUME Bar!BoundsOK, Bar!TypeOK
  PROVE  Bar!ThisMinute \in Bar!Minutes /\ Bar!Minutes \subseteq Nat /\ now \in Nat
         /\ now < 2 * Bar!ThisMinute + 2
<1>1. LastSlot \in Nat /\ now \in 0..LastSlot
  BY DEF Bar!BoundsOK, Bar!TypeOK
<1> QED
  BY <1>1 DEF Bar!ThisMinute, Bar!Minutes

LEMMA EmptyTypes ==
  ASSUME Bar!BoundsOK
  PROVE  /\ Bar!NoBar \in Bar!Running /\ Bar!NoBar.minute = -1 /\ -1 \notin Bar!Minutes
         /\ Bar!NoRow \in Bar!Rows /\ Bar!NoRow.live = 0
         /\ [b \in Bar!Buckets |-> Bar!NoFive] \in Bar!Fives
         /\ \A m \in Bar!Minutes : Bar!NoFive.live[m] = 0
BY DEF Bar!NoBar, Bar!Running, Bar!NoRow, Bar!Rows, Bar!NoFive, Bar!Fives, Bar!BoundsOK, Bar!Minutes


Flushes == [pc : {"sleep", "select", "merge", "commit"}, bar : Bar!Running, seen : Bar!Rows,
            fives : Bar!Fives]

LEMMA AsleepType ==
  ASSUME Bar!BoundsOK
  PROVE  Bar!Asleep \in Flushes /\ Bar!Asleep.pc = "sleep"
BY EmptyTypes DEF Bar!Asleep, Flushes

(* What the query over bars_1m returns.                                    *)
LEMMA AggregatedType ==
  ASSUME Bar!BoundsOK, NEW table \in [Bar!Minutes -> Bar!Rows]
  PROVE  /\ Bar!Aggregated(table) \in Bar!Fives
         /\ \A b \in Bar!Buckets, m \in Bar!Minutes :
              Bar!Aggregated(table)[b].live[m] <= table[m].live
<1>1. \A m \in Bar!Minutes : table[m].live \in Nat
  BY DEF Bar!Rows
<1> DEFINE part(b) == [m \in Bar!Minutes |-> IF m \div Bucket = b THEN table[m].live ELSE 0]
           made(b) == \E m \in Bar!Minutes : m \div Bucket = b /\ table[m] # Bar!NoRow
<1>2. ASSUME NEW b
      PROVE  /\ part(b) \in [Bar!Minutes -> Nat] /\ made(b) \in BOOLEAN
             /\ \A m \in Bar!Minutes : part(b)[m] <= table[m].live
  BY <1>1
<1>3. Bar!Aggregated(table) = [b \in Bar!Buckets |-> [made |-> made(b), live |-> part(b)]]
  BY DEF Bar!Aggregated
<1> HIDE DEF part, made
<1>4. Bar!Aggregated(table) \in Bar!Fives
  BY <1>2, <1>3 DEF Bar!Fives
<1> QED
  BY <1>2, <1>3, <1>4

(* The row the flush writes.                                               *)
LEMMA MergedType ==
  ASSUME rows \in [Bar!Minutes -> Bar!Rows], flush.bar.minute \in Bar!Minutes,
         flush.seen \in Bar!Rows, flush.bar \in Bar!Running
  PROVE  /\ Bar!WithMerged \in [Bar!Minutes -> Bar!Rows]
         /\ Bar!WithMerged[flush.bar.minute].live = flush.seen.live + flush.bar.ticks
         /\ \A m \in Bar!Minutes \ {flush.bar.minute} : Bar!WithMerged[m] = rows[m]
<1>1. flush.seen.live \in Nat /\ flush.bar.ticks \in Nat
      /\ flush.seen.source \in {"none", "mt5", "mt5-live"}
  BY DEF Bar!Rows, Bar!Running
<1>2. flush.seen.live + flush.bar.ticks \in Nat
  BY <1>1
<1>3. Bar!Merged \in Bar!Rows /\ Bar!Merged.live = flush.seen.live + flush.bar.ticks
  BY <1>1, <1>2 DEF Bar!Merged, Bar!Rows
<1> HIDE DEF Bar!Rows
<1> QED
  BY <1>3 DEF Bar!WithMerged


(* What a step that leaves the rows alone must still show.                 *)
LEMMA RowsStay ==
  ASSUME Bar!BoundsOK, BarsInv, Bar!TypeOK', rows' = rows, heard' = heard,
         now \in Nat, now' \in Nat, now <= now', builder' \in {builder, Bar!NoBar}, flush' \in {flush, Bar!Asleep},
         \A b \in Bar!Buckets, m \in Bar!Minutes : fives'[b].live[m] <= rows[m].live
  PROVE  BarsInv'
<1>1. Bar!TickCountedOnce' /\ Bar!FiveRestsOnMinutes'
  BY DEF BarsInv, Bar!TickCountedOnce, Bar!FiveRestsOnMinutes
<1>2. builder' = Bar!NoBar \/ builder'.minute \in Bar!Minutes
  BY DEF BarsInv
<1>3. Counted(builder)'
  BY EmptyTypes DEF BarsInv, Counted
<1>4. Flushing'
  <2>1. CASE flush' = Bar!Asleep
    BY <2>1, AsleepType DEF Flushing
  <2>2. CASE flush' = flush
    <3>1. flush.pc \in {"merge", "commit"} => builder'.minute # flush.bar.minute
      <4>1. flush.pc \in {"merge", "commit"} => flush.bar.minute \in Bar!Minutes
        BY DEF BarsInv, Flushing
      <4>2. flush.pc \in {"merge", "commit"} => builder.minute # flush.bar.minute
        BY DEF BarsInv, Flushing
      <4> QED
        BY <4>1, <4>2, EmptyTypes
    <3>2. flush.pc # "sleep" => now' - 2 * flush.bar.minute >= 3
      <4>1. flush.pc # "sleep" => flush.bar.minute \in Nat /\ now - 2 * flush.bar.minute >= 3
        BY MinutesType DEF BarsInv, Flushing
      <4> QED
        BY <4>1
    <3> QED
      BY <2>2, <3>1, <3>2 DEF BarsInv, Flushing, Counted, Bar!WithMerged, Bar!Merged
  <2> QED
    BY <2>1, <2>2
<1> QED
  BY <1>1, <1>2, <1>3, <1>4 DEF BarsInv

(* A tick belongs to the running minute, which no flush works on.          *)
LEMMA TickStep ==
  ASSUME Bar!BoundsOK, BarsInv, Bar!HearTick
  PROVE  BarsInv'
<1> DEFINE t == Bar!ThisMinute
<1>1. /\ t \in Bar!Minutes /\ Bar!Minutes \subseteq Nat /\ now \in Nat /\ now < 2 * t + 2
      /\ heard \in [Bar!Minutes -> 0..MaxHeard] /\ rows \in [Bar!Minutes -> Bar!Rows]
      /\ builder \in Bar!Running
  BY MinutesType DEF BarsInv, Bar!TypeOK
<1>2. /\ heard[t] < MaxHeard /\ heard' = [heard EXCEPT ![t] = @ + 1] /\ MaxHeard \in Nat
      /\ builder' = Bar!BarWith(builder)
      /\ UNCHANGED <<now, flush, rows, fives, seed, seeds, faults>>
  BY DEF Bar!HearTick, Bar!BoundsOK
<1> HIDE DEF t
<1>3. /\ heard' \in [Bar!Minutes -> 0..MaxHeard]
      /\ heard'[t] = heard[t] + 1 /\ \A m \in Bar!Minutes \ {t} : heard'[m] = heard[m]
      /\ \A m \in Bar!Minutes : heard[m] \in Nat /\ heard'[m] \in Nat /\ rows[m].live \in Nat
  BY <1>1, <1>2 DEF Bar!Rows
<1>4. /\ builder' \in Bar!Running /\ builder'.minute = t
      /\ builder'.ticks = 1 \/ (builder.minute = t /\ builder'.ticks = builder.ticks + 1)
  BY <1>1, <1>2 DEF Bar!BarWith, Bar!Running, t
<1>5. Bar!TypeOK'
  BY <1>2, <1>3, <1>4 DEF BarsInv, Bar!TypeOK
<1>6. Bar!TickCountedOnce'
  BY <1>1, <1>2, <1>3 DEF BarsInv, Bar!TickCountedOnce
<1>7. Bar!FiveRestsOnMinutes'
  BY <1>2 DEF BarsInv, Bar!FiveRestsOnMinutes
<1>8. Counted(builder)'
  <2>1. rows[t].live <= heard[t]
    BY <1>1 DEF BarsInv, Bar!TickCountedOnce
  <2>2. builder.minute = t => rows[t].live + builder.ticks <= heard[t] /\ builder.ticks \in Nat
    BY <1>1 DEF BarsInv, Counted, Bar!Running
  <2>3. rows[t].live + builder'.ticks <= heard'[t]
    BY <1>1, <1>3, <1>4, <2>1, <2>2
  <2> QED
    BY <1>2, <1>4, <2>3 DEF Counted
<1>9. Flushing'
  <2>1. flush.pc # "sleep" => /\ flush.bar.minute \in Bar!Minutes /\ flush.bar.minute # t
                              /\ now - 2 * flush.bar.minute >= 3
    BY <1>1 DEF BarsInv, Flushing
  <2> QED
    BY <1>2, <1>3, <1>4, <2>1 DEF BarsInv, Flushing, Counted, Bar!WithMerged, Bar!Merged
<1> QED
  BY <1>1, <1>4, <1>5, <1>6, <1>7, <1>8, <1>9 DEF BarsInv

LEMMA BarsKeep ==
  ASSUME Bar!BoundsOK, BarsInv, [Bar!Next]_(Bar!vars)
  PROVE  BarsInv'
<1>1. /\ Bar!TypeOK /\ Bar!TickCountedOnce /\ Bar!FiveRestsOnMinutes /\ Flushing
      /\ now \in Nat /\ flush \in Flushes /\ rows \in [Bar!Minutes -> Bar!Rows]
      /\ fives \in Bar!Fives /\ builder \in Bar!Running
  BY MinutesType DEF BarsInv, Bar!TypeOK, Flushes
<1>2. \A m \in Bar!Minutes : rows[m].live \in Nat
  BY <1>1 DEF Bar!Rows
<1>3. CASE UNCHANGED Bar!vars
  <2>1. Bar!TypeOK'
    BY <1>1, <1>3 DEF Bar!vars, Bar!TypeOK
  <2> QED
    BY <1>1, <1>3, <2>1, RowsStay DEF Bar!vars, Bar!FiveRestsOnMinutes
<1>4. CASE Bar!TimePasses
  <2>1. Bar!TypeOK'
    BY <1>1, <1>4 DEF Bar!TimePasses, Bar!TypeOK, Bar!BoundsOK
  <2> QED
    BY <1>1, <1>4, <2>1, RowsStay DEF Bar!TimePasses, Bar!FiveRestsOnMinutes
<1>5. CASE Bar!HearTick
  BY <1>5, TickStep
<1>6. CASE Bar!Wake
  <2>1. /\ builder.minute \in Bar!Minutes /\ now - 2 * builder.minute >= 3 /\ Counted(builder)
    BY <1>6 DEF Bar!Wake, Bar!Ready, BarsInv
  <2>2. /\ flush' \in Flushes /\ flush'.pc = "select" /\ flush'.bar = builder
    BY <1>1, <1>6 DEF Bar!Wake, Flushes
  <2>3. Bar!TypeOK'
    BY <1>1, <1>6, <2>2 DEF Bar!Wake, Bar!TypeOK, Flushes
  <2>4. Flushing'
    BY <1>6, <2>1, <2>2 DEF Bar!Wake, Flushing, Counted
  <2> QED
    BY <1>6, <2>3, <2>4 DEF Bar!Wake, BarsInv, Bar!TickCountedOnce, Bar!FiveRestsOnMinutes, Counted
<1>7. CASE Bar!SelectRow
  <2>1. flush.pc = "select" /\ flush.bar.minute \in Bar!Minutes
    BY <1>1, <1>7 DEF Bar!SelectRow, Flushing
  <2>2. /\ flush' \in Flushes /\ flush'.pc = "merge" /\ flush'.bar = flush.bar
        /\ flush'.seen = rows[flush.bar.minute]
    <3> DEFINE stored == rows[flush.bar.minute]
    <3>1. stored \in Bar!Rows /\ flush' = [flush EXCEPT !.pc = "merge", !.seen = stored]
      BY <1>1, <1>7, <2>1 DEF Bar!SelectRow
    <3> HIDE DEF stored
    <3>2. /\ flush' \in Flushes /\ flush'.pc = "merge"
          /\ flush'.bar = flush.bar /\ flush'.seen = stored
      BY <1>1, <3>1 DEF Flushes
    <3> QED
      BY <3>2 DEF stored
  <2>3. Bar!TypeOK'
    BY <1>1, <1>7, <2>2, EmptyTypes DEF Bar!SelectRow, Bar!TypeOK, Flushes
  <2>4. Flushing'
    BY <1>1, <1>7, <2>1, <2>2, EmptyTypes DEF Bar!SelectRow, Flushing, Counted
  <2> QED
    BY <1>7, <2>3, <2>4, EmptyTypes
       DEF Bar!SelectRow, BarsInv, Bar!TickCountedOnce, Bar!FiveRestsOnMinutes, Counted
<1>8. CASE Bar!Aggregate
  <2>1. /\ flush.pc = "merge" /\ flush.bar.minute \in Bar!Minutes
        /\ flush.seen \in Bar!Rows /\ flush.bar \in Bar!Running
    BY <1>1, <1>8 DEF Bar!Aggregate, Flushing, Flushes
  <2>2. Bar!WithMerged \in [Bar!Minutes -> Bar!Rows]
    BY <1>1, <2>1, MergedType
  <2>3. /\ flush' \in Flushes /\ flush'.pc = "commit" /\ flush'.bar = flush.bar
        /\ flush'.seen = flush.seen /\ flush'.fives = Bar!Aggregated(Bar!WithMerged)
    <3> DEFINE new == Bar!Aggregated(Bar!WithMerged)
    <3>1. new \in Bar!Fives /\ flush' = [flush EXCEPT !.pc = "commit", !.fives = new]
      BY <1>8, <2>2, AggregatedType DEF Bar!Aggregate
    <3> HIDE DEF new
    <3>2. /\ flush' \in Flushes /\ flush'.pc = "commit" /\ flush'.bar = flush.bar
          /\ flush'.seen = flush.seen /\ flush'.fives = new
      BY <1>1, <3>1 DEF Flushes
    <3> QED
      BY <3>2 DEF new
  <2>4. Bar!TypeOK'
    BY <1>1, <1>8, <2>3 DEF Bar!Aggregate, Bar!TypeOK, Flushes
  <2>5. Bar!WithMerged' = Bar!WithMerged
    BY <1>8, <2>3 DEF Bar!Aggregate, Bar!WithMerged, Bar!Merged
  <2>6. Flushing'
    BY <1>1, <1>8, <2>1, <2>2, <2>3, <2>5, AggregatedType DEF Bar!Aggregate, Flushing, Counted
  <2> QED
    BY <1>8, <2>4, <2>6 DEF Bar!Aggregate, BarsInv, Bar!TickCountedOnce,
       Bar!FiveRestsOnMinutes, Counted
<1>9. CASE Bar!CommitFlush
  <2> DEFINE at == flush.bar.minute
  <2>1. /\ flush.pc = "commit" /\ at \in Bar!Minutes /\ builder.minute # at
        /\ flush.seen \in Bar!Rows /\ flush.bar \in Bar!Running /\ flush.fives \in Bar!Fives
        /\ flush.seen.live = rows[at].live /\ rows[at].live + flush.bar.ticks <= heard[at]
    BY <1>1, <1>9 DEF Bar!CommitFlush, Flushing, Flushes, Counted
  <2>2. /\ rows' \in [Bar!Minutes -> Bar!Rows] /\ rows' = Bar!WithMerged
        /\ rows'[at].live = rows[at].live + flush.bar.ticks
        /\ \A m \in Bar!Minutes \ {at} : rows'[m] = rows[m]
    BY <1>1, <1>9, <2>1, MergedType DEF Bar!CommitFlush
  <2>3. /\ heard' = heard /\ builder' = builder /\ flush' = Bar!Asleep
        /\ fives' = [b \in Bar!Buckets |-> IF fives[b].made THEN fives[b] ELSE flush.fives[b]]
        /\ UNCHANGED <<now, seed, seeds, faults>>
    BY <1>9 DEF Bar!CommitFlush
  <2> HIDE DEF at
  <2>4. flush.bar.ticks \in Nat /\ \A m \in Bar!Minutes : rows[m].live <= rows'[m].live
    BY <1>2, <2>1, <2>2 DEF Bar!Running
  <2>5. fives' \in Bar!Fives
    BY <1>1, <2>1, <2>3 DEF Bar!Fives
  <2>6. Bar!TypeOK'
    BY <1>1, <2>2, <2>3, <2>5, AsleepType DEF Bar!TypeOK, Flushes
  <2>7. Bar!TickCountedOnce'
    BY <1>1, <2>1, <2>2, <2>3 DEF Bar!TickCountedOnce
  <2>8. Bar!FiveRestsOnMinutes'
    <3>1. ASSUME NEW b \in Bar!Buckets, NEW m \in Bar!Minutes
          PROVE  fives'[b].live[m] <= rows'[m].live
      <4>1. CASE fives[b].made
        <5>1. fives[b].live[m] <= rows[m].live /\ fives[b].live[m] \in Nat
          BY <1>1 DEF Bar!FiveRestsOnMinutes, Bar!Fives
        <5>2. fives'[b].live[m] = fives[b].live[m] /\ rows'[m].live \in Nat
          BY <2>2, <2>3, <4>1 DEF Bar!Rows
        <5> QED
          BY <1>2, <2>4, <5>1, <5>2
      <4>2. CASE ~fives[b].made
        BY <1>1, <2>1, <2>2, <2>3, <4>2 DEF Flushing
      <4> QED
        BY <4>1, <4>2
    <3> QED
      BY <3>1 DEF Bar!FiveRestsOnMinutes
  <2>9. Counted(builder)'
    BY <2>1, <2>2, <2>3 DEF BarsInv, Counted
  <2>10. Flushing'
    BY <2>3, AsleepType DEF Flushing
  <2> QED
    BY <2>3, <2>6, <2>7, <2>8, <2>9, <2>10 DEF BarsInv
<1>10. CASE Bar!InsertCollides
  <2>1. Bar!TypeOK'
    BY <1>1, <1>10, AsleepType DEF Bar!InsertCollides, Bar!TypeOK, Flushes
  <2> QED
    BY <1>1, <1>10, <2>1, RowsStay DEF Bar!InsertCollides, Bar!FiveRestsOnMinutes
<1>11. CASE Bar!FlushFails
  <2>1. faults' \in 0..MaxBarFaults
    BY <1>1, <1>11 DEF Bar!FlushFails, Bar!Fault, Bar!TypeOK, Bar!BoundsOK
  <2>2. Bar!TypeOK'
    BY <1>1, <1>11, <2>1, AsleepType DEF Bar!FlushFails, Bar!TypeOK, Flushes
  <2> QED
    BY <1>1, <1>11, <2>2, RowsStay DEF Bar!FlushFails, Bar!FiveRestsOnMinutes
<1>12. ASSUME NEW popped \in SUBSET Bar!Minutes, Bar!PopSeed(popped)
       PROVE  BarsInv'
  <2>1. Bar!TypeOK'
    BY <1>1, <1>12 DEF Bar!PopSeed, Bar!TypeOK, Bar!BoundsOK
  <2> QED
    BY <1>1, <1>12, <2>1, RowsStay DEF Bar!PopSeed, Bar!FiveRestsOnMinutes
<1>13. ASSUME NEW b \in Bar!Buckets, Bar!SeedFive(b)
       PROVE  BarsInv'
  <2>1. fives' \in Bar!Fives /\ \A c \in Bar!Buckets : fives'[c].live = fives[c].live
    BY <1>1, <1>13 DEF Bar!SeedFive, Bar!Fives
  <2>2. Bar!TypeOK'
    BY <1>1, <1>13, <2>1 DEF Bar!SeedFive, Bar!TypeOK, Bar!BoundsOK
  <2> QED
    BY <1>1, <1>13, <2>1, <2>2, RowsStay DEF Bar!SeedFive, Bar!FiveRestsOnMinutes
<1>14. CASE Bar!InsertSeed
  <2>1. /\ rows' \in [Bar!Minutes -> Bar!Rows]
        /\ \A m \in Bar!Minutes : rows'[m].live = rows[m].live
    BY <1>1, <1>14 DEF Bar!InsertSeed, Bar!Rows, Bar!NoRow
  <2>2. Bar!TypeOK'
    BY <1>1, <1>14, <2>1 DEF Bar!InsertSeed, Bar!TypeOK
  <2>3. Counted(builder)' /\ Bar!TickCountedOnce' /\ Bar!FiveRestsOnMinutes'
    BY <1>1, <1>14, <2>1 DEF Bar!InsertSeed, BarsInv, Counted, Bar!TickCountedOnce,
       Bar!FiveRestsOnMinutes
  <2>4. \A m \in Bar!Minutes : Bar!WithMerged'[m].live = Bar!WithMerged[m].live
    BY <1>1, <1>14, <2>1 DEF Bar!InsertSeed, Bar!WithMerged, Bar!Merged
  <2>5. Flushing'
    BY <1>1, <1>14, <2>1, <2>4 DEF Bar!InsertSeed, Flushing, Counted
  <2> QED
    BY <1>14, <2>2, <2>3, <2>5 DEF Bar!InsertSeed, BarsInv
<1>15. CASE Bar!RefreshFives
  <2>1. Bar!Aggregated(rows) \in Bar!Fives
        /\ \A b \in Bar!Buckets, m \in Bar!Minutes : Bar!Aggregated(rows)[b].live[m] <= rows[m].live
    BY <1>1, AggregatedType
  <2> DEFINE new == Bar!Aggregated(rows)
  <2>2. fives' = [b \in Bar!Buckets |-> IF new[b].made THEN new[b] ELSE fives[b]]
    BY <1>15 DEF Bar!RefreshFives
  <2> HIDE DEF new
  <2>3. fives' \in Bar!Fives
        /\ \A b \in Bar!Buckets, m \in Bar!Minutes : fives'[b].live[m] <= rows[m].live
    BY <1>1, <2>1, <2>2 DEF Bar!Fives, Bar!FiveRestsOnMinutes, new
  <2>4. Bar!TypeOK'
    BY <1>1, <1>15, <2>3 DEF Bar!RefreshFives, Bar!TypeOK, Bar!Idle
  <2> QED
    BY <1>1, <1>15, <2>3, <2>4, RowsStay DEF Bar!RefreshFives
<1>16. CASE Bar!SeedFails
  <2>1. faults' \in 0..MaxBarFaults
    BY <1>1, <1>16 DEF Bar!SeedFails, Bar!Fault, Bar!TypeOK, Bar!BoundsOK
  <2>2. Bar!TypeOK'
    BY <1>1, <1>16, <2>1 DEF Bar!SeedFails, Bar!TypeOK, Bar!Idle
  <2> QED
    BY <1>1, <1>16, <2>2, RowsStay DEF Bar!SeedFails, Bar!FiveRestsOnMinutes
<1>17. CASE Bar!Crash
  <2>1. faults' \in 0..MaxBarFaults
    BY <1>1, <1>17 DEF Bar!Crash, Bar!Fault, Bar!TypeOK, Bar!BoundsOK
  <2>2. Bar!TypeOK'
    BY <1>1, <1>17, <2>1, AsleepType, EmptyTypes DEF Bar!Crash, Bar!TypeOK, Flushes, Bar!Idle
  <2> QED
    BY <1>1, <1>17, <2>2, RowsStay DEF Bar!Crash, Bar!FiveRestsOnMinutes
<1>18. \A first \in 0..Bar!ThisMinute : first..Bar!ThisMinute \in SUBSET Bar!Minutes
  BY <1>1 DEF Bar!TypeOK, Bar!BoundsOK, Bar!ThisMinute, Bar!Minutes
<1> QED
  BY <1>3, <1>4, <1>5, <1>6, <1>7, <1>8, <1>9, <1>10, <1>11, <1>12, <1>13, <1>14, <1>15, <1>16,
     <1>17, <1>18 DEF Bar!Next

LEMMA BarsInit ==
  ASSUME Bar!BoundsOK, Bar!Init
  PROVE  BarsInv
<1>1. 0 \in 0..LastSlot /\ MaxBarFaults \in 0..MaxBarFaults /\ MaxSeeds \in 0..MaxSeeds
      /\ 0 \in 0..MaxHeard
  BY DEF Bar!BoundsOK
<1>2. Bar!TypeOK
  BY <1>1, AsleepType, EmptyTypes DEF Bar!Init, Bar!TypeOK, Flushes, Bar!Idle
<1>3. Bar!TickCountedOnce
  <2>1. \A m \in Bar!Minutes : rows[m].live = 0 /\ heard[m] = 0
    BY EmptyTypes DEF Bar!Init
  <2> QED
    BY <2>1 DEF Bar!TickCountedOnce
<1>5. Flushing
  <2>1. flush.pc = "sleep"
    BY AsleepType DEF Bar!Init
  <2> QED
    BY <2>1 DEF Flushing
<1>4. Bar!FiveRestsOnMinutes
  BY EmptyTypes DEF Bar!Init, Bar!FiveRestsOnMinutes
<1> QED
  BY <1>2, <1>3, <1>4, <1>5, EmptyTypes DEF BarsInv, Bar!Init, Counted

LEMMA BarsInvariant ==
  ASSUME Bar!BoundsOK
  PROVE  Bar!Spec => []BarsInv
<1>1. Bar!Init => BarsInv
  BY BarsInit
<1>2. BarsInv /\ [Bar!Next]_(Bar!vars) => BarsInv'
  BY BarsKeep
<1> QED
  BY <1>1, <1>2, PTL DEF Bar!Spec

-----------------------------------------------------------------------------
(* Theorems                                                                *)

(* PositionSyncWorker opens a closed row again only for an open position,  *)
(* however many snapshots its DEL drops unread and however often it fails  *)
(* or restarts, unless a late request pushed an old snapshot over a        *)
(* younger one.                                                            *)
THEOREM ClosedForGood == Sync!Spec => ClosedStaysClosed
<1>1. Sync!Init => SyncInv
  BY SyncBounds, SyncInit
<1>2. SyncInv /\ [Sync!Next]_(Sync!vars) => SyncInv'
  BY SyncBounds, SyncStep
<1>3. SyncInv /\ [Sync!Next]_(Sync!vars) =>
        [\A t \in Tickets :
           position[t] = "closed" /\ position'[t] = "open" => swapped]_(Sync!vars)
  <2> SUFFICES ASSUME SyncInv, Sync!Next, NEW t \in Tickets,
                      position[t] = "closed", position'[t] = "open", ~swapped
               PROVE  FALSE
    BY DEF SyncInv, Sync!TypeOK
  <2>1. Coherent(t) /\ position \in [Tickets -> {"none", "open", "closed"}]
    BY DEF SyncInv, Sync!TypeOK
  <2>2. position' # position
    BY <2>1
  <2>3. Sync!Upsert
    BY <2>2 DEF Sync!Next, Sync!Worker, Sync!BrokerOpens, Sync!BrokerCloses,
       Sync!SendSnapshot, Sync!SnapshotTimesOut, Sync!DelayedArrives, Sync!Read, Sync!Delete,
       Sync!CycleFails, Sync!Crash
  <2>4. t \in sync.snapshot /\ sync.pc = "upsert"
    BY <2>1, <2>3 DEF Sync!Upsert
  <2> QED
    BY <2>1, <2>4 DEF Coherent, ClosedIsGone
<1> QED
  BY <1>1, <1>2, <1>3, PTL DEF Sync!Spec, ClosedStaysClosed, Sync!ClosedStaysClosed

(* A tick the worker heard is in the row of its own minute at most once,   *)
(* and a five-minute bar holds no more of a minute than is committed,      *)
(* whatever is flushed, popped, seeded or lost in between.                 *)
THEOREM BarsHoldTicks == Bar!Spec => []BarsAreReal
<1>1. Bar!Spec => []BarsInv
  BY BarBounds, BarsInvariant
<1>2. BarsInv => BarsAreReal
  BY DEF BarsInv, BarsAreReal, Bar!BarsAreReal
<1> QED
  BY <1>1, <1>2, PTL

(* Orders, positions and bars keep the types of their state.               *)
THEOREM IngestTypes == Spec /\ Sync!Spec /\ Bar!Spec => []TypesOK
<1>1. Sync!Spec => []SyncInv
  <2>1. Sync!Init => SyncInv
    BY SyncBounds, SyncInit
  <2>2. SyncInv /\ [Sync!Next]_(Sync!vars) => SyncInv'
    BY SyncBounds, SyncStep
  <2> QED
    BY <2>1, <2>2, PTL DEF Sync!Spec
<1>2. Bar!Spec => []BarsInv
  BY BarBounds, BarsInvariant
<1>3. TypeOK /\ SyncInv /\ BarsInv => TypesOK
  BY DEF SyncInv, BarsInv, TypesOK
<1> QED
  BY TypeCorrect, <1>1, <1>2, <1>3, PTL

(* A behaviour of the run is one of each component.                        *)
THEOREM RunsAreBehaviours == MCSpec => Spec /\ Sync!Spec /\ Bar!Spec
<1>1. MCInit => Init /\ Sync!Init /\ Bar!Init
  BY DEF MCInit
<1>2. [OrdersStep \/ PositionsStep \/ BarsStep]_allVars
        => [Next]_vars /\ [Sync!Next]_(Sync!vars) /\ [Bar!Next]_(Bar!vars)
  BY DEF OrdersStep, PositionsStep, BarsStep, allVars, syncVars, barVars, Sync!vars, Bar!vars
<1> QED
  BY <1>1, <1>2, PTL DEF MCSpec, Spec, Sync!Spec, Bar!Spec

(* Every safety property of the run holds of all behaviours of MCSpec.     *)
THEOREM OrdersAreSafe ==
  MCSpec => /\ [](TypesOK /\ NoPhantomFill /\ OneExecution /\ FillAccounted /\ BarsAreReal)
            /\ ClosedStaysClosed
BY RunsAreBehaviours, IngestTypes, FillsAreReal, ExecutedOnce, FillsAreAccounted, BarsHoldTicks,
   ClosedForGood, PTL
=============================================================================
