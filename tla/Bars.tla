-------------------------------- MODULE Bars --------------------------------
(***************************************************************************)
(* One-minute and five-minute bars of one symbol: the tick, flush and seed *)
(* workers of api/app.py on the tables bars_1m and bars_5m.                *)
(*                                                                         *)
(* A bar is the number of live ticks in it; what the terminal's history    *)
(* adds is only named, for its volume is counted by the broker.  A         *)
(* five-minute bar, whose volume is a sum, is what each minute gave to it. *)
(* Time goes by half minutes: a bar is flushed from 90 s after its minute  *)
(* began.                                                                  *)
(***************************************************************************)
EXTENDS Integers

CONSTANTS
  LastSlot,  \* bound: half minutes that pass
  MaxHeard,  \* bound: ticks of one minute
  Bucket,    \* minutes of a five-minute bar
  MaxSeeds,  \* bound: history batches
  MaxFaults  \* bound: calls that raise, and crashes

BoundsOK ==
  /\ LastSlot \in Nat /\ MaxHeard \in Nat /\ Bucket \in Nat \ {0}
  /\ MaxSeeds \in Nat /\ MaxFaults \in Nat

VARIABLES
  now,      \* half minutes
  heard,    \* per minute: ticks the tick worker received
  builder,  \* _bar_builder[symbol]
  flush,    \* _bar_flush_worker and its transaction
  rows,     \* bars_1m
  fives,    \* bars_5m
  seed,     \* _seed_worker: the batch it has popped
  seeds,
  faults

vars == <<now, heard, builder, flush, rows, fives, seed, seeds, faults>>

Minutes  == 0..(LastSlot \div 2)
Buckets  == {m \div Bucket : m \in Minutes}
ThisMinute == now \div 2

NoBar  == [minute |-> -1, ticks |-> 0]
NoRow  == [source |-> "none", live |-> 0]
NoFive == [made |-> FALSE, live |-> [m \in Minutes |-> 0]]
Asleep == [pc |-> "sleep", bar |-> NoBar, seen |-> NoRow, fives |-> [b \in Buckets |-> NoFive]]
Idle   == [pc |-> "idle", batch |-> {}]

Init ==
  /\ now     = 0
  /\ heard   = [m \in Minutes |-> 0]
  /\ builder = NoBar
  /\ flush   = Asleep
  /\ rows    = [m \in Minutes |-> NoRow]
  /\ fives   = [b \in Buckets |-> NoFive]
  /\ seed    = Idle
  /\ seeds   = MaxSeeds
  /\ faults  = MaxFaults

TimePasses ==
  /\ now < LastSlot
  /\ now' = now + 1
  /\ UNCHANGED <<heard, builder, flush, rows, fives, seed, seeds, faults>>

Fault == faults > 0 /\ faults' = faults - 1

-----------------------------------------------------------------------------
(* _tick_worker *)

(* Bug variant of BarWith: the minute of the bar is not compared.          *)
BarWithAnyTick(bar) ==
  IF bar = NoBar THEN [minute |-> ThisMinute, ticks |-> 1]
                 ELSE [bar EXCEPT !.ticks = @ + 1]

(* _update_bar_builder: the first tick of a minute replaces whatever bar   *)
(* is there, flushed or not.                                               *)
BarWith(bar) ==
  IF bar.minute # ThisMinute THEN [minute |-> ThisMinute, ticks |-> 1]
                             ELSE [bar EXCEPT !.ticks = @ + 1]

HearTick ==
  /\ heard[ThisMinute] < MaxHeard
  /\ heard' = [heard EXCEPT ![ThisMinute] = @ + 1]
  /\ builder' = BarWith(builder)
  /\ UNCHANGED <<now, flush, rows, fives, seed, seeds, faults>>

-----------------------------------------------------------------------------
(* _bar_flush_worker *)

(* Older than 90 s.                                                        *)
Ready(bar) == bar # NoBar /\ now - 2 * bar.minute >= 3

Wake ==
  /\ flush.pc = "sleep"
  /\ Ready(builder)
  /\ flush' = [flush EXCEPT !.pc = "select", !.bar = builder]
  /\ UNCHANGED <<now, heard, builder, rows, fives, seed, seeds, faults>>

(* The row is read; then the symbol is popped, whichever bar it has by now.*)
SelectRow ==
  /\ flush.pc = "select"
  /\ flush' = [flush EXCEPT !.pc = "merge", !.seen = rows[flush.bar.minute]]
  /\ builder' = NoBar
  /\ UNCHANGED <<now, heard, rows, fives, seed, seeds, faults>>

Merged == [source |-> IF flush.seen = NoRow THEN "mt5-live" ELSE flush.seen.source,
           live   |-> flush.seen.live + flush.bar.ticks]

WithMerged == [rows EXCEPT ![flush.bar.minute] = Merged]

(* The bars of the buckets that have minutes.                              *)
Aggregated(table) ==
  [b \in Buckets |->
     [made |-> \E m \in Minutes : m \div Bucket = b /\ table[m] # NoRow,
      live |-> [m \in Minutes |-> IF m \div Bucket = b THEN table[m].live ELSE 0]]]

Inserts == flush.seen = NoRow /\ rows[flush.bar.minute] # NoRow

(* The query over bars_1m flushes the pending row first and sees it.  The  *)
(* window of an hour is longer than the bound on time.                     *)
Aggregate ==
  /\ flush.pc = "merge"
  /\ ~Inserts
  /\ flush' = [flush EXCEPT !.pc = "commit", !.fives = Aggregated(WithMerged)]
  /\ UNCHANGED <<now, heard, builder, rows, fives, seed, seeds, faults>>

(* The row and, ON CONFLICT DO NOTHING, new five-minute bars.              *)
CommitFlush ==
  /\ flush.pc = "commit"
  /\ rows' = WithMerged
  /\ fives' = [b \in Buckets |-> IF fives[b].made THEN fives[b] ELSE flush.fives[b]]
  /\ flush' = Asleep
  /\ UNCHANGED <<now, heard, builder, seed, seeds, faults>>

(* The key exists, for the history came first: swallowed, the bar is gone. *)
InsertCollides ==
  /\ flush.pc = "merge"
  /\ Inserts
  /\ flush' = Asleep
  /\ UNCHANGED <<now, heard, builder, rows, fives, seed, seeds, faults>>

(* Any statement raises: swallowed; a bar that was popped is gone.         *)
FlushFails ==
  /\ flush.pc # "sleep"
  /\ Fault
  /\ flush' = Asleep
  /\ UNCHANGED <<now, heard, builder, rows, fives, seed, seeds>>

-----------------------------------------------------------------------------
(* _seed_worker *)

(* BRPOP of a batch: the terminal sends the last minutes, the running one  *)
(* included.                                                               *)
PopSeed(batch) ==
  /\ seed.pc = "idle"
  /\ seeds > 0
  /\ seeds' = seeds - 1
  /\ seed' = [pc |-> "insert", batch |-> batch]
  /\ UNCHANGED <<now, heard, builder, flush, rows, fives, faults>>

(* ON CONFLICT DO NOTHING, behind a flush that has inserted a row of the   *)
(* batch and not committed it.                                             *)
InsertSeed ==
  /\ seed.pc = "insert"
  /\ ~(flush.pc = "commit" /\ flush.bar.minute \in seed.batch)
  /\ rows' = [m \in Minutes |-> IF m \in seed.batch /\ rows[m] = NoRow
                                THEN [source |-> "mt5", live |-> 0] ELSE rows[m]]
  /\ seed' = [seed EXCEPT !.pc = "refresh"]
  /\ UNCHANGED <<now, heard, builder, flush, fives, seeds, faults>>

(* bars_5m again from bars_1m, ON CONFLICT DO UPDATE, in a transaction of  *)
(* its own; the window of six hours is longer than the bound on time.      *)
RefreshFives ==
  /\ seed.pc = "refresh"
  /\ fives' = [b \in Buckets |->
                 IF Aggregated(rows)[b].made THEN Aggregated(rows)[b] ELSE fives[b]]
  /\ seed' = Idle
  /\ UNCHANGED <<now, heard, builder, flush, rows, seeds, faults>>

(* A batch of five-minute bars: the terminal's own, where there is none.   *)
SeedFive(b) ==
  /\ seed.pc = "idle"
  /\ seeds > 0
  /\ seeds' = seeds - 1
  /\ fives' = [fives EXCEPT ![b].made = TRUE]
  /\ UNCHANGED <<now, heard, builder, flush, rows, seed, faults>>

(* Swallowed; the batch is gone, or the refresh after it.                  *)
SeedFails ==
  /\ seed.pc # "idle"
  /\ Fault
  /\ seed' = Idle
  /\ UNCHANGED <<now, heard, builder, flush, rows, fives, seeds>>

(* The process ends: the running bar is only in memory.                    *)
Crash ==
  /\ Fault
  /\ builder' = NoBar
  /\ flush' = Asleep
  /\ seed' = Idle
  /\ UNCHANGED <<now, heard, rows, fives, seeds>>

Next ==
  \/ TimePasses \/ HearTick
  \/ Wake \/ SelectRow \/ Aggregate \/ CommitFlush \/ InsertCollides \/ FlushFails
  \/ \E first \in 0..ThisMinute : PopSeed(first..ThisMinute)
  \/ \E b \in Buckets : SeedFive(b)
  \/ InsertSeed \/ RefreshFives \/ SeedFails \/ Crash

Spec == Init /\ [][Next]_vars

-----------------------------------------------------------------------------
(* Properties *)

Running == [minute : Minutes \cup {-1}, ticks : Nat]
Rows    == [source : {"none", "mt5", "mt5-live"}, live : Nat]
Fives   == [Buckets -> [made : BOOLEAN, live : [Minutes -> Nat]]]

TypeOK ==
  /\ now \in 0..LastSlot
  /\ heard \in [Minutes -> 0..MaxHeard]
  /\ builder \in Running
  /\ flush \in [pc : {"sleep", "select", "merge", "commit"}, bar : Running, seen : Rows,
                fives : Fives]
  /\ rows \in [Minutes -> Rows]
  /\ fives \in Fives
  /\ seed \in [pc : {"idle", "insert", "refresh"}, batch : SUBSET Minutes]
  /\ seeds \in 0..MaxSeeds
  /\ faults \in 0..MaxFaults

(* A tick is in the row of its own minute, and in it once, although a bar  *)
(* may be flushed onto a row that is already there, a flush may fail after *)
(* or before it popped the bar, and minutes share one place in memory.     *)
TickCountedOnce == \A m \in Minutes : rows[m].live <= heard[m]

(* A five-minute bar rests on minutes that are committed: neither a flush  *)
(* that failed nor the history's refresh leaves one ahead of them.         *)
FiveRestsOnMinutes ==
  \A b \in Buckets, m \in Minutes : fives[b].live[m] <= rows[m].live

BarsAreReal == TickCountedOnce /\ FiveRestsOnMinutes
=============================================================================
