----------------------------- MODULE Collector -----------------------------
(***************************************************************************)
(* The pure functions of data/collector.py: ticks into bars, and bars into *)
(* longer ones, with what they promise stated over sequences.              *)
(***************************************************************************)
EXTENDS Integers, SequencesExt

(* _floor_ts                                                               *)
Floor(ts, size) == (ts \div size) * size

NoState == <<>>

(* _seed_state, with the fields that build_bar copies.                     *)
Seeded(tick, bucket) ==
  [ts |-> bucket, open |-> tick.last, high |-> tick.last, low |-> tick.last,
   close |-> tick.last, volume |-> tick.volume]

Higher(a, b) == IF a > b THEN a ELSE b
Lower(a, b)  == IF a < b THEN a ELSE b

(* _update_state, and the merge of a bar in resample_bars_until.           *)
Merged(bar, high, low, close, volume) ==
  [bar EXCEPT !.high = Higher(@, high), !.low = Lower(@, low), !.close = close,
              !.volume = @ + volume]

(* ingest_tick: another bucket, earlier or later, ends the running bar.    *)
IngestTick(run, tick, size) ==
  LET bucket == Floor(tick.ts, size)
  IN IF run.state = NoState
     THEN [run EXCEPT !.state = <<Seeded(tick, bucket)>>]
     ELSE IF run.state[1].ts = bucket
     THEN [run EXCEPT !.state = <<Merged(@[1], tick.last, tick.last, tick.last, tick.volume)>>]
     ELSE [state |-> <<Seeded(tick, bucket)>>, bars |-> Append(run.bars, run.state[1])]

Collected(ticks, size) ==
  FoldLeft(LAMBDA run, tick : IngestTick(run, tick, size),
           [state |-> NoState, bars |-> <<>>], ticks)

BarsOf(ticks, size) ==
  LET run == Collected(ticks, size) IN run.bars \o run.state

(* resample_bars_until: the buckets in order of their time, without those  *)
(* that are not over.                                                      *)
Grouped(bars, size) ==
  LET into(map, bar) ==
        LET b == Floor(bar.ts, size)
        IN IF b \in DOMAIN map
           THEN [map EXCEPT ![b] = Merged(@, bar.high, bar.low, bar.close, bar.volume)]
           ELSE [c \in DOMAIN map \cup {b} |-> IF c = b THEN [bar EXCEPT !.ts = b] ELSE map[c]]
  IN FoldLeft(into, <<>>, bars)

ResampleBars(bars, size, now) ==
  LET groups == Grouped(bars, size)
      over   == {b \in DOMAIN groups : b < Floor(now, size)}
  IN [i \in 1..Cardinality(over) |-> groups[SetToSortSeq(over, <)[i]]]

-----------------------------------------------------------------------------
(* What is promised *)

InOrder(seq) == \A i, j \in DOMAIN seq : i <= j => seq[i].ts <= seq[j].ts

Volume(seq) == FoldLeft(LAMBDA sum, item : sum + item.volume, 0, seq)

(* The bar of the ticks of one bucket, said without a running state.       *)
IsBarOf(bar, ticks) ==
  LET prices == {ticks[i].last : i \in DOMAIN ticks}
  IN /\ bar.open = Head(ticks).last
     /\ bar.close = Last(ticks).last
     /\ bar.high \in prices /\ bar.low \in prices
     /\ \A p \in prices : bar.low <= p /\ p <= bar.high
     /\ bar.volume = Volume(ticks)

(* Ticks in order of their time: one bar per bucket that has ticks, of     *)
(* just those ticks, in order.                                             *)
OrderedTicksMakeBars(ticks, size) ==
  InOrder(ticks) =>
    LET bars == BarsOf(ticks, size)
    IN /\ \A i, j \in DOMAIN bars : i < j => bars[i].ts < bars[j].ts
       /\ {bars[i].ts : i \in DOMAIN bars} = {Floor(ticks[i].ts, size) : i \in DOMAIN ticks}
       /\ \A i \in DOMAIN bars :
            IsBarOf(bars[i], SelectSeq(ticks, LAMBDA t : Floor(t.ts, size) = bars[i].ts))

(* A late tick loses nothing, although its bucket then appears twice.      *)
NoVolumeIsLost(ticks, size) == Volume(BarsOf(ticks, size)) = Volume(ticks)

(* Bars collected by a short size and resampled to a multiple of it are    *)
(* those collected by the long size, for the buckets that are over.        *)
ResamplingCommutes(ticks, size, times, now) ==
  InOrder(ticks) =>
    ResampleBars(BarsOf(ticks, size), size * times, now)
      = SelectSeq(BarsOf(ticks, size * times),
                  LAMBDA bar : bar.ts < Floor(now, size * times))
=============================================================================
