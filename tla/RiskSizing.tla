----------------------------- MODULE RiskSizing -----------------------------
(***************************************************************************)
(* The deterministic half of a decision: trade_core/sizing_calculator.py,  *)
(* trade_core/risk_validator.py and the lookup of                          *)
(* autogen_pipeline/risk_assessor.py.                                      *)
(*                                                                         *)
(* Decimals are integers in a fixed unit: volumes in thousandths of a lot  *)
(* (the base volume is a whole number of hundredths, the multiplied one    *)
(* need not be), fractions of equity in thousandths, multipliers in        *)
(* tenths, prices in pips, money in the account's currency.                *)
(***************************************************************************)
EXTENDS Integers

(* What a cycle reads of the market, the settings and the book, and the    *)
(* limits it judges by (RiskLimits); the set of the strategy's limits is   *)
(* empty when it has none.                                                 *)
Inputs == [equity: Int, entry: Nat, atr: Nat, atrMultiplier: Nat, pipValue: Nat, risk: Nat,
           minVolume: Nat, maxVolume: Nat, total: Nat, correlated: Nat,
           isCorrelated: BOOLEAN, dailyPnl: Int, positions: Nat, strategy: Nat,
           killSwitch: BOOLEAN]
Limits == [perTrade: Nat, total: Nat, correlated: Nat, dailyLoss: Nat, positions: Nat,
           strategy: SUBSET Nat]

Lot       == 1000
Hundredth == 10
One       == 10  \* the multiplier that changes nothing

StopPips(in) == in.atr * in.atrMultiplier

(* SizingError otherwise.                                                  *)
Sizable(in) == in.equity > 0 /\ StopPips(in) > 0 /\ in.pipValue > 0 /\ in.risk \in 1 .. 999

(* equity * risk over the loss of a lot at the stop, rounded down to a     *)
(* hundredth of a lot.                                                     *)
BaseVolume(in) ==
  Hundredth * ((in.equity * in.risk * (Lot \div Hundredth)) \div (1000 * StopPips(in) * in.pipValue))

Clamped(volume, in) ==
  IF volume < in.minVolume THEN in.minVolume
  ELSE IF volume > in.maxVolume THEN in.maxVolume ELSE volume

(* The band of the volatility, by the ATR as a fraction of the price.      *)
Band(in) ==
  IF 1000 * in.atr < 5 * in.entry THEN "low"
  ELSE IF 1000 * in.atr < 10 * in.entry THEN "med" ELSE "high"

(* The multiplier the policy holds for a regime and a band, or one.        *)
Multiplier(adjustments, regime, band) ==
  IF <<regime, band>> \in DOMAIN adjustments THEN adjustments[<<regime, band>>] ELSE One

FinalVolume(in, multiplier) == Clamped((BaseVolume(in) * multiplier) \div One, in)

(* What of the book and a trade of this volume exceeds a limit; a ratio to *)
(* no equity counts as zero.                                               *)
Above(held, volume, limit, in) ==
  in.equity > 0 /\ 1000 * (held * Lot + volume * in.entry) > limit * in.equity * Lot

(* assess_proposal: every reason to refuse a trade of this volume.         *)
Violations(in, volume, limits) ==
  LET bad ==
        [equity     |-> in.equity <= 0,
         kill       |-> in.killSwitch,
         perTrade   |-> Above(0, volume, limits.perTrade, in),
         total      |-> Above(in.total, volume, limits.total, in),
         correlated |-> Above(in.correlated, IF in.isCorrelated THEN volume ELSE 0,
                              limits.correlated, in),
         dailyLoss  |-> in.equity > 0 /\ 1000 * in.dailyPnl <= -(limits.dailyLoss * in.equity),
         positions  |-> in.positions >= limits.positions,
         strategy   |-> \E limit \in limits.strategy :
                          Above(in.strategy, volume, limit, in)]
  IN  {reason \in DOMAIN bad : bad[reason]}

=============================================================================
