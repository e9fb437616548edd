--------------------------- MODULE LifecycleRules ---------------------------
(***************************************************************************)
(* The pure rules of backtest/lifecycle.rs and of position valuation: what *)
(* a position is worth, when it is liquidated, and the cash of a funding,  *)
(* a coupon, an exercise.  Conventions are those of FillRules.             *)
(***************************************************************************)
EXTENDS FillRules

\* position_value: margined instruments by their open profit, others by the
\* balance of their base asset.
PositionValue(acct, i, x, mid) ==
  IF UsesMargin(x)
    THEN (mid - (IF acct.entry[i] = NoPrice THEN mid ELSE acct.entry[i])) * acct.pos[i] * x.mult
    ELSE acct.bal[x.base] * mid * Multiplier(x)

\* mark_to_market_equity_ix.
MarkToMarket(acct, i, x, mid) == acct.bal[x.quote] + PositionValue(acct, i, x, mid)

\* should_liquidate.
MustLiquidate(acct, i, x, mid) ==
  /\ UsesMargin(x)
  /\ acct.pos[i] # 0
  /\ x.rate # NoRate
  /\ x.rate < 10000
  /\ MarkToMarket(acct, i, x, mid) < MaintenanceMargin(x, mid, acct.pos[i])

\* The position leaves the account, and so does the whole base balance.
Closed(acct, i, x) == [acct EXCEPT !.pos[i] = 0, !.bal[x.base] = 0]

\* liquidate_position: the profit that closing at mid realizes.
LiquidationCash(acct, i, x, mid) ==
  LET entry == IF acct.entry[i] = NoPrice THEN mid ELSE acct.entry[i]
  IN  (mid - entry) * acct.pos[i] * x.mult

\* apply_perp_funding at the default rate of one basis point: longs pay.
FundingCash(x, mid, pos) == -Signum(pos) * Bps(Notional(x, mid, Abs(pos)), 1)

\* bond_coupon_cash: x.coupon is the payment per unit held.
CouponCash(acct, x) == x.coupon * acct.bal[x.base]

\* option_intrinsic_value.
Intrinsic(x, spot) ==
  LET value == IF x.kind = "Call" THEN spot - x.strike ELSE x.strike - spot
  IN  IF value > 0 THEN value ELSE 0

ExerciseCash(x, spot, pos) == Intrinsic(x, spot) * pos * x.mult
=============================================================================
