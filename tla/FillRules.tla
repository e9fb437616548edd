----------------------------- MODULE FillRules -----------------------------
(***************************************************************************)
(* The pure rules of the simulated venue (execution/fills.rs) and of       *)
(* instrument/pricing.rs: rounding, notional and fee, the price an order   *)
(* fills at, the funds a fill needs, and what a fill does to an account.   *)
(*                                                                         *)
(* Decimals are integers in a small unit.  A rate is in basis points, and  *)
(* the constants of every run make each product divisible, so that \div is *)
(* the exact division of rust_decimal.                                     *)
(*                                                                         *)
(* m is the market row of one instrument, [bid, ask, high, low, last, ...];*)
(* bid and ask are both known or both absent, and so are high and low.     *)
(* x is the metadata of an instrument.                                     *)
(***************************************************************************)
EXTENDS OrderRules

CONSTANTS
  FeeBps,         \* PaperConfig.fee_bps
  SlippageBps,    \* PaperConfig.market_slippage_bps
  HalfSpreadBps,  \* GlobalState.synthetic_half_spread_bps
  NoRate          \* an instrument without margin_initial_rate

ASSUME NoPriceAssumption == NoPrice \notin Int

ASSUME RatesAssumption ==
  FeeBps \in Nat /\ SlippageBps \in Nat /\ HalfSpreadBps \in Nat

Classes ==
  {"Crypto", "Equity", "Forex", "Future", "Option", "Perpetual", "Bond", "Hybrid"}

Bps(v, bps) == (v * bps) \div 10000

Abs(v) == IF v < 0 THEN -v ELSE v

Least(v, w) == IF v < w THEN v ELSE w

Signum(v) == IF v > 0 THEN 1 ELSE IF v < 0 THEN -1 ELSE 0

Signed(side, qty) == IF side = "Buy" THEN qty ELSE -qty

UsesMargin(x) == x.class \in {"Future", "Perpetual"}

Multiplier(x) == IF x.class \in {"Future", "Perpetual", "Option"} THEN x.mult ELSE 1

Notional(x, price, qty) == price * qty * Multiplier(x)

Fee(x, price, qty) == Bps(Notional(x, price, qty), FeeBps)

-----------------------------------------------------------------------------
\* Rounding of a new order: quantities down to the lot, prices to the nearest
\* tick with ties to the even multiple (Decimal::round).  0 is "no lot/tick".
RoundQtyToLot(qty, lot) == IF lot = 0 THEN qty ELSE (qty \div lot) * lot

RoundPriceToTick(price, tick) ==
  IF tick = 0 \/ price = NoPrice THEN price
  ELSE LET q == price \div tick
           r == 2 * (price % tick)
       IN  (IF r < tick \/ (r = tick /\ q % 2 = 0) THEN q ELSE q + 1) * tick

\* A new order of an intent after normalize_order and build_open.  A stop-market
\* takes the price as its stop when it has none.
Normalized(x, o) ==
  LET stop == IF o.type = "StopMarket" /\ o.stop = NoPrice THEN o.price ELSE o.stop
  IN  [o EXCEPT
        !.qty   = RoundQtyToLot(@, x.lot),
        !.price = IF o.type \in {"Limit", "StopLimit"}
                    THEN RoundPriceToTick(@, x.tick) ELSE NoPrice,
        !.stop  = IF IsStop(o) THEN RoundPriceToTick(stop, x.tick) ELSE NoPrice]

\* The order carries the prices its type needs and its quantity reaches a lot.
WellFormed(o) ==
  /\ o.qty # 0
  /\ o.type \in {"Limit", "StopLimit"} => o.price # NoPrice
  /\ IsStop(o) => o.stop # NoPrice

-----------------------------------------------------------------------------
\* synthetic_bid_ask: the quote a bar's open or close stands for.
SyntheticBid(price) == price - Bps(price, HalfSpreadBps)
SyntheticAsk(price) == price + Bps(price, HalfSpreadBps)

\* mid_or_last, without its bar_close fallback: a bar sets bid and ask too.
MidOrLast(m) == IF m.bid # NoPrice THEN (m.bid + m.ask) \div 2 ELSE m.last

\* market_reference and apply_slippage.
MarketPrice(side, m) ==
  LET ref == IF m.bid = NoPrice THEN m.last
             ELSE IF side = "Buy" THEN m.ask ELSE m.bid
  IN  IF ref = NoPrice THEN NoPrice ELSE ref + Signed(side, Bps(ref, SlippageBps))

\* crossing_limit with TouchCrossFillModel.
CrossingPrice(side, limit, m) ==
  IF m.bid = NoPrice THEN NoPrice
  ELSE IF side = "Buy" /\ limit >= m.ask THEN m.ask
  ELSE IF side = "Sell" /\ limit <= m.bid THEN m.bid
  ELSE NoPrice

StopTriggered(o, m) ==
  /\ m.high # NoPrice
  /\ IF o.side = "Buy" THEN m.high >= o.stop ELSE m.low <= o.stop

\* resting_stop_market_price and resting_stop_limit_price, which the placement
\* of a stop repeats.
StopPrice(o, m) ==
  IF ~StopTriggered(o, m) THEN NoPrice
  ELSE IF o.type = "StopMarket" THEN MarketPrice(o.side, m)
  ELSE CrossingPrice(o.side, o.price, m)

\* The price at which a new order fills at once, or NoPrice.
PlacedPrice(o, m) ==
  CASE o.type = "Market" -> MarketPrice(o.side, m)
    [] o.type = "Limit"  -> CrossingPrice(o.side, o.price, m)
    [] IsStop(o)         -> StopPrice(o, m)

\* A resting limit that the completed bar touched fills at its own price.
Touched(o, m) ==
  /\ o.type = "Limit"
  /\ m.high # NoPrice
  /\ IF o.side = "Buy" THEN m.low <= o.price ELSE m.high >= o.price

\* try_fill_resting: the price at which a resting order fills, or NoPrice.
RestingPrice(o, m) ==
  IF Touched(o, m) THEN o.price
  ELSE IF o.type = "Limit" THEN CrossingPrice(o.side, o.price, m)
  ELSE StopPrice(o, m)

-----------------------------------------------------------------------------
\* pricing.rs
MarginRequired(x, price, qty) ==
  LET notional == Notional(x, price, Abs(qty))
  IN  IF x.rate = NoRate THEN notional ELSE Bps(notional, x.rate)

\* maintenance_margin_fraction is one half.
MaintenanceMargin(x, price, qty) == MarginRequired(x, price, qty) \div 2

-----------------------------------------------------------------------------
\* An account is [pos, bal, entry]: net position and average entry price per
\* instrument, balance per asset.  i is the instrument, x its metadata.

\* realized_derivative_pnl of a fill against the open position.
Realized(acct, i, x, side, price, qty) ==
  LET cur   == acct.pos[i]
      entry == IF acct.entry[i] = NoPrice THEN price ELSE acct.entry[i]
  IN  IF cur = 0 \/ Signum(cur) = Signum(Signed(side, qty)) THEN 0
      ELSE (price - entry) * Signum(cur) * Least(Abs(cur), qty) * x.mult

\* What the quote balance gains by the fill, its fee included.
QuoteGain(acct, i, x, side, price, qty) ==
  (IF UsesMargin(x) THEN Realized(acct, i, x, side, price, qty)
                    ELSE -Signed(side, Notional(x, price, qty)))
  - Fee(x, price, qty)

\* check_balance_for_fill.
HasFunds(acct, i, x, side, price, qty) ==
  LET fee       == Fee(x, price, qty)
      free      == acct.bal[x.quote]
      cur       == acct.pos[i]
      projected == cur + Signed(side, qty)
      available == free + Realized(acct, i, x, side, price, qty)
      opens     == \/ cur = 0
                   \/ Signum(cur) = Signum(Signed(side, qty))
                   \/ projected # 0 /\ Signum(projected) # Signum(cur)
  IN  IF UsesMargin(x)
        THEN available >= fee + (IF opens /\ x.rate # NoRate
                                   THEN MarginRequired(x, price, projected) ELSE 0)
        ELSE IF side = "Buy" THEN free >= Notional(x, price, qty) + fee
                             ELSE acct.bal[x.base] >= qty

\* next_average_entry.
NextEntry(cur, entry, delta, price) ==
  LET next == cur + delta
  IN  CASE next = 0                                    -> NoPrice
        [] next # 0 /\ (cur = 0 \/ Signum(cur) # Signum(next)) -> price
        [] next # 0 /\ cur # 0 /\ Signum(cur) = Signum(next) ->
             IF Signum(cur) # Signum(delta) THEN entry
             ELSE ((IF entry = NoPrice THEN price ELSE entry) * Abs(cur)
                    + price * Abs(delta)) \div Abs(next)

\* Mutant of BalancesAfterFill: the fee is not charged.
BalancesBeforeFee(bal, seen, i, x, side, price, qty) ==
  [bal EXCEPT ![x.base]  = seen.bal[x.base] + Signed(side, qty),
              ![x.quote] = seen.bal[x.quote] + QuoteGain(seen, i, x, side, price, qty)
                             + Fee(x, price, qty)]

\* push_balance_updates_after_fill: the absolute balances of the two assets,
\* computed from the account `seen` by the fill engine.
BalancesAfterFill(bal, seen, i, x, side, price, qty) ==
  [bal EXCEPT ![x.base]  = seen.bal[x.base] + Signed(side, qty),
              ![x.quote] = seen.bal[x.quote] + QuoteGain(seen, i, x, side, price, qty)]

\* Mutant of AccountAfterFill: the average entry of every class is kept.
AccountEntryOfAll(acct, seen, i, x, side, price, qty) ==
  [pos   |-> [acct.pos EXCEPT ![i] = @ + Signed(side, qty)],
   entry |-> [acct.entry EXCEPT ![i] = NextEntry(acct.pos[i], @, Signed(side, qty), price)],
   bal   |-> BalancesAfterFill(acct.bal, seen, i, x, side, price, qty)]

\* apply_account on the events of one fill: the Fill moves position and entry of
\* the current account, the Balance events install the balances above.
AccountAfterFill(acct, seen, i, x, side, price, qty) ==
  [pos   |-> [acct.pos EXCEPT ![i] = @ + Signed(side, qty)],
   entry |-> [acct.entry EXCEPT ![i] =
                IF UsesMargin(x)
                  THEN NextEntry(acct.pos[i], @, Signed(side, qty), price) ELSE @],
   bal   |-> BalancesAfterFill(acct.bal, seen, i, x, side, price, qty)]
=============================================================================
