----------------------------- MODULE OrderRules -----------------------------
(***************************************************************************)
(* What an order is to the store that indexes it and to the engine that    *)
(* fills it: its trigger price, and whether a market snapshot reaches it.  *)
(* types.rs declares the fields, oms.rs the ranges of the price books.     *)
(***************************************************************************)
EXTENDS Integers

CONSTANT NoPrice   \* the absent price (Option::None)

OrderTypes == {"Limit", "Market", "StopMarket", "StopLimit"}

Sides == {"Buy", "Sell"}

IsStop(o) == o.type \in {"StopMarket", "StopLimit"}

\* The price that decides whether an order can trigger.
TriggerPrice(o) == IF IsStop(o) THEN o.stop ELSE o.price

\* x >= y, and both are known.
AtLeast(x, y) == x # NoPrice /\ y # NoPrice /\ x >= y

\* The snapshot reaches the order's limit or stop.
Reached(o, m) ==
  \/ o.type = "Limit" /\ o.side = "Buy"  /\ AtLeast(o.price, m.ask)
  \/ o.type = "Limit" /\ o.side = "Sell" /\ AtLeast(m.bid, o.price)
  \/ IsStop(o) /\ o.side = "Buy"  /\ AtLeast(m.high, o.stop)
  \/ IsStop(o) /\ o.side = "Sell" /\ AtLeast(o.stop, m.low)

\* The price book of an instrument that holds the order.
BookName(o) ==
  IF IsStop(o)
    THEN IF o.side = "Buy" THEN "buy_stops" ELSE "sell_stops"
    ELSE IF o.side = "Buy" THEN "buy_limits" ELSE "sell_limits"
=============================================================================
