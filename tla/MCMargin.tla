------------------------------ MODULE MCMargin ------------------------------
(***************************************************************************)
(* ReplayEngine over the bars of a perpetual, of a call on it and of a     *)
(* bond, so that every settlement of the lifecycle occurs.                 *)
(***************************************************************************)
EXTENDS ReplayEngine, TLC

CONSTANTS P, O, B

MCRows == <<P, O, B>>

MCMeta ==
  P :> [class |-> "Perpetual", base |-> "PERP", quote |-> "USD",
        lot |-> 1, tick |-> 0, mult |-> 1, rate |-> 5000]
  @@ O :> [class |-> "Option", base |-> "CALL", quote |-> "USD",
           lot |-> 1, tick |-> 0, mult |-> 2, rate |-> NoRate,
           kind |-> "Call", strike |-> 15000, expiry |-> 3, underlying |-> P]
  @@ B :> [class |-> "Bond", base |-> "BOND", quote |-> "USD",
           lot |-> 1, tick |-> 0, mult |-> 1, rate |-> NoRate, coupon |-> 50]

MCAssets == {"PERP", "CALL", "BOND", "USD"}

MCInitialBal == [a \in MCAssets |-> IF a = "USD" THEN 18000 ELSE 0]

FlatBar(i, p) == [inst |-> i, open |-> p, high |-> p, low |-> p, close |-> p]

\* The option's bar falls through the limit and the stop that rest on it.
MCBars ==
  {[FlatBar(P, 10000) EXCEPT !.high = 20000, !.close = 20000],
   [FlatBar(P, 20000) EXCEPT !.low = 10000, !.close = 10000],
   [FlatBar(O, 1000) EXCEPT !.low = 800, !.close = 800]}

MCTicks == {[inst |-> B, kind |-> "quote", bid |-> 900, ask |-> 1100]}

Order(i, side, qty) ==
  [inst |-> i, side |-> side, type |-> "Market", qty |-> qty, price |-> NoPrice,
   stop |-> NoPrice, oco |-> NoGroup, client |-> NoClient]

Limit(i, qty, price) ==
  [Order(i, "Buy", qty) EXCEPT !.type = "Limit", !.price = price, !.client = "c",
                               !.oco = "g"]

Stop(i, qty, price) ==
  [Order(i, "Buy", qty) EXCEPT !.type = "StopMarket", !.stop = price,
                               !.oco = "g"]

Send(intents) == [intents |-> intents, controls |-> <<>>]
Control(c) == [intents |-> <<>>, controls |-> <<c>>]

MCResponses ==
  {Send(<<Order(P, "Buy", 1), Order(P, "Buy", 2)>>),
   Send(<<[Limit(P, 1, 15000) EXCEPT !.side = "Sell"], Order(P, "Sell", 2)>>),
   Send(<<Order(P, "Buy", 1), Order(B, "Buy", 1), Limit(O, 1, 1000), Stop(O, 20, 1000)>>),
   Control([kind |-> "CancelClient", client |-> "c"]),
   Control([kind |-> "Flatten"])}

MCCalendar ==
  [t \in 1 .. 4 |-> [day |-> t \div 2, funding |-> t \in {2, 4}, coupon |-> t = 3]]
=============================================================================
