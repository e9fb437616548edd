------------------------------- MODULE MCSpot -------------------------------
(***************************************************************************)
(* Replays and live sessions over the bars, trades, quotes and status      *)
(* records of one cash equity.                                             *)
(***************************************************************************)
EXTENDS LiveSession

CONSTANT E

MCRows == <<E>>

MCMeta ==
  [i \in {E} |-> [class |-> "Equity", base |-> "SHARE", quote |-> "USD",
                  lot |-> 1, tick |-> 1000, mult |-> 1, rate |-> NoRate]]

MCAssets == {"SHARE", "USD"}

MCInitialBal == [a \in MCAssets |-> IF a = "USD" THEN 2500 ELSE 0]

PriceBar(o, h, l, c) == [inst |-> E, open |-> o, high |-> h, low |-> l, close |-> c]

MCBars == {PriceBar(1000, 2000, 1000, 2000), PriceBar(2000, 2000, 1000, 1000)}

MCTicks ==
  {[inst |-> E, kind |-> "trade", price |-> 2000],
   [inst |-> E, kind |-> "quote", bid |-> 1000, ask |-> 2000],
   [inst |-> E, kind |-> "status"]}

Buy(type, price, stop, oco) ==
  [inst |-> E, side |-> "Buy", type |-> type, qty |-> 1, price |-> price,
   stop |-> stop, oco |-> oco, client |-> NoClient]

Sell(type, price, stop, oco) == [Buy(type, price, stop, oco) EXCEPT !.side = "Sell"]

Send(intents) == [intents |-> intents, controls |-> <<>>]
Control(kind) == [intents |-> <<>>, controls |-> <<[kind |-> kind]>>]

MCResponses ==
  {Send(<<Buy("Market", NoPrice, NoPrice, NoGroup)>>),
   Send(<<[Buy("Limit", 1400, NoPrice, "g") EXCEPT !.client = "c"],
          Buy("StopMarket", NoPrice, 2000, "g")>>),
   Send(<<Sell("Limit", 2000, NoPrice, "h"), Sell("StopMarket", NoPrice, 1000, "h")>>),
   Send(<<Sell("Limit", 2000, NoPrice, NoGroup), Sell("StopMarket", 1000, NoPrice, NoGroup)>>),
   Send(<<Buy("StopLimit", 1000, 2000, NoGroup)>>),
   Control("Flatten"), Control("CancelAll"),
   [intents |-> <<Buy("Limit", 1000, NoPrice, NoGroup)>>,
    controls |-> <<[kind |-> "CancelClient", client |-> "c"]>>]}

MCCalendar == [t \in 1 .. 6 |-> [day |-> t, funding |-> FALSE, coupon |-> FALSE]]
=============================================================================
